------------------------- MODULE ExecuteBase_proofs -------------------------
(***************************************************************************)
(* Proofs about Execute, for any models, hooks and number of threads.      *)
(*                                                                         *)
(* The CTEs that are injected into a node are exactly those it needs.      *)
(*                                                                         *)
(* And what Execute_proofs needs of the database, apart from threads: what *)
(* pending operations do to it, what each statement does by comparison     *)
(* with its abstract effect, and that every program of a materialization   *)
(* is safe in the abstract interpretation.                                 *)
(*                                                                         *)
(* First, what is true of Execute while its threads run: the inductive     *)
(* invariant.  The rest of a thread's program is interpreted abstractly:   *)
(* an abstract state says whether the next statement is inside a           *)
(* transaction, and what the thread's node has by the names that it owns.  *)
(* The invariant says that the abstract state is true of the database that *)
(* the thread sees, and that the program is safe from there to its end.    *)
(***************************************************************************)
EXTENDS Execute, WellFoundedInduction, TLAPS

IsSeq(s) == s \in Seq(Range(s))
-----------------------------------------------------------------------------
(* Compilation *)

\* Each ephemeral model is there once, after those that it needs
Good(list) ==
    /\ list \in Seq(Ephemerals) /\ IsInjective(list)
    /\ \A j \in DOMAIN list : Needs[list[j]] \subseteq {list[i] : i \in 1..(j - 1)}

\* The list is that of the node n
Complete(list, n) == Good(list) /\ Range(list) = Needs[n]

FrameType == [node : Nodes, todo : Seq(Ephemerals), ctes : Seq(Ephemerals)]

\* What the node refers to is in the list with all that it needs, or still to do
FrameOK(f) ==
    /\ f \in FrameType
    /\ Good(f.ctes) /\ Range(f.ctes) \subseteq Needs[f.node]
    /\ Range(f.todo) \subseteq Range(EphRefs[f.node])
    /\ Range(EphRefs[f.node]) \subseteq Range(f.ctes) \cup Range(f.todo)

\* Each node is compiled for the next one to do of the one below
StackOK(s) ==
    /\ s \in Seq(FrameType)
    /\ \A i \in DOMAIN s : FrameOK(s[i])
    /\ \A i \in DOMAIN s : i + 1 \in DOMAIN s => s[i].todo # <<>> /\ s[i + 1].node = Head(s[i].todo)

FramesInv == frames \in [Threads -> Seq(FrameType)] /\ \A t \in Threads : StackOK(frames[t])

\* What the manifest and the models have is complete
CtesInv ==
    /\ compiled \in [Ephemerals -> Seq(Ephemerals) \cup {None}]
    /\ ctes \in [Models -> Seq(Ephemerals) \cup {None}]
    /\ \A e \in Ephemerals : compiled[e] # None => Complete(compiled[e], e)
    /\ \A m \in Models : ctes[m] # None => Complete(ctes[m], m)

CompileInv == FramesInv /\ CtesInv
-----------------------------------------------------------------------------
(* Threads and results *)

WorkerType(w) == w = [node |-> w.node, pc |-> w.pc, program |-> w.program]

\* A node is run by one thread, and what is compiled first is that node
WorkerInv ==
    /\ worker = [t \in Threads |-> worker[t]] /\ result = [n \in Nodes |-> result[n]]
    /\ kind \in [Models -> {"table", "view", "incremental", "seed"}]
    /\ run = [no |-> run.no, command |-> run.command, phase |-> run.phase, full |-> run.full]
    /\ run.no \in Nat /\ run.phase \in {"over", "before", "nodes"}
    /\ \A t \in Threads :
         /\ WorkerType(worker[t])
         /\ worker[t] # Idle => /\ run.phase = "nodes" /\ run.no > 0
                                /\ worker[t].node \in Nodes /\ result[worker[t].node] = "running"
                                /\ worker[t].pc \in {"compile", "look", "run"}
         /\ frames[t] # <<>> => worker[t].pc = "compile" /\ frames[t][1].node = worker[t].node
         /\ worker[t].pc \in {"look", "run"} => worker[t].node \in Models
    /\ \A t, u \in Threads : worker[t].node = worker[u].node => t = u \/ worker[t] = Idle
    /\ run.phase = "before" => \A n \in Nodes : result[n] # "success"

\* A run that is not over has a number
CountInv == run.phase # "over" => run.no > 0
-----------------------------------------------------------------------------
(* The database, and what threads have pending *)

Own(n) == {Target(n), Tmp(n), Backup(n)}

IsObject(o) == o = [name |-> o.name, type |-> o.type, uses |-> o.uses, rows |-> o.rows]
IsDb(d) == d = [i \in DOMAIN d |-> d[i]] /\ \A i \in DOMAIN d : IsObject(d[i])
IsOp(op) == op.op \in {"drop", "set"} /\ (op.op = "set" => IsObject(op.object))
IsOps(ops) == IsSeq(ops) /\ \A k \in DOMAIN ops : IsOp(ops[k])
IsConn(c) ==
    /\ c = [open |-> c.open, server |-> c.server, auto |-> c.auto, ops |-> c.ops]
    /\ {c.open, c.server, c.auto} \subseteq BOOLEAN
    /\ IsOps(c.ops)
    /\ ~c.server => c.ops = <<>>

\* The objects that operations change
Touched(op) == IF op.op = "drop" THEN op.ids ELSE {op.id}
Mod(ops) == UNION {Touched(op) : op \in Range(ops)}

AtMostOne(d, name) == \A i, j \in Named(d, name) : i = j

\* Operations of the node n leave alone what it does not own, but for what is
\* dropped with an object that it is a view of, and make only what it owns
Local(d, ops, n) ==
    /\ \A i \in Mod(ops) \cap DOMAIN d :
         \/ d[i].name \in Own(n)
         \/ i \notin DOMAIN Applied(d, ops) /\ \E u \in d[i].uses : u \in Mod(ops) \ DOMAIN Applied(d, ops)
    /\ \A i \in Mod(ops) \cap DOMAIN Applied(d, ops) : Applied(d, ops)[i].name \in Own(n)

\* The object identifiers in use are among a finite set
Bounded(F) ==
    /\ IsFiniteSet(F)
    /\ DOMAIN db \subseteq F /\ \A i \in DOMAIN db : db[i].uses \subseteq F
    /\ \A t \in Threads : \A k \in DOMAIN conn[t].ops : OpIds(conn[t].ops[k]) \subseteq F

DbInv ==
    /\ IsDb(db)
    /\ \A m \in Models : \A x \in Own(m) : AtMostOne(db, x)
    /\ \A m \in Models : \A i \in DOMAIN db : db[i].name \in Own(m) => db[i].rows # 0 \/ NeverBegins(m)
    /\ \E F : Bounded(F)

ConnInv ==
    /\ conn = [t \in Threads |-> conn[t]]
    /\ \A t \in Threads : /\ IsConn(conn[t]) /\ Local(db, conn[t].ops, worker[t].node)
                          /\ worker[t].pc # "run" => conn[t] = Fresh
    /\ \A t, u \in Threads : t # u => Mod(conn[t].ops) \cap Mod(conn[u].ops) = {}
-----------------------------------------------------------------------------
(* Programs *)

\* tx: whether the next statement is inside a transaction.  tgt: what there is
\* by the name of the node: what was committed, nothing, an empty relation or
\* the new one.  tmp, bak: whether there is known to be none.
AState == [tx : {"in", "out"}, open : BOOLEAN, tgt : {"same", "gone", "empty", "built"},
           tmp : {"any", "none"}, bak : {"any", "none"}]

Commits == {"commit", "sql_commit"}
Begins == {"create", "create_empty", "rename", "truncate", "insert", "upsert", "hook_in"}

\* A program ends with the exception that it raises: what comes after is not run
Effect(n, a, i) ==
    [tx |-> IF i.act \in Commits THEN "out" ELSE IF i.act \in Begins /\ ~a.open THEN "in" ELSE a.tx,
     open |-> i.act # "commit" /\ (a.open \/ i.act \in Begins),
     tgt |-> CASE i.act \in Commits -> "same"
               [] i.act = "drop" /\ i.name = Target(n) /\ a.tx = "in" -> "gone"
               [] i.act = "rename" /\ i.name = Target(n) -> "gone"
               [] i.act = "rename" /\ i.to = Target(n) -> "built"
               [] i.act \in {"create", "upsert", "insert"} /\ i.name = Target(n) -> "built"
               [] i.act \in {"create_empty", "truncate", "raise"} -> "empty"
               [] OTHER -> a.tgt,
     tmp |-> CASE i.act \in {"drop", "rename"} /\ i.name = Tmp(n) -> "none"
               [] i.act = "create" /\ i.name = Tmp(n) -> "any"
               [] OTHER -> a.tmp,
     bak |-> CASE i.act = "drop" /\ i.name = Backup(n) -> "none"
               [] i.act = "rename" /\ i.to = Backup(n) -> "any"
               [] OTHER -> a.bak]

\* The relation of the node is given up and made in a transaction, which is
\* committed when it is complete
Careful(n, before, a, i) ==
    /\ i.act \in Commits => a.tgt \in {"same", "built"}
    /\ i.act = "drop" => a.tgt = "same" /\ (i.name = Target(n) => a.tx = "in" \/ before)
    /\ i.act \in Begins => a.tx = "in" \/ ~a.open
    /\ (i.act = "rename" /\ i.name = Target(n)) \/ i.act \in {"truncate", "upsert"} => a.tgt = "same"
    /\ i.act \in {"create", "create_empty", "rename"} => a.tgt \in {"same", "gone"}
    /\ i.act = "insert" => a.tgt = "empty"

Allowed(n, before, a, i) ==
    /\ i.act = "drop" => i.name \in Own(n)
    /\ i.act = "create" => i.name \in {Target(n), Tmp(n)}
    /\ i.act \in {"create_empty", "truncate", "insert", "upsert"} => i.name = Target(n)
    /\ i.act = "rename" => <<i.name, i.to>> \in {<<Target(n), Backup(n)>>, <<Tmp(n), Target(n)>>}
    /\ NeverBegins(n) \/ Careful(n, before, a, i)

\* The program takes a to b by way of the states st
IsRun(st, n, before, a, p, b) ==
    /\ st \in [0..Len(p) -> AState] /\ st[0] = a /\ st[Len(p)] = b
    /\ \A k \in 1..Len(p) : Allowed(n, before, st[k - 1], p[k]) /\ st[k] = Effect(n, st[k - 1], p[k])
Runs(n, before, a, p, b) == IsSeq(p) /\ \E st : IsRun(st, n, before, a, p, b)

\* The end of a program
Final(k, b) == b.tx = "out" /\ (k \in {"table", "view"} => b.tmp = "none" /\ b.bak = "none")

\* The relation by the name of the node is what the abstract state says
TargetIs(d, ops, n, tgt) ==
    LET e == Applied(d, ops)
    IN /\ \A i \in DOMAIN e : e[i].name \in Own(n) => e[i].rows # 0 \/ (e[i].name = Target(n) /\ tgt = "empty")
       /\ tgt = "same" =>
            /\ \A i \in Named(d, Target(n)) : i \in Named(e, Target(n)) \/ \E u \in d[i].uses : u \in Mod(ops) \ DOMAIN e
            /\ Named(e, Target(n)) \cap Mod(ops) = {}
       /\ tgt \in {"empty", "built"} => Named(e, Target(n)) \cap Mod(ops) # {}

\* The abstract state a is true of the connection c of a thread that runs n
Means(d, c, n, a) ==
    /\ a \in AState /\ a.open = c.open
    /\ IF a.tx = "in" THEN c.server \/ ~c.auto ELSE ~c.server /\ c.auto /\ c.ops = <<>>
    /\ \A x \in Own(n) : AtMostOne(Applied(d, c.ops), x)
    /\ a.tmp = "none" => Named(Applied(d, c.ops), Tmp(n)) = {}
    /\ a.bak = "none" => Named(Applied(d, c.ops), Backup(n)) = {}
    /\ \/ NeverBegins(n)
       \/ TargetIs(d, c.ops, n, a.tgt) /\ (a.tgt \in {"gone", "empty"} => a.tx = "in")

ProgramInv ==
    \A t \in Threads : worker[t].pc = "run" =>
      LET n == worker[t].node
      IN \E a, b \in AState : /\ Means(db, conn[t], n, a) /\ Final(kind[n], b)
                              /\ Runs(n, DropsBefore(n), a, worker[t].program, b)

IInv == WorkerInv /\ DbInv /\ ConnInv /\ ProgramInv /\ NoLeftovers
-----------------------------------------------------------------------------
(* Induction and recursion over 0..N *)

\* The prover of every leaf that names no other
USE ZenonT(40)

LEMMA Induction ==
    ASSUME NEW N \in Nat, NEW T, 0 \in T, \A n \in 1..N : n - 1 \in T => n \in T
    PROVE  0..N \subseteq T
  <1> DEFINE R == OpToRel(<, Nat)
             Bad == 0..N \ T
  <1>1. IsWellFoundedOn(R, Nat)
    BY NatLessThanWellFounded
  <1>2. \A m, n \in Nat : m < n => <<m, n>> \in R
    BY DEF OpToRel
  <1>3. Bad \subseteq Nat
    BY SMT
  <1> SUFFICES ASSUME Bad # {} PROVE FALSE
    OBVIOUS
  <1> HIDE DEF R, Bad
  <1>a. \E n \in Bad : \A m \in Bad : ~(<<m, n>> \in R)
    BY <1>1, <1>3, WFMin
  <1>4. PICK n \in Bad : \A m \in Bad : ~(<<m, n>> \in R)
    BY <1>a
  <1>5. n \in 1..N
    BY SMT DEF Bad
  <1>6. n - 1 \notin Bad
    <2>1. n - 1 \in Nat /\ n \in Nat /\ n - 1 < n
      BY <1>5, SMT
    <2>2. <<n - 1, n>> \in R
      BY <1>2, <2>1
    <2> QED
      BY <1>4, <2>2
  <1> QED
    BY <1>4, <1>5, <1>6, SMT DEF Bad

\* A value is carried through N steps, the nth of which is step[<<value, n>>].
IsFold(f, N, S, base, step) ==
    f \in [0..N -> S] /\ f[0] = base /\ \A n \in 1..N : f[n] = step[<<f[n - 1], n>>]

LEMMA FoldExists ==
    ASSUME NEW N \in Nat, NEW S, NEW base \in S, NEW step \in [S \X (1..N) -> S]
    PROVE  \E f : IsFold(f, N, S, base, step)
  <1> DEFINE Upto(f, m) == f \in [0..m -> S] /\ f[0] = base /\ \A n \in 1..m : f[n] = step[<<f[n - 1], n>>]
             T == {m \in 0..N : \E f : Upto(f, m)}
  <1>1. 0 \in T
    <2> DEFINE f == [n \in 0..0 |-> base]
    <2>1. f \in [0..0 -> S] /\ f[0] = base
      BY SMT
    <2>2. 1..0 = {} /\ 0 \in 0..N
      BY SMT
    <2>3. Upto(f, 0)
      BY <2>1, <2>2
    <2> QED
      BY <2>2, <2>3
  <1>2. ASSUME NEW m \in 1..N, m - 1 \in T PROVE m \in T
    <2>1. PICK f : Upto(f, m - 1)
      BY <1>2
    <2> DEFINE g == [n \in 0..m |-> IF n = m THEN step[<<f[m - 1], m>>] ELSE f[n]]
    <2>0. m - 1 \in 0..(m - 1) /\ m \in Nat
      BY SMT
    <2>2. f[m - 1] \in S /\ step[<<f[m - 1], m>>] \in S
      BY <2>0, <2>1
    <2>3. g \in [0..m -> S] /\ g[0] = base
      <3>1. ASSUME NEW n \in 0..m PROVE g[n] \in S
        <4>1. n = m \/ n \in 0..(m - 1)
          BY <2>0, SMT
        <4> QED
          BY <2>1, <2>2, <4>1
      <3> QED
        BY <2>1, <3>1, SMT
    <2>4. ASSUME NEW n \in 1..m PROVE g[n] = step[<<g[n - 1], n>>]
      <3>1. n - 1 \in 0..m /\ n - 1 # m /\ n \in 0..m /\ (n = m \/ n \in 1..(m - 1))
        BY <2>0, SMT
      <3>2. g[n - 1] = f[n - 1]
        BY <3>1
      <3>3. CASE n = m
        BY <3>1, <3>2, <3>3
      <3>4. CASE n # m
        <4>1. g[n] = f[n] /\ n \in 1..(m - 1)
          BY <3>1, <3>4
        <4> QED
          BY <2>1, <3>2, <4>1
      <3> QED
        BY <3>3, <3>4
    <2> HIDE DEF g
    <2>5. Upto(g, m) /\ m \in 0..N
      BY <2>3, <2>4, SMT
    <2> QED
      BY <2>5
  <1>3. N \in T
    <2> HIDE DEF T
    <2>1. 0..N \subseteq T
      BY <1>1, <1>2, Induction
    <2> QED
      BY <2>1, SMT
  <1> QED
    BY <1>3 DEF IsFold
-----------------------------------------------------------------------------
(* Compilation *)

\* A good list is closed.
LEMMA GoodCloses ==
    ASSUME NEW l, Good(l)
    PROVE  /\ Range(l) \subseteq Ephemerals /\ \A e \in Range(l) : Needs[e] \subseteq Range(l)
           /\ \A i, j \in DOMAIN l : l[i] \in Needs[l[j]] => i < j
  <1>1. l \in Seq(Ephemerals) /\ IsInjective(l) /\ DOMAIN l = 1..Len(l) /\ Len(l) \in Nat
    BY SMT DEF Good
  <1>2. Range(l) \subseteq Ephemerals
    BY <1>1, SMT DEF Range
  <1>3. ASSUME NEW j \in DOMAIN l PROVE Needs[l[j]] \subseteq Range(l)
    <2>1. {l[i] : i \in 1..(j - 1)} \subseteq Range(l)
      <3>1. \A i \in 1..(j - 1) : i \in DOMAIN l
        BY <1>1, SMT
      <3> QED
        BY <3>1 DEF Range
    <2> QED
      BY <2>1 DEF Good
  <1>4. ASSUME NEW i \in DOMAIN l, NEW j \in DOMAIN l, l[i] \in Needs[l[j]] PROVE i < j
    <2>1. PICK k \in 1..(j - 1) : l[i] = l[k]
      BY <1>4 DEF Good
    <2>2. k \in DOMAIN l
      BY <1>1, SMT
    <2>3. i = k
      BY <1>1, <2>1, <2>2 DEF IsInjective
    <2> QED
      BY <1>1, <2>3, SMT
  <1> QED
    BY <1>2, <1>3, <1>4 DEF Range

LEMMA InitCompile == Init => CompileInv
  <1> SUFFICES ASSUME Init PROVE CompileInv
    OBVIOUS
  <1>1. /\ frames = [t \in Threads |-> <<>>]
        /\ compiled = [e \in Ephemerals |-> None] /\ ctes = [m \in Models |-> None]
    BY DEF Init
  <1>2. FramesInv
    BY <1>1, SMT DEF FramesInv, StackOK
  <1>3. CtesInv
    BY <1>1 DEF CtesInv
  <1> QED
    BY <1>2, <1>3 DEF CompileInv

\* Every action keeps the invariant of the compilation.  First, what a node needs
\* and what happens to a list of CTEs and to a stack of frames; then the actions.
LEMMA NextCompile == CompileInv /\ [Next]_vars => CompileInv'
  <1>RefsFacts. /\ \A n \in Nodes : EphRefs[n] \in Seq(Ephemerals) /\ Range(EphRefs[n]) \subseteq Ephemerals
                /\ Ephemerals \subseteq Nodes
    BY ExecuteAssumption, SMT DEF Range, Nodes
  <1>NeedsFacts. ASSUME NEW n \in Nodes
                 PROVE  /\ Needs[n] \subseteq Ephemerals
                        /\ Range(EphRefs[n]) \subseteq Needs[n]
                        /\ \A e \in Range(EphRefs[n]) : Needs[e] \subseteq Needs[n]
                        /\ \A S \in SUBSET Ephemerals :
                             Range(EphRefs[n]) \subseteq S /\ (\A e \in S : Needs[e] \subseteq S) => Needs[n] \subseteq S
    <2> USE <1>NeedsFacts
    <2> DEFINE Around(m) == {S \in SUBSET Ephemerals : Range(EphRefs[m]) \subseteq S /\ Closed(S)}
    <2>1. ASSUME NEW m \in Nodes PROVE Needs[m] = {e \in Ephemerals : \A S \in Around(m) : e \in S}
      BY DEF Needs
    <2>2. Needs[n] \subseteq Ephemerals
      BY <2>1
    <2>3. ASSUME NEW m \in Nodes PROVE Range(EphRefs[m]) \subseteq Needs[m]
      BY <2>1, <1>RefsFacts
    <2>4. ASSUME NEW e \in Range(EphRefs[n]) PROVE Needs[e] \subseteq Needs[n]
      <3>1. e \in Nodes
        BY <1>RefsFacts
      <3>2. \A S \in Around(n) : S \in Around(e)
        BY DEF Closed
      <3> HIDE DEF Around
      <3> QED
        BY <2>1, <3>1, <3>2
    <2>5. ASSUME NEW S \in SUBSET Ephemerals, Range(EphRefs[n]) \subseteq S, \A e \in S : Needs[e] \subseteq S
          PROVE  Needs[n] \subseteq S
      <3>1. Closed(S)
        BY <2>3, <2>5, <1>RefsFacts DEF Closed
      <3> QED
        BY <2>1, <2>5, <3>1
    <2> QED
      BY <2>2, <2>3, <2>4, <2>5
  \* _add_prepended_cte keeps a list good if what the model needs is there.
  <1>AddKeeps. ASSUME NEW l, Good(l), NEW e \in Ephemerals, Needs[e] \subseteq Range(l)
               PROVE  Good(_add_prepended_cte(l, e)) /\ Range(_add_prepended_cte(l, e)) = Range(l) \cup {e}
    <2> USE <1>AddKeeps
    <2>1. CASE e \in Range(l)
      BY <2>1 DEF _add_prepended_cte
    <2>2. CASE e \notin Range(l)
      <3> DEFINE m == Append(l, e)
                 k == Len(l) + 1
      <3>1. l \in Seq(Ephemerals) /\ IsInjective(l) /\ DOMAIN l = 1..Len(l) /\ Len(l) \in Nat
        BY SMT DEF Good
      <3>2. _add_prepended_cte(l, e) = m
        BY <2>2 DEF _add_prepended_cte
      <3>3. /\ m \in Seq(Ephemerals) /\ DOMAIN m = DOMAIN l \cup {k} /\ k \notin DOMAIN l
            /\ m[k] = e /\ \A i \in DOMAIN l : m[i] = l[i]
        BY <3>1, SMT
      <3> HIDE DEF m
      <3>4. Range(m) = Range(l) \cup {e}
        BY <3>3, SMT DEF Range
      <3>5. \A i \in DOMAIN l : l[i] # e
        BY <2>2 DEF Range
      <3>6. IsInjective(m)
        BY <3>1, <3>3, <3>5 DEF IsInjective
      <3>7. ASSUME NEW j \in DOMAIN m PROVE Needs[m[j]] \subseteq {m[i] : i \in 1..(j - 1)}
        <4>1. CASE j \in DOMAIN l
          <5>1. \A i \in 1..(j - 1) : i \in DOMAIN l /\ m[i] = l[i]
            BY <3>1, <3>3, <4>1, SMT
          <5>2. {l[i] : i \in 1..(j - 1)} = {m[i] : i \in 1..(j - 1)}
            BY <5>1
          <5>3. Needs[l[j]] \subseteq {l[i] : i \in 1..(j - 1)}
            BY <4>1 DEF Good
          <5> QED
            BY <3>3, <4>1, <5>2, <5>3
        <4>2. CASE j = k
          <5>1. 1..(j - 1) = DOMAIN l
            BY <3>1, <4>2, SMT
          <5>2. Range(l) = {m[i] : i \in DOMAIN l}
            BY <3>3 DEF Range
          <5> QED
            BY <3>3, <4>2, <5>1, <5>2
        <4> QED
          BY <3>3, <4>1, <4>2
      <3>8. Good(m)
        BY <3>3, <3>6, <3>7 DEF Good
      <3> QED
        BY <3>2, <3>4, <3>8
    <2> QED
      BY <2>1, <2>2
  \* _extend_prepended_ctes merges two good lists into one.
  <1>ExtendKeeps. ASSUME NEW l, Good(l), NEW more, Good(more), NEW q, q = _extend_prepended_ctes(l, more)
                  PROVE  Good(q) /\ Range(q) = Range(l) \cup Range(more)
    <2> USE <1>ExtendKeeps
    <2> DEFINE N == Len(more)
               S == Seq(Ephemerals)
               step == [x \in S \X (1..N) |-> _add_prepended_cte(x[1], more[x[2]])]
               upto == CHOOSE f : f = [n \in 0..N |-> IF n = 0 THEN l ELSE _add_prepended_cte(f[n - 1], more[n])]
               first(n) == {more[i] : i \in 1..n}
               Gives(x, n) == Good(x) /\ Range(x) = Range(l) \cup first(n)
               T == {n \in 0..N : Gives(upto[n], n)}
    <2>1. q = upto[N]
      BY DEF _extend_prepended_ctes
    <2>2. /\ l \in S /\ more \in S /\ N \in Nat /\ DOMAIN more = 1..N
          /\ \A n \in 1..N : more[n] \in Ephemerals
      BY SMT DEF Good
    <2>3. step \in [S \X (1..N) -> S]
      BY <2>2, SMT DEF _add_prepended_cte
    <2>4. PICK f : IsFold(f, N, S, l, step)
      <3> HIDE DEF step, N, S
      <3> QED
        BY <2>2, <2>3, FoldExists
    <2>5. f = [n \in 0..N |-> IF n = 0 THEN l ELSE _add_prepended_cte(f[n - 1], more[n])]
      <3>1. ASSUME NEW n \in 1..N PROVE f[n] = _add_prepended_cte(f[n - 1], more[n])
        <4>0. n - 1 \in 0..N
          BY <2>2, SMT
        <4>1. f[n - 1] \in S
          <5> HIDE DEF step, S, N
          <5> QED
            BY <2>4, <4>0 DEF IsFold
        <4>2. step[<<f[n - 1], n>>] = _add_prepended_cte(f[n - 1], more[n])
          BY <4>1
        <4>3. f[n] = step[<<f[n - 1], n>>]
          <5> HIDE DEF step
          <5> QED
            BY <2>4 DEF IsFold
        <4> QED
          BY <4>2, <4>3
      <3> HIDE DEF step
      <3> QED
        BY <2>2, <2>4, <3>1, SMT DEF IsFold
    <2>6. upto = [n \in 0..N |-> IF n = 0 THEN l ELSE _add_prepended_cte(upto[n - 1], more[n])]
      BY <2>5
    <2> HIDE DEF upto, step, S
    <2>7. 0 \in T
      <3>1. first(0) = {}
        BY SMT
      <3>2. upto[0] = l
        BY <2>2, <2>6, SMT
      <3> HIDE DEF first
      <3> QED
        BY <2>2, <3>1, <3>2, SMT
    <2>8. ASSUME NEW n \in 1..N, n - 1 \in T PROVE n \in T
      <3>1. Gives(upto[n - 1], n - 1)
        BY <2>8
      <3>2. upto[n] = _add_prepended_cte(upto[n - 1], more[n])
        <4>1. n \in 0..N /\ n # 0
          BY SMT
        <4> QED
          BY <2>6, <4>1
      <3>3. first(n) = first(n - 1) \cup {more[n]}
        <4>1. 1..n = (1..(n - 1)) \cup {n}
          BY SMT
        <4> QED
          BY <4>1
      <3>4. more[n] \in Ephemerals /\ Needs[more[n]] \subseteq first(n - 1)
        BY <2>2 DEF Good
      <3> HIDE DEF first
      <3>5. Gives(upto[n], n)
        BY <3>1, <3>2, <3>3, <3>4, <1>AddKeeps, SMT
      <3> QED
        BY <3>5, SMT
    <2>9. Gives(q, N)
      <3>1. N \in T
        <4> HIDE DEF T
        <4>1. 0..N \subseteq T
          BY <2>2, <2>7, <2>8, Induction
        <4> QED
          BY <2>2, <4>1, SMT
      <3> QED
        BY <2>1, <3>1
    <2>10. Range(more) = first(N)
      BY <2>2 DEF Range
    <2> QED
      BY <2>9, <2>10
  <1>NewFrame. ASSUME NEW n \in Nodes PROVE FrameOK(Frame(n)) /\ Frame(n).node = n
    <2> USE <1>NewFrame
    <2>1. <<>> \in Seq(Ephemerals) /\ Range(<<>>) = {} /\ Good(<<>>)
      BY SMT DEF Good, Range, IsInjective
    <2>2. Frame(n) \in FrameType /\ Frame(n).node = n /\ Frame(n).todo = EphRefs[n] /\ Frame(n).ctes = <<>>
      BY <1>RefsFacts, SMT DEF Frame, FrameType
    <2> QED
      BY <2>1, <2>2 DEF FrameOK
  <1>FrameDone. ASSUME NEW f, FrameOK(f), f.todo = <<>> PROVE Complete(f.ctes, f.node)
    <2> USE <1>FrameDone
    <2>1. f.node \in Nodes /\ Good(f.ctes)
      BY DEF FrameOK, FrameType
    <2>2. Range(f.todo) = {}
      BY SMT DEF Range
    <2>3. Range(EphRefs[f.node]) \subseteq Range(f.ctes) /\ Range(f.ctes) \subseteq Needs[f.node]
      BY <2>2 DEF FrameOK
    <2>4. Needs[f.node] \subseteq Range(f.ctes)
      BY <2>1, <2>3, GoodCloses, <1>NeedsFacts, SMT
    <2> QED
      BY <2>1, <2>3, <2>4 DEF Complete
  \* The next model to do has been compiled: its CTEs and itself are prepended.
  <1>PrependedKeeps. ASSUME NEW f, FrameOK(f), f.todo # <<>>, NEW more, Complete(more, Head(f.todo))
                     PROVE  FrameOK(Prepended(f, more)) /\ Prepended(f, more).node = f.node
    <2> USE <1>PrependedKeeps
    <2> DEFINE e == Head(f.todo)
               q == _extend_prepended_ctes(f.ctes, more)
               c == _add_prepended_cte(q, e)
               g == Prepended(f, more)
    <2>1. f \in FrameType /\ f.node \in Nodes /\ f.todo \in Seq(Ephemerals) /\ f.ctes \in Seq(Ephemerals)
      BY DEF FrameOK, FrameType
    <2>2. /\ e \in Ephemerals /\ e \in Range(f.todo) /\ Tail(f.todo) \in Seq(Ephemerals)
          /\ Range(f.todo) = Range(Tail(f.todo)) \cup {e}
      <3> DEFINE s == f.todo
      <3> HIDE DEF s
      <3>1. s \in Seq(Ephemerals) /\ s # <<>>
        BY <2>1 DEF s
      <3>2. /\ Head(s) = s[1] /\ 1 \in DOMAIN s /\ Head(s) \in Ephemerals /\ Tail(s) \in Seq(Ephemerals)
            /\ \A i \in DOMAIN Tail(s) : i + 1 \in DOMAIN s /\ Tail(s)[i] = s[i + 1]
            /\ \A i \in DOMAIN s : i # 1 => i - 1 \in DOMAIN Tail(s) /\ Tail(s)[i - 1] = s[i]
        BY <3>1, SMT
      <3>3. \A i \in DOMAIN s : s[i] \in Range(Tail(s)) \cup {Head(s)}
        BY <3>2 DEF Range
      <3>4. \A i \in DOMAIN Tail(s) : Tail(s)[i] \in Range(s)
        BY <3>2 DEF Range
      <3>5. Head(s) \in Range(s)
        BY <3>2 DEF Range
      <3>6. Range(s) = Range(Tail(s)) \cup {Head(s)}
        <4>1. Range(s) \subseteq Range(Tail(s)) \cup {Head(s)}
          <5> HIDE DEF s
          <5>1. \A z \in Range(s) : \E i \in DOMAIN s : z = s[i]
            BY DEF Range
          <5> QED
            BY <3>3, <5>1
        <4>2. Range(Tail(s)) \subseteq Range(s)
          <5>1. \A z \in Range(Tail(s)) : \E i \in DOMAIN Tail(s) : z = Tail(s)[i]
            BY DEF Range
          <5> QED
            BY <3>4, <5>1
        <4> QED
          BY <3>5, <4>1, <4>2
      <3> QED
        BY <3>2, <3>5, <3>6 DEF s
    <2>3. Good(q) /\ Range(q) = Range(f.ctes) \cup Needs[e]
      <3>1. Good(f.ctes) /\ Good(more) /\ Range(more) = Needs[e]
        BY DEF FrameOK, Complete
      <3> QED
        BY <3>1, <1>ExtendKeeps, SMT
    <2> HIDE DEF q
    <2>4. Good(c) /\ Range(c) = Range(f.ctes) \cup Needs[e] \cup {e}
      BY <2>2, <2>3, <1>AddKeeps, SMT
    <2>5. g = [f EXCEPT !.ctes = c, !.todo = Tail(f.todo)]
      BY DEF Prepended, q
    <2> HIDE DEF c, e
    <2>6. /\ g \in FrameType /\ g.node = f.node /\ g.ctes = c /\ g.todo = Tail(f.todo)
      <3>1. c \in Seq(Ephemerals)
        BY <2>4 DEF Good
      <3> DEFINE td == Tail(f.todo)
      <3>2. g = [f EXCEPT !.ctes = c, !.todo = td] /\ td \in Seq(Ephemerals)
        BY <2>2, <2>5
      <3> HIDE DEF td, g
      <3>3. g \in FrameType /\ g.node = f.node /\ g.ctes = c /\ g.todo = td
        BY <2>1, <3>1, <3>2 DEF FrameType
      <3> QED
        BY <3>3 DEF td
    <2> HIDE DEF g
    <2>7. e \in Range(EphRefs[f.node])
      BY <2>2 DEF FrameOK
    <2>8. Needs[e] \cup {e} \subseteq Needs[f.node]
      BY <2>1, <2>7, <1>NeedsFacts, SMT
    <2>9. FrameOK(g)
      BY <2>1, <2>2, <2>4, <2>6, <2>8 DEF FrameOK
    <2> QED
      BY <2>6, <2>9 DEF g
  <1>OneFrame. ASSUME NEW f, FrameOK(f) PROVE StackOK(<<f>>)
    BY <1>OneFrame, SMT DEF StackOK, FrameOK
  <1>PushKeeps. ASSUME NEW s, StackOK(s), s # <<>>, s[Len(s)].todo # <<>>,
                       NEW g, FrameOK(g), g.node = Head(s[Len(s)].todo)
                PROVE  StackOK(Append(s, g))
    <2> USE <1>PushKeeps
    <2> DEFINE q == Append(s, g)
    <2>1. s \in Seq(FrameType) /\ g \in FrameType
      BY DEF StackOK, FrameOK
    <2>2. /\ q \in Seq(FrameType) /\ Len(s) \in Nat /\ Len(q) = Len(s) + 1
          /\ DOMAIN s = 1..Len(s) /\ DOMAIN q = 1..(Len(s) + 1)
          /\ \A i \in DOMAIN s : q[i] = s[i]
          /\ q[Len(s) + 1] = g
      BY <2>1, SMT
    <2> HIDE DEF q
    <2>3. \A i \in DOMAIN q : FrameOK(q[i])
      BY <2>2, SMT DEF StackOK
    <2>4. ASSUME NEW i \in DOMAIN q, i + 1 \in DOMAIN q
          PROVE  q[i].todo # <<>> /\ q[i + 1].node = Head(q[i].todo)
      <3>1. i \in DOMAIN s /\ q[i] = s[i]
        BY <2>2, <2>4, SMT
      <3>2. CASE i = Len(s)
        BY <2>2, <3>1, <3>2
      <3>3. CASE i # Len(s)
        <4>1. i + 1 \in DOMAIN s /\ q[i + 1] = s[i + 1]
          BY <2>2, <2>4, <3>3, SMT
        <4> QED
          BY <3>1, <4>1 DEF StackOK
      <3> QED
        BY <3>2, <3>3
    <2> QED
      BY <2>2, <2>3, <2>4 DEF StackOK, q
  <1>TopChanges. ASSUME NEW s, StackOK(s), s # <<>>, NEW g, FrameOK(g), g.node = s[Len(s)].node
                 PROVE  StackOK([s EXCEPT ![Len(s)] = g])
    <2> USE <1>TopChanges
    <2> DEFINE k == Len(s)
               q == [s EXCEPT ![k] = g]
    <2>1. s \in Seq(FrameType) /\ g \in FrameType
      BY DEF StackOK, FrameOK
    <2>2. k \in Nat /\ k \in DOMAIN s /\ DOMAIN s = 1..k
      BY <2>1, SMT
    <2> HIDE DEF k
    <2>3. /\ q \in Seq(FrameType) /\ DOMAIN q = DOMAIN s
          /\ \A i \in DOMAIN s : q[i] = IF i = k THEN g ELSE s[i]
      <3>1. DOMAIN q = DOMAIN s /\ \A i \in DOMAIN s : q[i] = IF i = k THEN g ELSE s[i]
        BY <2>2
      <3>2. q \in [1..k -> FrameType]
        BY <2>1, <2>2, SMT
      <3>3. q \in Seq(FrameType)
        <4> HIDE DEF q
        <4> QED
          BY <2>2, <3>2, SMT
      <3> QED
        BY <3>1, <3>3
    <2> HIDE DEF q
    <2>4. \A i \in DOMAIN q : FrameOK(q[i])
      BY <2>2, <2>3 DEF StackOK
    <2>5. ASSUME NEW i \in DOMAIN q, i + 1 \in DOMAIN q
          PROVE  q[i].todo # <<>> /\ q[i + 1].node = Head(q[i].todo)
      <3>1. i \in DOMAIN s /\ i + 1 \in DOMAIN s /\ i # k /\ q[i] = s[i]
        BY <2>2, <2>3, <2>5, SMT
      <3>2. q[i + 1].node = s[i + 1].node
        BY <2>3, <3>1 DEF k
      <3> QED
        BY <3>1, <3>2 DEF StackOK
    <2> QED
      BY <2>3, <2>4, <2>5 DEF StackOK, q, k
  <1>PopKeeps. ASSUME NEW s, StackOK(s), NEW k, k = Len(s) - 1, k > 0
               PROVE  /\ StackOK(SubSeq(s, 1, k)) /\ SubSeq(s, 1, k) # <<>> /\ Len(SubSeq(s, 1, k)) = k
                      /\ SubSeq(s, 1, k)[k] = s[k] /\ k \in DOMAIN s /\ Len(s) \in DOMAIN s
                      /\ s[k].todo # <<>> /\ s[Len(s)].node = Head(s[k].todo)
    <2> USE <1>PopKeeps
    <2> DEFINE q == SubSeq(s, 1, k)
    <2>1. s \in Seq(FrameType)
      BY DEF StackOK
    <2>2. k \in Nat /\ k \in DOMAIN s /\ k + 1 \in DOMAIN s /\ k + 1 = Len(s) /\ DOMAIN s = 1..(k + 1)
      BY <2>1, SMT
    <2>3. /\ q \in Seq(FrameType) /\ Len(q) = k /\ DOMAIN q = 1..k
          /\ \A i \in 1..k : q[i] = s[i]
      BY <2>1, <2>2, SMT
    <2> HIDE DEF q
    <2>4. \A i \in DOMAIN q : i \in DOMAIN s /\ q[i] = s[i]
      BY <2>2, <2>3, SMT
    <2>5. StackOK(q)
      BY <2>3, <2>4 DEF StackOK
    <2>6. s[k].todo # <<>> /\ s[k + 1].node = Head(s[k].todo)
      BY <2>2 DEF StackOK
    <2>7. q # <<>> /\ q[k] = s[k]
      BY <2>2, <2>3, SMT
    <2> QED
      BY <2>2, <2>3, <2>5, <2>6, <2>7 DEF q
  \* A thread that changes its own frames
  <1>FramesChange. ASSUME FramesInv, NEW t \in Threads, NEW s, StackOK(s), frames' = [frames EXCEPT ![t] = s]
                   PROVE  FramesInv'
    <2> USE <1>FramesChange
    <2>1. s \in Seq(FrameType)
      BY DEF StackOK
    <2>2. \A u \in Threads : frames'[u] = IF u = t THEN s ELSE frames[u]
      BY DEF FramesInv
    <2>3. frames' \in [Threads -> Seq(FrameType)]
      BY <2>1 DEF FramesInv
    <2> QED
      BY <2>2, <2>3 DEF FramesInv
  <1>NoFrames. StackOK(<<>>)
    BY SMT DEF StackOK
  <1>SameCtes. ASSUME CtesInv, UNCHANGED <<compiled, ctes>> PROVE CtesInv'
    BY <1>SameCtes, SMT DEF CtesInv
  <1>StartCompile. ASSUME CompileInv, NEW t \in Threads, NEW n \in Nodes, Start(t, n) PROVE CompileInv'
    <2> USE <1>StartCompile
    <2>1. StackOK(<<Frame(n)>>)
      BY <1>NewFrame, <1>OneFrame
    <2>2. frames' = [frames EXCEPT ![t] = <<Frame(n)>>] /\ UNCHANGED <<compiled, ctes>>
      BY DEF Start
    <2> QED
      BY <2>1, <2>2, <1>FramesChange, <1>SameCtes DEF CompileInv
  <1>FinishFrames. ASSUME FramesInv, NEW t \in Threads, NEW status, Finish(t, status) PROVE FramesInv'
    <2> USE <1>FinishFrames
    <2>1. frames' = [frames EXCEPT ![t] = <<>>]
      BY DEF Finish
    <2> QED
      BY <2>1, <1>NoFrames, <1>FramesChange
  <1>PrependCteCompile. ASSUME CompileInv, NEW t \in Threads, PrependCte(t) PROVE CompileInv'
    <2> USE <1>PrependCteCompile
    <2> DEFINE s == frames[t]
               f == s[Len(s)]
               e == Head(f.todo)
    <2>1. s \in Seq(FrameType) /\ StackOK(s) /\ s # <<>> /\ f.todo # <<>> /\ Len(s) \in DOMAIN s
      BY SMT DEF CompileInv, FramesInv, PrependCte, Top
    <2>2. /\ frames' = [frames EXCEPT ![t] = IF compiled[e] # None
                                           THEN [s EXCEPT ![Len(s)] = Prepended(f, compiled[e])]
                                           ELSE Append(s, Frame(e))]
          /\ UNCHANGED <<compiled, ctes>>
      BY DEF PrependCte, Top, CompileInv, FramesInv
    <2>3. FrameOK(f) /\ e \in Ephemerals /\ e \in Nodes
      <3>1. FrameOK(f)
        BY <2>1 DEF StackOK
      <3>2. f.todo \in Seq(Ephemerals)
        BY <3>1 DEF FrameOK, FrameType
      <3> HIDE DEF f
      <3>3. Head(f.todo) \in Ephemerals
        BY <2>1, <3>2, SMT
      <3> QED
        BY <3>1, <3>3, <1>RefsFacts
    <2> HIDE DEF s, f, e
    <2>4. CASE compiled[e] # None
      <3> DEFINE g == Prepended(f, compiled[e])
      <3>1. Complete(compiled[e], Head(f.todo))
        BY <2>3, <2>4 DEF CompileInv, CtesInv, e
      <3>2. FrameOK(g) /\ g.node = f.node
        BY <2>1, <2>3, <3>1, <1>PrependedKeeps
      <3> HIDE DEF g
      <3>3. StackOK([s EXCEPT ![Len(s)] = g])
        BY <2>1, <3>2, <1>TopChanges DEF f
      <3>4. frames' = [frames EXCEPT ![t] = [s EXCEPT ![Len(s)] = g]]
        BY <2>2, <2>4 DEF g
      <3> QED
        BY <2>2, <3>3, <3>4, <1>FramesChange, <1>SameCtes DEF CompileInv
    <2>5. CASE compiled[e] = None
      <3>1. StackOK(Append(s, Frame(e)))
        BY <2>1, <2>3, <1>NewFrame, <1>PushKeeps DEF e, f
      <3>2. frames' = [frames EXCEPT ![t] = Append(s, Frame(e))]
        BY <2>2, <2>5
      <3> QED
        BY <2>2, <3>1, <3>2, <1>FramesChange, <1>SameCtes DEF CompileInv
    <2> QED
      BY <2>4, <2>5
  <1>InjectCtesCompile. ASSUME CompileInv, NEW t \in Threads, InjectCtes(t) PROVE CompileInv'
    <2> USE <1>InjectCtesCompile
    <2> DEFINE s == frames[t]
               f == s[Len(s)]
               k == Len(s) - 1
    <2>1. s \in Seq(FrameType) /\ StackOK(s) /\ s # <<>> /\ f.todo = <<>> /\ Len(s) \in DOMAIN s
      BY SMT DEF CompileInv, FramesInv, InjectCtes, Top
    <2>2. FrameOK(f) /\ f.node \in Nodes /\ Complete(f.ctes, f.node) /\ f.ctes \in Seq(Ephemerals)
      <3>1. FrameOK(f)
        BY <2>1 DEF StackOK
      <3> HIDE DEF f
      <3> QED
        BY <2>1, <3>1, <1>FrameDone DEF FrameOK, FrameType
    <2>3. IF f.node \in Ephemerals THEN compiled' = [compiled EXCEPT ![f.node] = f.ctes] /\ UNCHANGED ctes
          ELSE ctes' = [ctes EXCEPT ![f.node] = f.ctes] /\ UNCHANGED compiled
      BY DEF InjectCtes, Top
    <2>4. IF k > 0
          THEN frames' = [frames EXCEPT ![t] = [SubSeq(s, 1, k) EXCEPT ![k] = Prepended(s[k], f.ctes)]]
          ELSE Finish(t, "success") \/ frames' = [frames EXCEPT ![t] = <<>>]
      BY DEF InjectCtes, Top
    <2> HIDE DEF f
    <2>5. CtesInv'
      <3> DEFINE n == f.node
                 l == f.ctes
      <3>1. /\ CtesInv /\ n \in Nodes /\ l \in Seq(Ephemerals) /\ Complete(l, n)
            /\ IF n \in Ephemerals THEN compiled' = [compiled EXCEPT ![n] = l] /\ UNCHANGED ctes
               ELSE ctes' = [ctes EXCEPT ![n] = l] /\ UNCHANGED compiled
        BY <2>2, <2>3 DEF CompileInv
      <3> HIDE DEF n, l
      <3>2. CASE n \in Ephemerals
        BY <3>1, <3>2 DEF CtesInv
      <3>3. CASE n \notin Ephemerals
        <4>1. n \in Models
          BY <3>1, <3>3 DEF Nodes
        <4> QED
          BY <3>1, <3>3, <4>1 DEF CtesInv
      <3> QED
        BY <3>2, <3>3
    <2>6. FramesInv'
      <3>1. ASSUME k > 0,
                   frames' = [frames EXCEPT ![t] = [SubSeq(s, 1, k) EXCEPT ![k] = Prepended(s[k], f.ctes)]]
            PROVE  FramesInv'
        <4> DEFINE q == SubSeq(s, 1, k)
                   g == Prepended(s[k], f.ctes)
        <4>1. /\ StackOK(q) /\ q # <<>> /\ Len(q) = k /\ q[k] = s[k] /\ k \in DOMAIN s
              /\ s[k].todo # <<>> /\ f.node = Head(s[k].todo)
          <5> HIDE DEF k
          <5> QED
            BY <2>1, <3>1, <1>PopKeeps, SMT DEF f, k
        <4>2. FrameOK(s[k])
          BY <2>1, <4>1 DEF StackOK
        <4>3. frames' = [frames EXCEPT ![t] = [q EXCEPT ![k] = g]]
          BY <3>1
        <4> HIDE DEF q, k, s
        <4>4. FrameOK(g) /\ g.node = s[k].node
          BY <2>2, <4>1, <4>2, <1>PrependedKeeps
        <4> HIDE DEF g
        <4>5. StackOK([q EXCEPT ![k] = g])
          BY <4>1, <4>4, <1>TopChanges
        <4> QED
          BY <4>3, <4>5, <1>FramesChange DEF CompileInv
      <3>2. ASSUME Finish(t, "success") PROVE FramesInv'
        BY <3>2, <1>FinishFrames DEF CompileInv
      <3>3. ASSUME frames' = [frames EXCEPT ![t] = <<>>] PROVE FramesInv'
        BY <3>3, <1>NoFrames, <1>FramesChange DEF CompileInv
      <3> QED
        BY <2>4, <3>1, <3>2, <3>3
    <2> QED
      BY <2>5, <2>6 DEF CompileInv
  \* The actions that end the compilation of a thread
  <1>FinishCompile. ASSUME CompileInv, NEW t \in Threads, Return(t) \/ Refused(t) \/ Fault(t) PROVE CompileInv'
    <2> USE <1>FinishCompile
    <2>1. \E status : Finish(t, status)
      BY DEF Return, Refused, Fail, Fault
    <2>2. UNCHANGED <<compiled, ctes>>
      BY DEF Return, Refused, Fail, Fault
    <2> QED
      BY <2>1, <2>2, <1>FinishFrames, <1>SameCtes DEF CompileInv
  \* The actions that compile nothing
  <1>OthersCompile. ASSUME CompileInv, UNCHANGED <<frames, compiled, ctes>> PROVE CompileInv'
    <2> USE <1>OthersCompile
    <2>1. CtesInv'
      BY <1>SameCtes DEF CompileInv
    <2>2. FramesInv'
      BY DEF CompileInv, FramesInv
    <2> QED
      BY <2>1, <2>2 DEF CompileInv
  <1>InvokeCompile. ASSUME CompileInv, Invoke PROVE CompileInv'
    <2> USE <1>InvokeCompile
    <2>1. UNCHANGED frames /\ compiled' = [e \in Ephemerals |-> None] /\ ctes' = [m \in Models |-> None]
      BY DEF Invoke
    <2>2. FramesInv'
      BY <2>1 DEF CompileInv, FramesInv
    <2>3. CtesInv'
      BY <2>1 DEF CtesInv
    <2> QED
      BY <2>2, <2>3 DEF CompileInv
  <1>DieCompile. ASSUME CompileInv, Die PROVE CompileInv'
    <2> USE <1>DieCompile
    <2>1. frames' = [t \in Threads |-> <<>>] /\ UNCHANGED <<compiled, ctes>>
      BY DEF Die
    <2>2. FramesInv'
      BY <2>1, <1>NoFrames, SMT DEF FramesInv
    <2> QED
      BY <2>1, <2>2, <1>SameCtes DEF CompileInv
  <1> SUFFICES ASSUME CompileInv, [Next]_vars PROVE CompileInv'
    OBVIOUS
  <1>1. ASSUME Invoke PROVE CompileInv'
    BY <1>1, <1>InvokeCompile
  <1>2. ASSUME Die PROVE CompileInv'
    BY <1>2, <1>DieCompile
  <1>3. ASSUME BeforeRun \/ EndRun \/ Edit \/ Done \/ UNCHANGED vars PROVE CompileInv'
    <2>1. UNCHANGED <<frames, compiled, ctes>>
      BY <1>3 DEF BeforeRun, EndRun, Edit, Done, vars
    <2> QED
      BY <2>1, <1>OthersCompile
  <1>4. ASSUME NEW t \in Threads, NEW n \in Nodes, Start(t, n) PROVE CompileInv'
    BY <1>4, <1>StartCompile
  <1>5. ASSUME NEW t \in Threads, PrependCte(t) PROVE CompileInv'
    BY <1>5, <1>PrependCteCompile
  <1>6. ASSUME NEW t \in Threads, InjectCtes(t) PROVE CompileInv'
    BY <1>6, <1>InjectCtesCompile
  <1>7. ASSUME NEW t \in Threads, Return(t) \/ Refused(t) \/ Fault(t) PROVE CompileInv'
    BY <1>7, <1>FinishCompile
  <1>8. ASSUME NEW t \in Threads,
               GetRelation(t) \/ CacheStep(t) \/ Drop(t) \/ Create(t) \/ Change(t) \/ Hook(t) \/ CommitStep(t)
        PROVE  CompileInv'
    <2>1. UNCHANGED <<frames, compiled, ctes>>
      BY <1>8 DEF GetRelation, CacheStep, Drop, Create, Change, Hook, CommitStep, Statement
    <2> QED
      BY <2>1, <1>OthersCompile
  <1> QED
    BY <1>1, <1>2, <1>3, <1>4, <1>5, <1>6, <1>7, <1>8 DEF Next

LEMMA CtesAreExact == CompileInv => CtesExact
  <1> SUFFICES ASSUME CompileInv, NEW n \in Nodes,
                      NEW list, list = (IF n \in Models THEN ctes[n] ELSE compiled[n]), list # None
               PROVE  /\ Range(list) = Needs[n] /\ IsInjective(list)
                      /\ \A i, j \in DOMAIN list : list[i] \in Needs[list[j]] => i < j
    BY DEF CtesExact
  <1>1. Complete(list, n)
    BY DEF CompileInv, CtesInv, Nodes
  <1>2. Good(list) /\ Range(list) = Needs[n]
    BY <1>1 DEF Complete
  <1>3. IsInjective(list)
    BY <1>2 DEF Good
  <1> QED
    BY <1>2, <1>3, GoodCloses

\* The invariant of the compilation: _recursively_prepend_ctes keeps, of each
\* node that a thread is compiling, a list without repetitions in which every
\* model follows what it needs, and what is missing is still to be done.
THEOREM CompileInvariance == Spec => []CompileInv
  BY InitCompile, NextCompile, PTL DEF Spec

\* However many threads compile at once, the CTEs that _inject_ctes_into_sql puts
\* into a node are all ephemeral models that it needs, each once and after the
\* models that it needs itself.
THEOREM CtesExactCorrect == Spec => []CtesExact
  BY CompileInvariance, CtesAreExact, PTL
-----------------------------------------------------------------------------
(* Sequences *)

LEMMA AppendFacts ==
    ASSUME NEW s, IsSeq(s), NEW x
    PROVE  /\ IsSeq(Append(s, x)) /\ Len(s) \in Nat /\ Len(Append(s, x)) = Len(s) + 1 /\ DOMAIN s = 1..Len(s)
           /\ \A i \in 1..Len(s) : Append(s, x)[i] = s[i]
           /\ Append(s, x)[Len(s) + 1] = x
           /\ s \o <<x>> = Append(s, x) /\ s \o <<>> = s
           /\ Range(Append(s, x)) = Range(s) \cup {x}
  <1> DEFINE S == Range(s) \cup {x}
             q == Append(s, x)
  <1>1. s \in Seq(S)
    BY SMT DEF IsSeq
  <1>2. /\ q \in Seq(S) /\ Len(s) \in Nat /\ Len(q) = Len(s) + 1 /\ DOMAIN s = 1..Len(s) /\ DOMAIN q = 1..(Len(s) + 1)
        /\ \A i \in 1..Len(s) : q[i] = s[i]
        /\ q[Len(s) + 1] = x
        /\ s \o <<x>> = q /\ s \o <<>> = s
    BY <1>1, SMT
  <1> HIDE DEF q
  <1>3. Range(q) = Range(s) \cup {x}
    <2>1. \A i \in DOMAIN q : (i \in DOMAIN s /\ q[i] = s[i]) \/ i = Len(s) + 1
      BY <1>2, SMT
    <2>2. \A i \in DOMAIN s : i \in DOMAIN q /\ q[i] = s[i]
      BY <1>2, SMT
    <2>3. Len(s) + 1 \in DOMAIN q
      BY <1>2, SMT
    <2>4. q[Len(s) + 1] = x
      BY <1>2
    <2> QED
      BY <2>1, <2>2, <2>3, <2>4 DEF Range
  <1>4. IsSeq(q)
    BY <1>2, <1>3 DEF IsSeq
  <1> QED
    BY <1>2, <1>3, <1>4 DEF q

LEMMA TailFacts ==
    ASSUME NEW s, IsSeq(s), s # <<>>
    PROVE  /\ IsSeq(Tail(s)) /\ Len(s) \in Nat /\ Len(Tail(s)) = Len(s) - 1 /\ Len(s) >= 1
           /\ Head(s) = s[1] /\ \A i \in 1..(Len(s) - 1) : Tail(s)[i] = s[i + 1]
  <1> DEFINE q == Tail(s)
             S == Range(s)
  <1>1. s \in Seq(S)
    BY DEF IsSeq
  <1>2. /\ q \in Seq(S) /\ Len(s) \in Nat /\ Len(q) = Len(s) - 1 /\ Len(s) >= 1 /\ DOMAIN q = 1..Len(q)
        /\ Head(s) = s[1] /\ \A i \in 1..(Len(s) - 1) : q[i] = s[i + 1]
    BY <1>1, SMT
  <1> HIDE DEF q, S
  <1>3. IsSeq(q)
    <2>1. q \in [1..Len(q) -> Range(q)] /\ Len(q) \in Nat
      BY <1>2, SMT DEF Range
    <2> QED
      BY <2>1, SMT DEF IsSeq
  <1> QED
    BY <1>2, <1>3 DEF q

-----------------------------------------------------------------------------
(* Operations on a database *)

\* e is d after the operation op.
After(d, op, e) ==
    /\ IsDb(e)
    /\ \A i \in Touched(op) : (i \in DOMAIN e <=> op.op = "set") /\ (i \in DOMAIN e => i = op.id /\ e[i] = op.object)
    /\ \A i : i \notin Touched(op) => (i \in DOMAIN e <=> i \in DOMAIN d) /\ (i \in DOMAIN d => e[i] = d[i])

LEMMA ApplyFacts ==
    ASSUME NEW d, IsDb(d), NEW op, IsOp(op) PROVE After(d, op, Apply(d, op))
  <1>1. CASE op.op = "drop"
    <2>1. Apply(d, op) = [i \in DOMAIN d \cap (DOMAIN d \ op.ids) |-> d[i]]
      BY <1>1 DEF Apply, Restrict
    <2>2. DOMAIN d \cap (DOMAIN d \ op.ids) = DOMAIN d \ op.ids
      OBVIOUS
    <2>3. DOMAIN Apply(d, op) = DOMAIN d \ op.ids /\ \A i \in DOMAIN d \ op.ids : Apply(d, op)[i] = d[i]
      BY <2>1, <2>2
    <2> QED
      BY <1>1, <2>1, <2>3 DEF After, IsDb, Touched
  <1>2. CASE op.op # "drop"
    <2>1. Apply(d, op) = [i \in DOMAIN d \cup {op.id} |-> IF i = op.id THEN op.object ELSE d[i]]
      BY <1>2 DEF Apply
    <2>2. IsObject(op.object) /\ op.op = "set"
      BY <1>2 DEF IsOp
    <2> QED
      BY <1>2, <2>1, <2>2 DEF After, IsDb, Touched
  <1> QED
    BY <1>1, <1>2

\* f has the databases after each of the operations.
IsApply(f, d, ops) ==
    /\ f = [n \in 0..Len(ops) |-> IF n = 0 THEN d ELSE Apply(f[n - 1], ops[n])]
    /\ \A n \in 0..Len(ops) : IsDb(f[n])

LEMMA AppliedIs ==
    ASSUME NEW d, IsDb(d), NEW ops, IsOps(ops)
    PROVE  \E f : IsApply(f, d, ops) /\ Applied(d, ops) = f[Len(ops)]
  <1> DEFINE N == Len(ops)
             D == DOMAIN d \cup {ops[n].id : n \in 1..N}
             O == {d[i] : i \in DOMAIN d} \cup {ops[n].object : n \in {k \in 1..N : ops[k].op = "set"}}
             S == {e \in UNION {[X -> O] : X \in SUBSET D} : IsDb(e)}
             step == [x \in S \X (1..N) |-> Apply(x[1], ops[x[2]])]
             upto == CHOOSE f : f = [n \in 0..N |-> IF n = 0 THEN d ELSE Apply(f[n - 1], ops[n])]
  <1>1. N \in Nat /\ \A n \in 1..N : IsOp(ops[n])
    BY AppendFacts DEF IsOps
  <1>2. d \in S
    <2>1. d \in [DOMAIN d -> O]
      BY DEF IsDb
    <2>2. DOMAIN d \in SUBSET D
      OBVIOUS
    <2> HIDE DEF D, O
    <2> QED
      BY <2>1, <2>2
  <1>3. ASSUME NEW e \in S, NEW n \in 1..N PROVE Apply(e, ops[n]) \in S
    <2> DEFINE g == Apply(e, ops[n])
    <2>1. IsDb(e) /\ DOMAIN e \subseteq D /\ \A i \in DOMAIN e : e[i] \in O
      <3> HIDE DEF D, O
      <3> QED
        BY <1>3
    <2> DEFINE op == ops[n]
    <2>2. IsOp(op) /\ After(e, op, g)
      BY <1>1, <2>1, ApplyFacts
    <2>a. (op.op = "set" => op.object \in O) /\ op.id \in D
      OBVIOUS
    <2> HIDE DEF g, op
    <2>3. DOMAIN g \subseteq D
      <3> HIDE DEF D
      <3> QED
        BY <2>1, <2>2, <2>a DEF After
    <2>4. ASSUME NEW i \in DOMAIN g PROVE g[i] \in O
      <3> HIDE DEF O
      <3> QED
        BY <2>1, <2>2, <2>a, <2>4 DEF After
    <2> HIDE DEF D, O
    <2>5. g \in [DOMAIN g -> O]
      BY <2>2, <2>4 DEF IsDb, After
    <2>6. g \in S
      BY <2>2, <2>3, <2>5 DEF After
    <2> QED
      BY <2>6 DEF g
  <1> HIDE DEF S
  <1>4. step \in [S \X (1..N) -> S]
    BY <1>3
  <1>5. PICK f : IsFold(f, N, S, d, step)
    <2> HIDE DEF step, N
    <2> QED
      BY <1>1, <1>2, <1>4, FoldExists
  <1>6. f = [n \in 0..N |-> IF n = 0 THEN d ELSE Apply(f[n - 1], ops[n])]
    <2>1. ASSUME NEW n \in 1..N PROVE f[n] = Apply(f[n - 1], ops[n])
      <3>1. n - 1 \in 0..N /\ f[n - 1] \in S
        BY <1>1, <1>5, SMT DEF IsFold
      <3>2. step[<<f[n - 1], n>>] = Apply(f[n - 1], ops[n])
        BY <3>1
      <3>3. f[n] = step[<<f[n - 1], n>>]
        <4> HIDE DEF step
        <4> QED
          BY <1>5 DEF IsFold
      <3> QED
        BY <3>2, <3>3
    <2> HIDE DEF step
    <2> QED
      BY <1>1, <1>5, <2>1, SMT DEF IsFold
  <1>7. upto = [n \in 0..N |-> IF n = 0 THEN d ELSE Apply(upto[n - 1], ops[n])]
    BY <1>6
  <1>8. Applied(d, ops) = upto[N]
    BY DEF Applied
  <1> HIDE DEF upto, step
  <1>9. \A n \in 0..N : IsDb(upto[n])
    <2> DEFINE T == {n \in 0..N : IsDb(upto[n])}
    <2>1. 0 \in T
      BY <1>1, <1>7, SMT
    <2>2. ASSUME NEW n \in 1..N, n - 1 \in T PROVE n \in T
      <3>1. n \in 0..N /\ n # 0
        BY SMT
      <3>2. upto[n] = Apply(upto[n - 1], ops[n])
        BY <1>7, <3>1
      <3>3. IsDb(upto[n - 1]) /\ IsOp(ops[n])
        BY <1>1, <2>2
      <3>4. After(upto[n - 1], ops[n], upto[n])
        BY <3>2, <3>3, ApplyFacts
      <3> QED
        BY <3>1, <3>4 DEF After
    <2>3. 0..N \subseteq T
      <3> HIDE DEF T
      <3> QED
        BY <1>1, <2>1, <2>2, Induction
    <2> QED
      BY <2>3
  <1>10. IsApply(upto, d, ops)
    BY <1>7, <1>9 DEF IsApply
  <1> QED
    BY <1>8, <1>10

LEMMA AppliedNone ==
    ASSUME NEW d, IsDb(d) PROVE Applied(d, <<>>) = d
  <1>1. IsOps(<<>>)
    BY SMT DEF IsOps, IsSeq, Range
  <1>2. PICK f : IsApply(f, d, <<>>) /\ Applied(d, <<>>) = f[Len(<<>>)]
    BY <1>1, AppliedIs
  <1> QED
    BY <1>2, SMT DEF IsApply

LEMMA AppliedAppend ==
    ASSUME NEW d, IsDb(d), NEW ops, IsOps(ops), NEW op, IsOp(op)
    PROVE  /\ IsOps(Append(ops, op)) /\ Applied(d, Append(ops, op)) = Apply(Applied(d, ops), op)
           /\ IsDb(Applied(d, ops)) /\ Mod(Append(ops, op)) = Mod(ops) \cup Touched(op)
  <1> DEFINE N == Len(ops)
             q == Append(ops, op)
  <1>1. /\ IsSeq(q) /\ N \in Nat /\ Len(q) = N + 1 /\ Range(q) = Range(ops) \cup {op} /\ q[N + 1] = op
        /\ \A n \in 1..N : q[n] = ops[n]
    BY AppendFacts DEF IsOps
  <1>2. IsOps(q)
    <2>1. DOMAIN q = 1..(N + 1) /\ DOMAIN ops = 1..N
      BY <1>1, SMT DEF IsSeq, IsOps
    <2> HIDE DEF q
    <2> QED
      BY <1>1, <2>1, SMT DEF IsOps
  <1> HIDE DEF q
  <1>3. PICK f : IsApply(f, d, ops) /\ Applied(d, ops) = f[N]
    BY AppliedIs
  <1>4. PICK g : IsApply(g, d, q) /\ Applied(d, q) = g[N + 1]
    BY <1>1, <1>2, AppliedIs
  <1> DEFINE T == {n \in 0..N : f[n] = g[n]}
  <1>5. 0 \in T
    BY <1>1, <1>3, <1>4, SMT DEF IsApply
  <1>6. ASSUME NEW n \in 1..N, n - 1 \in T PROVE n \in T
    <2>1. n \in 0..N /\ n \in 0..(N + 1) /\ n # 0 /\ q[n] = ops[n]
      BY <1>1, SMT
    <2>2. f[n] = Apply(f[n - 1], ops[n]) /\ g[n] = Apply(g[n - 1], q[n])
      BY <1>1, <1>3, <1>4, <2>1 DEF IsApply
    <2>3. f[n - 1] = g[n - 1]
      BY <1>6
    <2> QED
      BY <2>1, <2>2, <2>3
  <1>7. f[N] = g[N]
    <2> HIDE DEF T
    <2>1. 0..N \subseteq T
      BY <1>1, <1>5, <1>6, Induction
    <2>2. N \in T
      BY <1>1, <2>1, SMT
    <2> QED
      BY <2>2 DEF T
  <1>8. g[N + 1] = Apply(g[N], op)
    <2>1. N + 1 \in 0..(N + 1) /\ N + 1 # 0 /\ (N + 1) - 1 = N
      BY <1>1, SMT
    <2> QED
      BY <1>1, <1>4, <2>1 DEF IsApply
  <1>9. IsDb(f[N])
    BY <1>1, <1>3, SMT DEF IsApply
  <1>10. Mod(q) = Mod(ops) \cup Touched(op)
    BY <1>1 DEF Mod
  <1> QED
    BY <1>2, <1>3, <1>4, <1>7, <1>8, <1>9, <1>10 DEF q

\* e is d but for the objects of M; d and e are alike in M; the objects of e are
\* those of d and those that operations have made.
Same(d, e, M) == \A i : i \notin M => (i \in DOMAIN e <=> i \in DOMAIN d) /\ (i \in DOMAIN d => e[i] = d[i])
Alike(d, e, M) == \A i \in M : (i \in DOMAIN d <=> i \in DOMAIN e) /\ (i \in DOMAIN d => d[i] = e[i])
From(d, e, ops) ==
    \A i \in DOMAIN e : \/ i \in DOMAIN d /\ e[i] = d[i]
                        \/ \E op \in Range(ops) : op.op = "set" /\ i = op.id /\ e[i] = op.object

LEMMA AfterFacts ==
    ASSUME NEW x, NEW y, NEW op, IsOp(op), After(x, op, y)
    PROVE  /\ \A d, M : Same(d, x, M) => Same(d, y, M \cup Touched(op))
           /\ \A d, ops : From(d, x, ops) /\ op \in Range(ops) => From(d, y, ops)
           /\ \A e, z, M : Alike(x, e, M) /\ After(e, op, z) => Alike(y, z, M \cup Touched(op))
  <1>1. ASSUME NEW d, NEW M, Same(d, x, M) PROVE Same(d, y, M \cup Touched(op))
    BY <1>1 DEF Same, After
  <1>2. ASSUME NEW d, NEW ops, From(d, x, ops), op \in Range(ops) PROVE From(d, y, ops)
    <2> SUFFICES ASSUME NEW i \in DOMAIN y
                 PROVE  \/ i \in DOMAIN d /\ y[i] = d[i]
                        \/ \E o \in Range(ops) : o.op = "set" /\ i = o.id /\ y[i] = o.object
      BY DEF From
    <2>1. CASE i \in Touched(op)
      <3>1. op.op = "set" /\ i = op.id /\ y[i] = op.object
        BY <2>1 DEF After
      <3> QED
        BY <1>2, <3>1
    <2>2. CASE i \notin Touched(op)
      <3>1. i \in DOMAIN x /\ y[i] = x[i]
        BY <2>2 DEF After
      <3> QED
        BY <1>2, <3>1 DEF From
    <2> QED
      BY <2>1, <2>2
  <1>3. ASSUME NEW e, NEW z, NEW M, Alike(x, e, M), After(e, op, z) PROVE Alike(y, z, M \cup Touched(op))
    BY <1>3 DEF Alike, After
  <1> QED
    BY <1>1, <1>2, <1>3

\* What operations leave alone is as it was, and the rest does not depend on it.
LEMMA AppliedFacts ==
    ASSUME NEW d, IsDb(d), NEW ops, IsOps(ops)
    PROVE  /\ IsDb(Applied(d, ops)) /\ Same(d, Applied(d, ops), Mod(ops)) /\ From(d, Applied(d, ops), ops)
           /\ \A e : IsDb(e) => Alike(Applied(d, ops), Applied(e, ops), Mod(ops))
  <1> DEFINE N == Len(ops)
             first(n) == UNION {Touched(ops[k]) : k \in 1..n}
  <1>1. N \in Nat /\ DOMAIN ops = 1..N /\ \A n \in 1..N : IsOp(ops[n]) /\ ops[n] \in Range(ops)
    BY SMT DEF IsOps, IsSeq, Range
  <1>2. Mod(ops) = first(N)
    BY <1>1 DEF Mod, Range
  <1>3. ASSUME NEW n \in 1..N PROVE first(n) = first(n - 1) \cup Touched(ops[n])
    <2> DEFINE A == 1..(n - 1)
    <2>1. 1..n = A \cup {n}
      BY <1>1, SMT
    <2> HIDE DEF A
    <2>2. first(n) = (UNION {Touched(ops[k]) : k \in A}) \cup Touched(ops[n])
      BY <2>1
    <2> QED
      BY <2>2 DEF A
  <1>4. first(0) = {}
    BY SMT
  <1>5. ASSUME NEW e, IsDb(e), NEW f, IsApply(f, e, ops), NEW n \in 1..N
        PROVE  After(f[n - 1], ops[n], f[n]) /\ n \in 0..N
    <2>1. n \in 0..N /\ n - 1 \in 0..N /\ n # 0
      BY <1>1, SMT
    <2>2. IsDb(f[n - 1]) /\ f[n] = Apply(f[n - 1], ops[n]) /\ IsOp(ops[n])
      BY <1>1, <1>5, <2>1 DEF IsApply
    <2> QED
      BY <2>1, <2>2, ApplyFacts
  <1>6. PICK f : IsApply(f, d, ops) /\ Applied(d, ops) = f[N]
    BY AppliedIs
  <1>7. f[0] = d /\ IsDb(f[N])
    BY <1>1, <1>6, SMT DEF IsApply
  <1> HIDE DEF first
  <1>8. Same(d, f[N], first(N)) /\ From(d, f[N], ops)
    <2> DEFINE T == {n \in 0..N : Same(d, f[n], first(n)) /\ From(d, f[n], ops)}
    <2>1. 0 \in T
      BY <1>1, <1>7, SMT DEF Same, From
    <2>2. ASSUME NEW n \in 1..N, n - 1 \in T PROVE n \in T
      <3>1. Same(d, f[n - 1], first(n - 1)) /\ From(d, f[n - 1], ops)
        BY <2>2
      <3>2. After(f[n - 1], ops[n], f[n]) /\ n \in 0..N /\ IsOp(ops[n]) /\ ops[n] \in Range(ops)
        BY <1>1, <1>5, <1>6
      <3>3. Same(d, f[n], first(n - 1) \cup Touched(ops[n])) /\ From(d, f[n], ops)
        BY <3>1, <3>2, AfterFacts
      <3> QED
        BY <1>3, <3>2, <3>3
    <2>3. N \in T
      <3> HIDE DEF T
      <3>1. 0..N \subseteq T
        BY <1>1, <2>1, <2>2, Induction
      <3> QED
        BY <1>1, <3>1, SMT
    <2> QED
      BY <2>3
  <1>9. ASSUME NEW e, IsDb(e) PROVE Alike(f[N], Applied(e, ops), first(N))
    <2>1. PICK g : IsApply(g, e, ops) /\ Applied(e, ops) = g[N]
      BY <1>9, AppliedIs
    <2> DEFINE T == {n \in 0..N : Alike(f[n], g[n], first(n))}
    <2>2. 0 \in T
      BY <1>1, <1>4, SMT DEF Alike, first
    <2>3. ASSUME NEW n \in 1..N, n - 1 \in T PROVE n \in T
      <3>1. Alike(f[n - 1], g[n - 1], first(n - 1))
        BY <2>3
      <3>2. After(f[n - 1], ops[n], f[n]) /\ After(g[n - 1], ops[n], g[n]) /\ n \in 0..N /\ IsOp(ops[n])
        BY <1>1, <1>5, <1>6, <1>9, <2>1
      <3>3. Alike(f[n], g[n], first(n - 1) \cup Touched(ops[n]))
        BY <3>1, <3>2, AfterFacts
      <3> QED
        BY <1>3, <3>2, <3>3
    <2>4. N \in T
      <3> HIDE DEF T
      <3>1. 0..N \subseteq T
        BY <1>1, <2>2, <2>3, Induction
      <3> QED
        BY <1>1, <3>1, SMT
    <2> QED
      BY <2>1, <2>4
  <1> QED
    BY <1>2, <1>6, <1>7, <1>8, <1>9

LEMMA CascadeFacts ==
    ASSUME NEW d, NEW ids, ids \subseteq DOMAIN d
    PROVE  /\ ids \subseteq Cascade(d, ids) /\ Cascade(d, ids) \subseteq DOMAIN d
           /\ \A i \in Cascade(d, ids) \ ids : \E u \in d[i].uses : u \in Cascade(d, ids)
  <1> DEFINE Closed1(s) == s \in SUBSET DOMAIN d /\ ids \subseteq s /\ \A i \in DOMAIN d : d[i].uses \cap s # {} => i \in s
             all == Cascade(d, ids)
  <1>1. all = {i \in DOMAIN d : \A s : Closed1(s) => i \in s}
    BY DEF Cascade
  <1> HIDE DEF all
  <1>2. ids \subseteq all /\ all \subseteq DOMAIN d
    BY <1>1
  <1>3. \A i \in DOMAIN d : d[i].uses \cap all # {} => i \in all
    BY <1>1
  <1>4. ASSUME NEW i \in all \ ids, d[i].uses \cap all = {} PROVE FALSE
    <2> DEFINE s == all \ {i}
    <2>1. Closed1(s)
      BY <1>2, <1>3, <1>4
    <2> QED
      BY <1>1, <1>4, <2>1
  <1> QED
    BY <1>2, <1>4 DEF all

\* An operation that a thread that runs n may add to ops
Legal(d, ops, n, op) ==
    \/ op.op = "drop" /\ \E x \in Own(n) : op.ids = Cascade(Applied(d, ops), Named(Applied(d, ops), x))
    \/ /\ op.op = "set" /\ op.object.name \in Own(n)
       /\ \/ op.id \notin DOMAIN d \cup Mod(ops)
          \/ op.id \in DOMAIN Applied(d, ops) /\ Applied(d, ops)[op.id].name \in Own(n)

LEMMA LocalNone ==
    ASSUME NEW d, NEW n PROVE Local(d, <<>>, n) /\ Mod(<<>>) = {}
  BY SMT DEF Local, Mod, Range

LEMMA LocalAppend ==
    ASSUME NEW d, IsDb(d), NEW ops, IsOps(ops), NEW n, Local(d, ops, n),
           NEW op, IsOp(op), Legal(d, ops, n, op)
    PROVE  Local(d, Append(ops, op), n)
  <1> DEFINE e == Applied(d, ops)
             f == Applied(d, Append(ops, op))
             M == Mod(ops)
             M2 == Mod(Append(ops, op))
  <1>1. IsDb(e) /\ After(e, op, f) /\ M2 = M \cup Touched(op)
    <2>1. f = Apply(e, op) /\ IsDb(e) /\ M2 = M \cup Touched(op)
      BY AppliedAppend, SMT
    <2> HIDE DEF e, f
    <2> QED
      BY <2>1, ApplyFacts
  <1>2. Same(d, e, M)
    BY AppliedFacts
  <1>3. /\ \A i \in M \cap DOMAIN d : d[i].name \in Own(n) \/ (i \notin DOMAIN e /\ \E u \in d[i].uses : u \in M \ DOMAIN e)
        /\ \A i \in M \cap DOMAIN e : e[i].name \in Own(n)
    BY DEF Local
  <1>4. \/ op.op = "drop" /\ \E x \in Own(n) : op.ids = Cascade(e, Named(e, x))
        \/ /\ op.op = "set" /\ op.object.name \in Own(n)
           /\ (op.id \notin DOMAIN d \cup M \/ (op.id \in DOMAIN e /\ e[op.id].name \in Own(n)))
    BY DEF Legal
  <1> HIDE DEF e, f, M, M2
  <1>5. ASSUME NEW i \in M, i \notin DOMAIN e PROVE i \notin DOMAIN f
    BY <1>1, <1>4, <1>5 DEF After
  <1>6. ASSUME NEW i \in M2 \cap DOMAIN d
        PROVE  d[i].name \in Own(n) \/ (i \notin DOMAIN f /\ \E u \in d[i].uses : u \in M2 \ DOMAIN f)
    <2>1. CASE i \in M
      BY <1>1, <1>3, <1>5, <1>6, <2>1
    <2>2. CASE i \notin M
      <3>1. i \in Touched(op) /\ i \in DOMAIN e /\ e[i] = d[i]
        BY <1>1, <1>2, <1>6, <2>2 DEF Same
      <3>2. CASE op.op = "drop"
        <4>1. PICK x \in Own(n) : op.ids = Cascade(e, Named(e, x))
          BY <1>4, <3>2
        <4>2. Named(e, x) \subseteq DOMAIN e /\ \A j \in Named(e, x) : e[j].name = x
          BY DEF Named
        <4>3. i \in op.ids /\ Touched(op) = op.ids
          BY <3>1, <3>2 DEF Touched
        <4>4. i \in Named(e, x) \/ \E u \in e[i].uses : u \in op.ids
          BY <4>1, <4>2, <4>3, CascadeFacts, SMT
        <4>5. \A u \in op.ids : u \notin DOMAIN f
          BY <1>1, <3>2, <4>3 DEF After
        <4> QED
          BY <1>1, <3>1, <4>2, <4>3, <4>4, <4>5
      <3>3. CASE op.op = "set"
        <4>1. i = op.id
          BY <3>1, <3>3 DEF Touched
        <4> QED
          BY <1>4, <1>6, <3>1, <3>3, <4>1
      <3> QED
        BY <1>4, <3>2, <3>3
    <2> QED
      BY <2>1, <2>2
  <1>7. ASSUME NEW i \in M2 \cap DOMAIN f PROVE f[i].name \in Own(n)
    <2>1. CASE i \in Touched(op)
      BY <1>1, <1>4, <1>7, <2>1 DEF After
    <2>2. CASE i \notin Touched(op)
      BY <1>1, <1>3, <1>7, <2>2 DEF After
    <2> QED
      BY <2>1, <2>2
  <1> QED
    BY <1>6, <1>7 DEF Local, f, M2

\* What is by a name that n owns, after the operations of a thread that runs m
LEMMA LocalOwn ==
    ASSUME NEW d, IsDb(d), NEW ops, IsOps(ops), NEW n, NEW m, n # m, Local(d, ops, n)
    PROVE  \A i \in DOMAIN Applied(d, ops) :
             Applied(d, ops)[i].name \in Own(m) => i \notin Mod(ops) /\ i \in DOMAIN d /\ Applied(d, ops)[i] = d[i]
  <1> DEFINE e == Applied(d, ops)
  <1>1. Own(n) \cap Own(m) = {}
    BY SMT DEF Own, Target, Tmp, Backup
  <1>2. Same(d, e, Mod(ops)) /\ \A i \in Mod(ops) \cap DOMAIN e : e[i].name \in Own(n)
    BY AppliedFacts DEF Local
  <1> HIDE DEF e
  <1>3. \A i \in DOMAIN e : e[i].name \in Own(m) => i \notin Mod(ops) /\ i \in DOMAIN d /\ e[i] = d[i]
    BY <1>1, <1>2 DEF Same
  <1> QED
    BY <1>3 DEF e

\* A thread that runs n changes the committed database by ops: another thread,
\* which runs m and has q pending, does not see it in what is its own.
LEMMA Foreign ==
    ASSUME NEW d, IsDb(d), NEW ops, IsOps(ops), NEW n, Local(d, ops, n), NEW e, e = Applied(d, ops),
           NEW q, IsOps(q), NEW m, n # m, Local(d, q, m), Mod(ops) \cap Mod(q) = {}
    PROVE  /\ IsDb(e) /\ Local(e, q, m)
           /\ \A i \in DOMAIN Applied(e, q) :
                Applied(e, q)[i].name \in Own(m) => i \in DOMAIN Applied(d, q) /\ Applied(e, q)[i] = Applied(d, q)[i]
           /\ \A tgt : TargetIs(d, q, m, tgt) => TargetIs(e, q, m, tgt)
  <1> DEFINE s == Applied(d, q)
             r == Applied(e, q)
             P == Mod(q)
             M == Mod(ops)
  <1>1. IsDb(e) /\ Same(d, e, M)
    BY AppliedFacts
  <1>2. Same(d, s, P) /\ Same(e, r, P) /\ Alike(s, r, P)
    BY <1>1, AppliedFacts
  <1>3. /\ \A i \in P \cap DOMAIN d : d[i].name \in Own(m) \/ (i \notin DOMAIN s /\ \E u \in d[i].uses : u \in P \ DOMAIN s)
        /\ \A i \in P \cap DOMAIN s : s[i].name \in Own(m)
    BY DEF Local
  <1>4. M \cap P = {} /\ \A i \in DOMAIN e : e[i].name \in Own(m) => i \notin M /\ i \in DOMAIN d /\ e[i] = d[i]
    BY LocalOwn, SMT
  <1>5. Target(m) \in Own(m)
    BY DEF Own
  <1> HIDE DEF s, r, P, M
  <1>6. \A i \in P : (i \in DOMAIN e <=> i \in DOMAIN d) /\ (i \in DOMAIN d => e[i] = d[i])
    BY <1>1, <1>4 DEF Same
  <1>7. /\ \A i \in P \cap DOMAIN e : e[i].name \in Own(m) \/ (i \notin DOMAIN r /\ \E u \in e[i].uses : u \in P \ DOMAIN r)
        /\ \A i \in P \cap DOMAIN r : r[i].name \in Own(m)
    BY <1>2, <1>3, <1>6 DEF Alike
  <1>8. ASSUME NEW i \in DOMAIN r, r[i].name \in Own(m) PROVE i \in DOMAIN s /\ r[i] = s[i]
    <2>1. CASE i \in P
      BY <1>2, <1>8, <2>1 DEF Alike
    <2>2. CASE i \notin P
      <3>1. i \in DOMAIN e /\ r[i] = e[i]
        BY <1>2, <1>8, <2>2 DEF Same
      <3>2. i \in DOMAIN d /\ e[i] = d[i]
        BY <1>4, <1>8, <3>1
      <3> QED
        BY <1>2, <2>2, <3>1, <3>2 DEF Same
    <2> QED
      BY <2>1, <2>2
  <1>9. ASSUME NEW tgt, TargetIs(d, q, m, tgt) PROVE TargetIs(e, q, m, tgt)
    <2>1. /\ \A i \in DOMAIN s : s[i].name \in Own(m) => s[i].rows # 0 \/ (s[i].name = Target(m) /\ tgt = "empty")
          /\ tgt = "same" =>
               /\ \A i \in Named(d, Target(m)) : i \in Named(s, Target(m)) \/ \E u \in d[i].uses : u \in P \ DOMAIN s
               /\ Named(s, Target(m)) \cap P = {}
          /\ tgt \in {"empty", "built"} => Named(s, Target(m)) \cap P # {}
      BY <1>9 DEF TargetIs, s, P
    <2>2. \A i \in DOMAIN r : r[i].name \in Own(m) => r[i].rows # 0 \/ (r[i].name = Target(m) /\ tgt = "empty")
      BY <1>8, <2>1
    <2>3. Named(r, Target(m)) \subseteq Named(s, Target(m))
      BY <1>5, <1>8 DEF Named
    <2>4. ASSUME tgt = "same", NEW i \in Named(e, Target(m))
          PROVE  i \in Named(r, Target(m)) \/ \E u \in e[i].uses : u \in P \ DOMAIN r
      <3>1. i \in DOMAIN e /\ e[i].name = Target(m) /\ i \in DOMAIN d /\ e[i] = d[i]
        BY <1>4, <1>5, <2>4 DEF Named
      <3>2. i \in Named(s, Target(m)) \/ \E u \in d[i].uses : u \in P \ DOMAIN s
        BY <2>1, <2>4, <3>1 DEF Named
      <3>3. CASE \E u \in d[i].uses : u \in P \ DOMAIN s
        BY <1>2, <3>1, <3>3 DEF Alike
      <3>4. CASE i \in Named(s, Target(m))
        BY <1>2, <3>1, <3>4 DEF Alike, Same, Named
      <3> QED
        BY <3>2, <3>3, <3>4
    <2>5. ASSUME NEW i \in Named(s, Target(m)) \cap P PROVE i \in Named(r, Target(m)) \cap P
      BY <1>2, <2>5 DEF Alike, Named
    <2> QED
      BY <2>1, <2>2, <2>3, <2>4, <2>5 DEF TargetIs, r, P
  <1> QED
    BY <1>1, <1>7, <1>8, <1>9 DEF Local, s, r, P
-----------------------------------------------------------------------------
(* Operations on what a node owns *)

\* The next database after the pending operations and op.
LEMMA NextSeen ==
    ASSUME NEW d, IsDb(d), NEW ops, IsOps(ops), NEW op, IsOp(op)
    PROVE  /\ IsOps(Append(ops, op)) /\ IsDb(Applied(d, ops)) /\ Same(d, Applied(d, ops), Mod(ops))
           /\ After(Applied(d, ops), op, Applied(d, Append(ops, op)))
           /\ Mod(Append(ops, op)) = Mod(ops) \cup Touched(op)
  <1> DEFINE e == Applied(d, ops)
             f == Applied(d, Append(ops, op))
  <1>1. IsOps(Append(ops, op)) /\ f = Apply(e, op) /\ IsDb(e) /\ Mod(Append(ops, op)) = Mod(ops) \cup Touched(op)
    BY AppliedAppend, SMT
  <1>2. Same(d, e, Mod(ops))
    BY AppliedFacts
  <1> HIDE DEF e, f
  <1>3. After(e, op, f)
    BY <1>1, ApplyFacts
  <1> QED
    BY <1>1, <1>2, <1>3 DEF e, f

LEMMA OwnFacts ==
    ASSUME NEW n
    PROVE  /\ Own(n) = {Target(n), Tmp(n), Backup(n)}
           /\ Target(n) # Tmp(n) /\ Target(n) # Backup(n) /\ Tmp(n) # Backup(n)
  BY DEF Own, Target, Tmp, Backup

LEMMA DropPending ==
    ASSUME NEW d, IsDb(d), NEW ops, IsOps(ops), NEW n, NEW x \in Own(n), NEW op, IsOp(op),
           op.op = "drop", op.ids = Cascade(Applied(d, ops), Named(Applied(d, ops), x))
    PROVE  /\ \A y : Named(Applied(d, Append(ops, op)), y) \subseteq Named(Applied(d, ops), y)
           /\ Named(Applied(d, Append(ops, op)), x) = {}
           /\ TargetIs(d, ops, n, "same") =>
                /\ TargetIs(d, Append(ops, op), n, "gone")
                /\ x # Target(n) => TargetIs(d, Append(ops, op), n, "same")
  <1> DEFINE e == Applied(d, ops)
             f == Applied(d, Append(ops, op))
             M == Mod(ops)
             M2 == Mod(Append(ops, op))
             T == Target(n)
  <1>1. Same(d, e, M) /\ After(e, op, f) /\ M2 = M \cup Touched(op)
    BY NextSeen
  <1>2. Touched(op) = op.ids
    BY DEF Touched
  <1>3. Named(e, x) \subseteq op.ids /\ op.ids \subseteq DOMAIN e
        /\ \A i \in op.ids : i \in Named(e, x) \/ \E u \in e[i].uses : u \in op.ids
    <2>1. Named(e, x) \subseteq DOMAIN e
      BY DEF Named
    <2> HIDE DEF e
    <2>2. op.ids = Cascade(e, Named(e, x))
      BY DEF e
    <2> QED
      BY <2>1, <2>2, CascadeFacts, SMT
  <1> HIDE DEF e, f, M, M2
  <1>4. \A i \in DOMAIN f : i \in DOMAIN e /\ f[i] = e[i] /\ i \notin op.ids
    BY <1>1, <1>2 DEF After
  <1>5. \A y : Named(f, y) \subseteq Named(e, y)
    BY <1>4 DEF Named
  <1>6. Named(f, x) = {}
    BY <1>3, <1>4 DEF Named
  <1>7. ASSUME TargetIs(d, ops, n, "same")
        PROVE  /\ TargetIs(d, Append(ops, op), n, "gone")
               /\ x # T => TargetIs(d, Append(ops, op), n, "same")
    <2>1. /\ \A i \in DOMAIN e : e[i].name \in Own(n) => e[i].rows # 0
          /\ \A i \in Named(d, T) : i \in Named(e, T) \/ \E u \in d[i].uses : u \in M \ DOMAIN e
          /\ Named(e, T) \cap M = {}
      BY <1>7 DEF TargetIs, e, M
    <2>2. \A i \in DOMAIN f : f[i].name \in Own(n) => f[i].rows # 0
      BY <1>4, <2>1
    <2>3. Named(f, T) \cap M2 = {}
      BY <1>1, <1>2, <1>4, <1>5, <2>1, SMT DEF Named
    <2>4. ASSUME x # T, NEW i \in Named(d, T)
          PROVE  i \in Named(f, T) \/ \E u \in d[i].uses : u \in M2 \ DOMAIN f
      <3>1. CASE i \in Named(e, T) /\ i \notin op.ids
        <4>1. i \in DOMAIN e /\ e[i].name = T
          BY <3>1 DEF Named
        <4>2. i \in DOMAIN f /\ f[i] = e[i]
          BY <1>1, <1>2, <3>1, <4>1 DEF After
        <4> QED
          BY <4>1, <4>2 DEF Named
      <3>2. CASE i \in Named(e, T) /\ i \in op.ids
        <4>1. i \notin Named(e, x) /\ i \notin M /\ i \in DOMAIN e
          BY <2>1, <2>4, <3>2 DEF Named
        <4>2. e[i] = d[i]
          BY <1>1, <4>1 DEF Same
        <4>3. PICK u \in d[i].uses : u \in op.ids
          BY <1>3, <3>2, <4>1, <4>2
        <4> QED
          BY <1>1, <1>2, <1>4, <4>3
      <3>3. CASE \E u \in d[i].uses : u \in M \ DOMAIN e
        BY <1>1, <1>4, <3>3
      <3> QED
        BY <2>1, <3>1, <3>2, <3>3
    <2> QED
      BY <2>2, <2>3, <2>4 DEF TargetIs, f, M2
  <1> QED
    BY <1>5, <1>6, <1>7 DEF e, f

LEMMA SetPending ==
    ASSUME NEW d, IsDb(d), NEW ops, IsOps(ops), NEW n, NEW op, IsOp(op), op.op = "set"
    PROVE  /\ \A y : /\ op.object.name # y => Named(Applied(d, Append(ops, op)), y) = Named(Applied(d, ops), y) \ {op.id}
                     /\ op.object.name = y => Named(Applied(d, Append(ops, op)), y) = Named(Applied(d, ops), y) \cup {op.id}
           /\ \A tgt : TargetIs(d, ops, n, tgt) =>
                /\ (/\ tgt \in {"same", "gone"} /\ op.object.name = Tmp(n) /\ op.object.rows # 0
                    /\ op.id \notin Mod(ops) \cup DOMAIN Applied(d, ops)) => TargetIs(d, Append(ops, op), n, tgt)
                /\ (/\ op.object.name = Target(n) /\ op.object.rows # 0
                    /\ tgt = "empty" => Named(Applied(d, ops), Target(n)) \subseteq {op.id})
                   => TargetIs(d, Append(ops, op), n, "built")
                /\ op.object.name = Target(n) => TargetIs(d, Append(ops, op), n, "empty")
                /\ op.object.name = Backup(n) /\ op.object.rows # 0 /\ tgt # "empty" => TargetIs(d, Append(ops, op), n, "gone")
  <1> DEFINE e == Applied(d, ops)
             f == Applied(d, Append(ops, op))
             M == Mod(ops)
             M2 == Mod(Append(ops, op))
             T == Target(n)
             o == op.object
  <1>1. After(e, op, f) /\ M2 = M \cup {op.id}
    BY NextSeen DEF Touched
  <1>2. T # Tmp(n) /\ T # Backup(n)
    BY OwnFacts
  <1> HIDE DEF e, f, M, M2, T, o
  <1>3. op.id \in DOMAIN f /\ f[op.id] = o /\ DOMAIN f = DOMAIN e \cup {op.id} /\ \A i \in DOMAIN e \ {op.id} : f[i] = e[i]
    BY <1>1 DEF After, Touched, o
  <1>4. ASSUME NEW y PROVE /\ o.name # y => Named(f, y) = Named(e, y) \ {op.id}
                           /\ o.name = y => Named(f, y) = Named(e, y) \cup {op.id}
    BY <1>3 DEF Named
  <1>5. ASSUME NEW tgt, TargetIs(d, ops, n, tgt)
        PROVE  /\ (/\ tgt \in {"same", "gone"} /\ o.name = Tmp(n) /\ o.rows # 0
                   /\ op.id \notin M \cup DOMAIN e) => TargetIs(d, Append(ops, op), n, tgt)
               /\ (/\ o.name = T /\ o.rows # 0
                   /\ tgt = "empty" => Named(e, T) \subseteq {op.id})
                  => TargetIs(d, Append(ops, op), n, "built")
               /\ o.name = T => TargetIs(d, Append(ops, op), n, "empty")
               /\ o.name = Backup(n) /\ o.rows # 0 /\ tgt # "empty" => TargetIs(d, Append(ops, op), n, "gone")
    <2> DEFINE Rows(g) == \A i \in DOMAIN f : f[i].name \in Own(n) => f[i].rows # 0 \/ (f[i].name = T /\ g = "empty")
    <2>1. /\ \A i \in DOMAIN e : e[i].name \in Own(n) => e[i].rows # 0 \/ (e[i].name = T /\ tgt = "empty")
          /\ tgt = "same" =>
               /\ \A i \in Named(d, T) : i \in Named(e, T) \/ \E u \in d[i].uses : u \in M \ DOMAIN e
               /\ Named(e, T) \cap M = {}
      BY <1>5 DEF TargetIs, e, M, T
    <2>2. ASSUME tgt \in {"same", "gone"}, o.name = Tmp(n), o.rows # 0, op.id \notin M \cup DOMAIN e
          PROVE  TargetIs(d, Append(ops, op), n, tgt)
      <3>1. Rows(tgt)
        BY <1>3, <2>1, <2>2
      <3>2. Named(f, T) = Named(e, T) /\ op.id \notin Named(e, T)
        BY <1>2, <1>4, <2>2, SMT DEF Named
      <3>3. \A u \in M \ DOMAIN e : u \in M2 \ DOMAIN f
        BY <1>1, <1>3, <2>2
      <3>4. tgt = "same" =>
              /\ \A i \in Named(d, T) : i \in Named(f, T) \/ \E u \in d[i].uses : u \in M2 \ DOMAIN f
              /\ Named(f, T) \cap M2 = {}
        BY <1>1, <2>1, <3>2, <3>3
      <3> QED
        BY <2>2, <3>1, <3>4 DEF TargetIs, f, M2, T
    <2>3. ASSUME o.name = T PROVE Named(f, T) \cap M2 # {}
      BY <1>1, <1>4, <2>3
    <2>4. ASSUME o.name = T, o.rows # 0, tgt = "empty" => Named(e, T) \subseteq {op.id}
          PROVE  TargetIs(d, Append(ops, op), n, "built")
      <3>1. Rows("built")
        BY <1>3, <2>1, <2>4 DEF Named
      <3> QED
        BY <2>3, <2>4, <3>1 DEF TargetIs, f, M2, T
    <2>5. ASSUME o.name = T PROVE TargetIs(d, Append(ops, op), n, "empty")
      <3>1. Rows("empty")
        BY <1>3, <2>1, <2>5
      <3> QED
        BY <2>3, <2>5, <3>1 DEF TargetIs, f, M2, T
    <2>6. ASSUME o.name = Backup(n), o.rows # 0, tgt # "empty" PROVE TargetIs(d, Append(ops, op), n, "gone")
      <3>1. Rows("gone")
        BY <1>3, <2>1, <2>6
      <3> QED
        BY <3>1 DEF TargetIs, f, M2, T
    <2> QED
      BY <2>2, <2>4, <2>5, <2>6
  <1> QED
    BY <1>4, <1>5 DEF e, f, M, T, o

\* What it makes of the relation of n, case by case.
LEMMA SetTmp ==
    ASSUME NEW d, IsDb(d), NEW ops, IsOps(ops), NEW n, NEW op, IsOp(op), op.op = "set",
           NEW tgt \in {"same", "gone"}, TargetIs(d, ops, n, tgt), op.object.name = Tmp(n), op.object.rows # 0,
           op.id \notin Mod(ops) \cup DOMAIN Applied(d, ops)
    PROVE  TargetIs(d, Append(ops, op), n, tgt)
  BY SetPending

LEMMA SetBuilt ==
    ASSUME NEW d, IsDb(d), NEW ops, IsOps(ops), NEW n, NEW op, IsOp(op), op.op = "set",
           NEW tgt, TargetIs(d, ops, n, tgt), op.object.name = Target(n), op.object.rows # 0,
           tgt = "empty" => Named(Applied(d, ops), Target(n)) \subseteq {op.id}
    PROVE  TargetIs(d, Append(ops, op), n, "built")
  BY SetPending

LEMMA SetEmpty ==
    ASSUME NEW d, IsDb(d), NEW ops, IsOps(ops), NEW n, NEW op, IsOp(op), op.op = "set",
           NEW tgt, TargetIs(d, ops, n, tgt), op.object.name = Target(n)
    PROVE  TargetIs(d, Append(ops, op), n, "empty")
  BY SetPending

LEMMA SetGone ==
    ASSUME NEW d, IsDb(d), NEW ops, IsOps(ops), NEW n, NEW op, IsOp(op), op.op = "set",
           NEW tgt, TargetIs(d, ops, n, tgt), op.object.name = Backup(n), op.object.rows # 0, tgt # "empty"
    PROVE  TargetIs(d, Append(ops, op), n, "gone")
  BY SetPending, SMT

\* What the abstract state a says of the relations of n, with ops pending.
Inside(d, ops, n, a) ==
    /\ \A x \in Own(n) : AtMostOne(Applied(d, ops), x)
    /\ a.tmp = "none" => Named(Applied(d, ops), Tmp(n)) = {}
    /\ a.bak = "none" => Named(Applied(d, ops), Backup(n)) = {}
    /\ NeverBegins(n) \/ TargetIs(d, ops, n, a.tgt)

In(a) == [a EXCEPT !.tx = "in"]

LEMMA EffectType ==
    ASSUME NEW n, NEW a \in AState, NEW i
    PROVE  Effect(n, a, i) \in AState /\ In(a) \in AState /\ Effect(n, In(a), i) \in AState
  <1>1. ASSUME NEW c \in AState PROVE Effect(n, c, i) \in AState
    <2> DEFINE b == Effect(n, c, i)
    <2>1. b.tx \in {"in", "out"} /\ b.open \in BOOLEAN
      BY DEF AState, Effect
    <2>2. b.tgt \in {"same", "gone", "empty", "built"}
      BY DEF AState, Effect
    <2>3. b.tmp \in {"any", "none"} /\ b.bak \in {"any", "none"}
      BY DEF AState, Effect
    <2>4. b = [tx |-> b.tx, open |-> b.open, tgt |-> b.tgt, tmp |-> b.tmp, bak |-> b.bak]
      BY SMT DEF Effect
    <2> HIDE DEF b
    <2>5. b \in AState
      BY <2>1, <2>2, <2>3, <2>4 DEF AState
    <2> QED
      BY <2>5 DEF b
  <1>2. In(a) \in AState
    BY DEF In, AState
  <1> QED
    BY <1>1, <1>2

LEMMA InsideDrop ==
    ASSUME NEW d, IsDb(d), NEW ops, IsOps(ops), NEW n, NEW before, NEW a \in AState, NEW i, i.act = "drop",
           Allowed(n, before, a, i), Inside(d, ops, n, a)
    PROVE  /\ Named(Applied(d, ops), i.name) = {} => Inside(d, ops, n, Effect(n, In(a), i))
           /\ \A op : (/\ IsOp(op) /\ op.op = "drop"
                       /\ op.ids = Cascade(Applied(d, ops), Named(Applied(d, ops), i.name)))
                      => Inside(d, Append(ops, op), n, Effect(n, In(a), i))
  <1> DEFINE b == Effect(n, In(a), i)
             e == Applied(d, ops)
  <1>1. /\ b.tgt = IF i.name = Target(n) THEN "gone" ELSE a.tgt
        /\ b.tmp = IF i.name = Tmp(n) THEN "none" ELSE a.tmp
        /\ b.bak = IF i.name = Backup(n) THEN "none" ELSE a.bak
    BY DEF Effect, In, AState, Commits
  <1>2. i.name \in Own(n) /\ (NeverBegins(n) \/ (TargetIs(d, ops, n, "same") /\ a.tgt = "same"))
    BY DEF Allowed, Careful, Inside
  <1>3. /\ \A x \in Own(n) : AtMostOne(e, x)
        /\ a.tmp = "none" => Named(e, Tmp(n)) = {}
        /\ a.bak = "none" => Named(e, Backup(n)) = {}
    BY DEF Inside
  <1> HIDE DEF b
  <1>4. ASSUME Named(e, i.name) = {} PROVE Inside(d, ops, n, b)
    <2>1. NeverBegins(n) \/ TargetIs(d, ops, n, b.tgt)
      BY <1>1, <1>2 DEF TargetIs
    <2> QED
      BY <1>1, <1>3, <1>4, <2>1 DEF Inside
  <1>5. ASSUME NEW op, IsOp(op), op.op = "drop", op.ids = Cascade(e, Named(e, i.name))
        PROVE  Inside(d, Append(ops, op), n, b)
    <2> DEFINE f == Applied(d, Append(ops, op))
    <2>1. /\ \A y : Named(f, y) \subseteq Named(e, y)
          /\ Named(f, i.name) = {}
          /\ TargetIs(d, ops, n, "same") =>
               /\ TargetIs(d, Append(ops, op), n, "gone")
               /\ i.name # Target(n) => TargetIs(d, Append(ops, op), n, "same")
      BY <1>2, <1>5, DropPending, SMT
    <2> HIDE DEF e, f
    <2>2. \A x \in Own(n) : AtMostOne(f, x)
      BY <1>3, <2>1 DEF AtMostOne
    <2>3. /\ b.tmp = "none" => Named(f, Tmp(n)) = {}
          /\ b.bak = "none" => Named(f, Backup(n)) = {}
      BY <1>1, <1>3, <2>1
    <2>4. NeverBegins(n) \/ TargetIs(d, Append(ops, op), n, b.tgt)
      BY <1>1, <1>2, <2>1
    <2> QED
      BY <2>2, <2>3, <2>4 DEF Inside, f
  <1> QED
    BY <1>4, <1>5 DEF b

LEMMA InsideCreate ==
    ASSUME NEW d, IsDb(d), NEW ops, IsOps(ops), NEW n, NEW before, NEW a \in AState, NEW i,
           i.act \in {"create", "create_empty"},
           Allowed(n, before, a, i), Inside(d, ops, n, a), Named(Applied(d, ops), i.name) = {},
           NEW op, IsOp(op), op.op = "set", op.id \notin Mod(ops) \cup DOMAIN Applied(d, ops),
           op.object.name = i.name, i.act = "create" => op.object.rows # 0
    PROVE  Inside(d, Append(ops, op), n, Effect(n, In(a), i))
  <1> DEFINE b == Effect(n, In(a), i)
             e == Applied(d, ops)
             f == Applied(d, Append(ops, op))
  <1>1. /\ b.tgt = IF i.name # Target(n) THEN a.tgt ELSE IF i.act = "create" THEN "built" ELSE "empty"
        /\ b.tmp = "none" => a.tmp = "none" /\ i.name # Tmp(n)
        /\ b.bak = a.bak
    <2>1. In(a).tgt = a.tgt /\ In(a).tmp = a.tmp /\ In(a).bak = a.bak
      BY DEF In, AState
    <2>2. i.act = "create_empty" => i.name = Target(n)
      BY DEF Allowed
    <2>3. b.tgt = IF i.name # Target(n) THEN a.tgt ELSE IF i.act = "create" THEN "built" ELSE "empty"
      BY <2>1, <2>2 DEF Effect, Commits
    <2>4. b.tmp = "none" => a.tmp = "none" /\ i.name # Tmp(n)
      BY <2>1, <2>2, OwnFacts DEF Effect
    <2>5. b.bak = a.bak
      BY <2>1 DEF Effect
    <2> QED
      BY <2>3, <2>4, <2>5
  <1>2. /\ i.name \in {Target(n), Tmp(n)} /\ (i.act = "create_empty" => i.name = Target(n))
        /\ NeverBegins(n) \/ (TargetIs(d, ops, n, a.tgt) /\ a.tgt \in {"same", "gone"})
    BY DEF Allowed, Careful, Inside
  <1>3. /\ \A x \in Own(n) : AtMostOne(e, x)
        /\ a.tmp = "none" => Named(e, Tmp(n)) = {}
        /\ a.bak = "none" => Named(e, Backup(n)) = {}
    BY DEF Inside
  <1>4. \A y : /\ i.name # y => Named(f, y) = Named(e, y) \ {op.id}
               /\ i.name = y => Named(f, y) = Named(e, y) \cup {op.id}
    BY SetPending, SMT
  <1>5. /\ Own(n) = {Target(n), Tmp(n), Backup(n)}
        /\ Target(n) # Tmp(n) /\ Target(n) # Backup(n) /\ Tmp(n) # Backup(n)
    BY OwnFacts
  <1>6. NeverBegins(n) \/ TargetIs(d, Append(ops, op), n, b.tgt)
    <2> HIDE DEF b
    <2> SUFFICES ASSUME TargetIs(d, ops, n, a.tgt), a.tgt \in {"same", "gone"} PROVE TargetIs(d, Append(ops, op), n, b.tgt)
      BY <1>2
    <2>1. CASE i.name # Target(n)
      <3>1. op.object.rows # 0 /\ op.object.name = Tmp(n) /\ b.tgt = a.tgt
        BY <1>1, <1>2, <2>1
      <3>2. TargetIs(d, Append(ops, op), n, a.tgt)
        BY <3>1, SetTmp, SMT
      <3> QED
        BY <3>1, <3>2
    <2>2. CASE i.name = Target(n) /\ i.act = "create"
      <3>1. b.tgt = "built" /\ (a.tgt = "empty" => Named(Applied(d, ops), Target(n)) \subseteq {op.id})
        BY <1>1, <2>2
      <3>2. TargetIs(d, Append(ops, op), n, "built")
        BY <2>2, <3>1, SetBuilt
      <3> QED
        BY <3>1, <3>2
    <2>3. CASE i.name = Target(n) /\ i.act # "create"
      <3>1. TargetIs(d, Append(ops, op), n, "empty")
        BY <2>3, SetEmpty
      <3> QED
        BY <1>1, <2>3, <3>1
    <2> QED
      BY <2>1, <2>2, <2>3
  <1> HIDE DEF b, f, e
  <1>7. ASSUME NEW x \in Own(n) PROVE AtMostOne(f, x)
    <2>1. CASE x = i.name
      BY <1>4, <2>1 DEF AtMostOne, e
    <2>2. CASE x # i.name
      <3>1. Named(f, x) = Named(e, x) \ {op.id}
        BY <1>4, <2>2
      <3> QED
        BY <1>3, <3>1 DEF AtMostOne
    <2> QED
      BY <2>1, <2>2
  <1>8. /\ b.tmp = "none" => Named(f, Tmp(n)) = {}
        /\ b.bak = "none" => Named(f, Backup(n)) = {}
    <2>1. ASSUME NEW y, i.name # y, Named(e, y) = {} PROVE Named(f, y) = {}
      BY <1>4, <2>1
    <2>2. i.name # Backup(n)
      BY <1>2, <1>5
    <2> QED
      BY <1>1, <1>3, <2>1, <2>2
  <1>9. Inside(d, Append(ops, op), n, b)
    BY <1>6, <1>7, <1>8 DEF Inside, f
  <1> QED
    BY <1>9 DEF b

LEMMA InsideRename ==
    ASSUME NEW d, IsDb(d), NEW ops, IsOps(ops), NEW n, NEW before, NEW a \in AState, NEW i, i.act = "rename",
           Allowed(n, before, a, i), Inside(d, ops, n, a), Named(Applied(d, ops), i.to) = {},
           NEW op, IsOp(op), op.op = "set", op.id \in Named(Applied(d, ops), i.name),
           op.object.name = i.to, op.object.rows = Applied(d, ops)[op.id].rows
    PROVE  Inside(d, Append(ops, op), n, Effect(n, In(a), i))
  <1> DEFINE b == Effect(n, In(a), i)
             e == Applied(d, ops)
             f == Applied(d, Append(ops, op))
  <1>1. /\ Own(n) = {Target(n), Tmp(n), Backup(n)}
        /\ Target(n) # Tmp(n) /\ Target(n) # Backup(n) /\ Tmp(n) # Backup(n)
    BY OwnFacts
  <1>2. /\ \/ i.name = Target(n) /\ i.to = Backup(n)
           \/ i.name = Tmp(n) /\ i.to = Target(n)
        /\ NeverBegins(n) \/ (TargetIs(d, ops, n, a.tgt) /\ a.tgt # "empty")
    BY DEF Allowed, Careful, Inside
  <1>3. /\ b.tgt = IF i.name = Target(n) THEN "gone" ELSE "built"
        /\ b.tmp = IF i.name = Target(n) THEN a.tmp ELSE "none"
        /\ b.bak = IF i.name = Target(n) THEN "any" ELSE a.bak
    <2>1. In(a).tgt = a.tgt /\ In(a).tmp = a.tmp /\ In(a).bak = a.bak
      BY DEF In, AState
    <2>2. b.tgt = IF i.name = Target(n) THEN "gone" ELSE "built"
      BY <1>1, <1>2 DEF Effect, Commits
    <2>3. b.tmp = IF i.name = Target(n) THEN a.tmp ELSE "none"
      BY <1>1, <1>2, <2>1 DEF Effect
    <2>4. b.bak = IF i.name = Target(n) THEN "any" ELSE a.bak
      BY <1>1, <1>2, <2>1 DEF Effect
    <2> QED
      BY <2>2, <2>3, <2>4
  <1>4. /\ \A x \in Own(n) : AtMostOne(e, x)
        /\ a.tmp = "none" => Named(e, Tmp(n)) = {}
        /\ a.bak = "none" => Named(e, Backup(n)) = {}
    BY DEF Inside
  <1>5. \A y : /\ i.to # y => Named(f, y) = Named(e, y) \ {op.id}
               /\ i.to = y => Named(f, y) = Named(e, y) \cup {op.id}
    BY SetPending, SMT
  <1>6. NeverBegins(n) \/ TargetIs(d, Append(ops, op), n, b.tgt)
    <2> HIDE DEF b
    <2> SUFFICES ASSUME TargetIs(d, ops, n, a.tgt), a.tgt # "empty" PROVE TargetIs(d, Append(ops, op), n, b.tgt)
      BY <1>2
    <2>1. op.id \in DOMAIN e /\ e[op.id].name = i.name
      BY DEF Named
    <2>2. op.object.rows # 0
      BY <1>1, <1>2, <2>1 DEF TargetIs
    <2>3. CASE i.name = Target(n)
      <3>1. i.to = Backup(n)
        BY <1>1, <1>2, <2>3
      <3>2. TargetIs(d, Append(ops, op), n, "gone")
        BY <2>2, <3>1, SetGone
      <3> QED
        BY <1>3, <2>3, <3>2
    <2>4. CASE i.name # Target(n)
      <3>1. i.to = Target(n)
        BY <1>2, <2>4
      <3>2. TargetIs(d, Append(ops, op), n, "built")
        BY <2>2, <3>1, SetBuilt
      <3> QED
        BY <1>3, <2>4, <3>2
    <2> QED
      BY <2>3, <2>4
  <1>7. Named(e, i.to) = {} /\ op.id \in Named(e, i.name)
    OBVIOUS
  <1> HIDE DEF b, f, e
  <1>8. ASSUME NEW x \in Own(n) PROVE AtMostOne(f, x)
    <2>1. CASE x = i.to
      BY <1>5, <1>7, <2>1 DEF AtMostOne
    <2>2. CASE x # i.to
      <3>1. Named(f, x) = Named(e, x) \ {op.id}
        BY <1>5, <2>2
      <3> QED
        BY <1>4, <3>1 DEF AtMostOne
    <2> QED
      BY <2>1, <2>2
  <1>9. Named(f, i.name) = {}
    <2>1. i.name \in Own(n) /\ i.to # i.name
      BY <1>1, <1>2
    <2>2. Named(e, i.name) = {op.id}
      BY <1>4, <1>7, <2>1 DEF AtMostOne
    <2> QED
      BY <1>5, <2>1, <2>2
  <1>10. /\ b.tmp = "none" => Named(f, Tmp(n)) = {}
         /\ b.bak = "none" => Named(f, Backup(n)) = {}
    BY <1>1, <1>2, <1>3, <1>4, <1>5, <1>9
  <1>11. Inside(d, Append(ops, op), n, b)
    BY <1>6, <1>8, <1>10 DEF Inside, f
  <1> QED
    BY <1>11 DEF b

LEMMA InsideWrite ==
    ASSUME NEW d, IsDb(d), NEW ops, IsOps(ops), NEW n, NEW before, NEW a \in AState, NEW i,
           i.act \in {"truncate", "insert", "upsert"},
           Allowed(n, before, a, i), Inside(d, ops, n, a),
           NEW op, IsOp(op), op.op = "set", op.id \in Named(Applied(d, ops), i.name),
           op.object.name = i.name, i.act # "truncate" => op.object.rows # 0
    PROVE  Inside(d, Append(ops, op), n, Effect(n, In(a), i))
  <1> DEFINE b == Effect(n, In(a), i)
             e == Applied(d, ops)
             f == Applied(d, Append(ops, op))
  <1>1. Own(n) = {Target(n), Tmp(n), Backup(n)} /\ Target(n) # Tmp(n) /\ Target(n) # Backup(n)
    BY OwnFacts
  <1>2. i.name = Target(n) /\ (NeverBegins(n) \/ TargetIs(d, ops, n, a.tgt))
    BY DEF Allowed, Inside
  <1>3. b.tgt = (IF i.act = "truncate" THEN "empty" ELSE "built") /\ b.tmp = a.tmp /\ b.bak = a.bak
    <2>1. In(a).tgt = a.tgt /\ In(a).tmp = a.tmp /\ In(a).bak = a.bak
      BY DEF In, AState
    <2>2. b.tgt = IF i.act = "truncate" THEN "empty" ELSE "built"
      BY <1>2 DEF Effect, Commits
    <2>3. b.tmp = a.tmp /\ b.bak = a.bak
      BY <2>1 DEF Effect
    <2> QED
      BY <2>2, <2>3
  <1>4. /\ \A x \in Own(n) : AtMostOne(e, x)
        /\ a.tmp = "none" => Named(e, Tmp(n)) = {}
        /\ a.bak = "none" => Named(e, Backup(n)) = {}
    BY DEF Inside
  <1>5. \A y : /\ i.name # y => Named(f, y) = Named(e, y) \ {op.id}
               /\ i.name = y => Named(f, y) = Named(e, y) \cup {op.id}
    BY SetPending, SMT
  <1>6. Named(e, i.name) = {op.id}
    BY <1>1, <1>2, <1>4 DEF AtMostOne
  <1>7. NeverBegins(n) \/ TargetIs(d, Append(ops, op), n, b.tgt)
    <2> HIDE DEF b
    <2> SUFFICES ASSUME TargetIs(d, ops, n, a.tgt) PROVE TargetIs(d, Append(ops, op), n, b.tgt)
      BY <1>2
    <2>1. CASE i.act = "truncate"
      <3>1. TargetIs(d, Append(ops, op), n, "empty")
        BY <1>2, SetEmpty
      <3> QED
        BY <1>3, <2>1, <3>1
    <2>2. CASE i.act # "truncate"
      <3>1. Named(Applied(d, ops), Target(n)) \subseteq {op.id}
        BY <1>2, <1>6
      <3>2. TargetIs(d, Append(ops, op), n, "built")
        BY <1>2, <2>2, <3>1, SetBuilt
      <3> QED
        BY <1>3, <2>2, <3>2
    <2> QED
      BY <2>1, <2>2
  <1> HIDE DEF b, f, e
  <1>8. \A x \in Own(n) : Named(f, x) \subseteq Named(e, x)
    BY <1>5, <1>6
  <1>9. \A x \in Own(n) : AtMostOne(f, x)
    BY <1>4, <1>8 DEF AtMostOne
  <1>10. /\ b.tmp = "none" => Named(f, Tmp(n)) = {}
         /\ b.bak = "none" => Named(f, Backup(n)) = {}
    BY <1>1, <1>3, <1>4, <1>8
  <1>11. Inside(d, Append(ops, op), n, b)
    BY <1>7, <1>9, <1>10 DEF Inside, f
  <1> QED
    BY <1>11 DEF b

Silent == {"hook_in", "hook_out", "cache_drop", "cache_rename", "added"}

LEMMA SilentFacts ==
    ASSUME NEW n, NEW a \in AState, NEW i, i.act \in Silent
    PROVE  LET b == Effect(n, a, i) IN b.tgt = a.tgt /\ b.tmp = a.tmp /\ b.bak = a.bak
  <1> DEFINE b == Effect(n, a, i)
  <1>1. b.tgt = a.tgt
    BY DEF Effect, Silent, Commits
  <1>2. b.tmp = a.tmp /\ b.bak = a.bak
    BY DEF Effect, Silent
  <1> QED
    BY <1>1, <1>2

LEMMA InsideSilent ==
    ASSUME NEW d, NEW ops, NEW n, NEW a \in AState, NEW i, i.act \in Silent, Inside(d, ops, n, a)
    PROVE  Inside(d, ops, n, Effect(n, In(a), i))
  <1>1. In(a) \in AState /\ In(a).tgt = a.tgt /\ In(a).tmp = a.tmp /\ In(a).bak = a.bak
    BY DEF In, AState
  <1> DEFINE b == Effect(n, In(a), i)
  <1>2. b.tgt = a.tgt /\ b.tmp = a.tmp /\ b.bak = a.bak
    BY <1>1, SilentFacts, SMT
  <1> HIDE DEF b
  <1>3. Inside(d, ops, n, b)
    BY <1>2 DEF Inside
  <1> QED
    BY <1>3 DEF b
-----------------------------------------------------------------------------
(* Statements and commits *)

\* The relation of n stays, or is dropped with what it is a view of.
Stays(d, e, n) == \A i \in Named(d, Target(n)) : Named(e, Target(n)) # {} \/ \E u \in d[i].uses : u \notin DOMAIN e

LEMMA TargetCommitted ==
    ASSUME NEW d, IsDb(d), NEW ops, IsOps(ops), NEW n, NEW tgt, TargetIs(d, ops, n, tgt)
    PROVE  /\ tgt # "empty" => TargetIs(Applied(d, ops), <<>>, n, "same")
           /\ tgt \in {"same", "built"} => Stays(d, Applied(d, ops), n)
  <1> DEFINE e == Applied(d, ops)
  <1>1. IsDb(e)
    BY AppliedFacts
  <1>2. /\ \A i \in DOMAIN e : e[i].name \in Own(n) => e[i].rows # 0 \/ (e[i].name = Target(n) /\ tgt = "empty")
        /\ tgt = "same" =>
             \A i \in Named(d, Target(n)) : i \in Named(e, Target(n)) \/ \E u \in d[i].uses : u \in Mod(ops) \ DOMAIN e
        /\ tgt = "built" => Named(e, Target(n)) # {}
    BY DEF TargetIs
  <1> HIDE DEF e
  <1>3. Applied(e, <<>>) = e /\ Mod(<<>>) = {}
    BY <1>1, AppliedNone, LocalNone
  <1>4. tgt # "empty" => TargetIs(e, <<>>, n, "same")
    BY <1>2, <1>3 DEF TargetIs
  <1>5. tgt \in {"same", "built"} => Stays(d, e, n)
    BY <1>2 DEF Stays
  <1> QED
    BY <1>4, <1>5 DEF e

\* What commits and statements do to the abstract state: b is it afterwards, c is
\* it afterwards if the statement is inside a transaction.
ByCommit(a, i, b) == b.tx = "out" /\ b.tgt = "same" /\ b.tmp = a.tmp /\ b.bak = a.bak
                     /\ b.open = (a.open /\ i.act = "sql_commit")
ByStatement(n, a, i, b, c) ==
    /\ b.tx = IF i.act \in Begins /\ ~a.open THEN "in" ELSE a.tx
    /\ b.open = (a.open \/ i.act \in Begins)
    /\ c.tmp = b.tmp /\ c.bak = b.bak
    /\ a.tx = "in" \/ i.act # "drop" => c.tgt = b.tgt
    /\ i.act = "drop" => c.tgt = (IF i.name = Target(n) THEN "gone" ELSE a.tgt)
    /\ i.act \in {"drop", "hook_out"} /\ a.tx = "out" => b.tgt = a.tgt

LEMMA EffectTx ==
    ASSUME NEW n, NEW a \in AState, NEW i
    PROVE  /\ i.act \in Commits => ByCommit(a, i, Effect(n, a, i))
           /\ i.act \notin Commits => ByStatement(n, a, i, Effect(n, a, i), Effect(n, In(a), i))
  <1>0. a.open \in BOOLEAN /\ In(a).tgt = a.tgt /\ In(a).tmp = a.tmp /\ In(a).bak = a.bak /\ In(a).tx = "in"
    BY DEF In, AState
  <1>1. CASE i.act \in Commits
    <2>1. Effect(n, a, i).tx = "out" /\ Effect(n, a, i).tgt = "same"
      BY <1>1 DEF Effect, Commits
    <2>2. i.act \in {"commit", "sql_commit"} /\ i.act \notin Begins
      BY <1>1 DEF Commits, Begins
    <2>3. Effect(n, a, i).tmp = a.tmp /\ Effect(n, a, i).bak = a.bak /\ Effect(n, a, i).open = (a.open /\ i.act = "sql_commit")
      BY <1>0, <2>2 DEF Effect
    <2> QED
      BY <1>1, <2>1, <2>3 DEF ByCommit
  <1>2. CASE i.act \notin Commits
    <2>1. Effect(n, a, i).tx = (IF i.act \in Begins /\ ~a.open THEN "in" ELSE a.tx)
          /\ Effect(n, a, i).open = (a.open \/ i.act \in Begins)
      BY <1>0, <1>2 DEF Effect, Commits
    <2>2. Effect(n, In(a), i).tmp = Effect(n, a, i).tmp /\ Effect(n, In(a), i).bak = Effect(n, a, i).bak
      BY <1>0 DEF Effect
    <2>3. a.tx = "in" \/ i.act # "drop" => Effect(n, In(a), i).tgt = Effect(n, a, i).tgt
      BY <1>0, SMT DEF Effect
    <2>4. i.act = "drop" => Effect(n, In(a), i).tgt = (IF i.name = Target(n) THEN "gone" ELSE a.tgt)
      BY <1>0, <1>2 DEF Effect
    <2>5. i.act \in {"drop", "hook_out"} /\ a.tx = "out" => Effect(n, a, i).tgt = a.tgt
      BY <1>2 DEF Effect
    <2> QED
      BY <1>2, <2>1, <2>2, <2>3, <2>4, <2>5 DEF ByStatement
  <1> QED
    BY <1>1, <1>2

\* The connection after a statement, inside a transaction and outside
SentInside(c, i, ops, c2) ==
    /\ c.server \/ ~c.auto \/ (i.act \in Begins /\ ~c.open)
    /\ c2.open = (c.open \/ i.act \in Begins) /\ c2.server = TRUE /\ c2.ops = ops
SentOutside(c, i, c2) ==
    /\ ~(c.server \/ ~c.auto \/ (i.act \in Begins /\ ~c.open))
    /\ c2.open = (c.open \/ i.act \in Begins) /\ c2.server = c.server /\ c2.auto = c.auto /\ c2.ops = <<>>

\* The committed database is e, and the thread has nothing pending
Settled(d, e, n, before, c, b) ==
    Means(e, c, n, b) /\ b.tx = "out" /\ (Stays(d, e, n) \/ before \/ NeverBegins(n))

LEMMA StatementInside ==
    ASSUME NEW d, NEW c, IsConn(c), NEW n, NEW a \in AState, NEW i, i.act \notin Commits, Means(d, c, n, a),
           NEW ops, Inside(d, ops, n, Effect(n, In(a), i)), NEW c2, SentInside(c, i, ops, c2)
    PROVE  Means(d, c2, n, Effect(n, a, i))
  <1> USE DEF SentInside
  <1> DEFINE auto == i.act \in Begins
             b == Effect(n, a, i)
             bIn == Effect(n, In(a), i)
  <1>1. b \in AState
    BY EffectType
  <1>2. /\ b.tx = IF auto /\ ~a.open THEN "in" ELSE a.tx
        /\ b.open = (a.open \/ auto) /\ bIn.tmp = b.tmp /\ bIn.bak = b.bak
        /\ a.tx = "in" \/ i.act # "drop" => bIn.tgt = b.tgt
    <2>1. ByStatement(n, a, i, b, bIn)
      BY EffectTx
    <2> HIDE DEF b, bIn
    <2> QED
      BY <2>1 DEF ByStatement
  <1>3. /\ a.open = c.open /\ a.tx \in {"in", "out"}
        /\ a.tx = "out" => ~c.server /\ c.auto
    BY DEF Means, AState
  <1>4. b.tx = "in" /\ b.open = c2.open
    BY <1>2, <1>3
  <1>5. bIn.tgt = b.tgt
    <2>1. auto => i.act # "drop"
      BY DEF Begins
    <2> QED
      BY <1>2, <1>3, <2>1
  <1>6. /\ \A x \in Own(n) : AtMostOne(Applied(d, c2.ops), x)
        /\ b.tmp = "none" => Named(Applied(d, c2.ops), Tmp(n)) = {}
        /\ b.bak = "none" => Named(Applied(d, c2.ops), Backup(n)) = {}
        /\ NeverBegins(n) \/ TargetIs(d, c2.ops, n, b.tgt)
    <2> HIDE DEF b, bIn
    <2>1. Inside(d, ops, n, bIn)
      BY DEF bIn
    <2> QED
      BY <1>2, <1>5, <2>1 DEF Inside
  <1> HIDE DEF b, bIn
  <1>7. Means(d, c2, n, b)
    BY <1>1, <1>4, <1>6 DEF Means
  <1> QED
    BY <1>7 DEF b

LEMMA StatementOutside ==
    ASSUME NEW d, IsDb(d), NEW c, IsConn(c), NEW n, NEW before, NEW a \in AState,
           NEW i, i.act \in Begins \cup {"drop", "hook_out"}, Means(d, c, n, a), Allowed(n, before, a, i),
           NEW ops, IsOps(ops), Inside(d, ops, n, Effect(n, In(a), i)), i.act = "hook_out" => ops = <<>>,
           NEW c2, SentOutside(c, i, c2)
    PROVE  Settled(d, Applied(d, ops), n, before, c2, Effect(n, a, i))
  <1> USE DEF SentOutside, Settled
  <1> DEFINE b == Effect(n, a, i)
             bIn == Effect(n, In(a), i)
             e == Applied(d, ops)
  <1>0. b \in AState /\ i.act \notin Commits /\ i.act \in {"drop", "hook_out"} \cup Begins
    BY EffectType DEF Begins, Commits
  <1>1. ByStatement(n, a, i, b, bIn) /\ Inside(d, ops, n, bIn)
    BY <1>0, EffectTx
  <1>2. IsDb(e) /\ Applied(e, <<>>) = e
    <2>1. IsDb(e)
      BY AppliedFacts
    <2> HIDE DEF e
    <2> QED
      BY <2>1, AppliedNone
  <1> HIDE DEF b, bIn
  <1>3. /\ a.open = c.open /\ a.tx = "out" /\ ~c.server /\ c.auto /\ c.ops = <<>>
        /\ NeverBegins(n) \/ (TargetIs(d, <<>>, n, a.tgt) /\ a.tgt \notin {"gone", "empty"})
    <2>1. a.tx \in {"in", "out"}
      BY DEF AState
    <2> QED
      BY <2>1 DEF Means
  <1>4. b.tx = "out" /\ b.open = c2.open
    BY <1>1, <1>3 DEF ByStatement
  <1>5. NeverBegins(n) \/ (i.act \in {"drop", "hook_out"} /\ b.tgt = a.tgt)
    BY <1>0, <1>1, <1>3 DEF Allowed, Careful, ByStatement
  <1>6. ASSUME ~NeverBegins(n), i.act = "drop"
        PROVE  TargetIs(e, <<>>, n, b.tgt) /\ b.tgt = "same" /\ (Stays(d, e, n) \/ before)
    <2>1. a.tgt = "same" /\ (i.name = Target(n) => before)
      BY <1>3, <1>6 DEF Allowed, Careful
    <2>2. TargetIs(d, ops, n, bIn.tgt) /\ bIn.tgt = IF i.name = Target(n) THEN "gone" ELSE "same"
      BY <1>1, <1>6, <2>1 DEF Inside, ByStatement
    <2> QED
      BY <1>5, <1>6, <2>1, <2>2, TargetCommitted
  <1>7. ASSUME ~NeverBegins(n), i.act = "hook_out"
        PROVE  TargetIs(e, <<>>, n, b.tgt) /\ b.tgt \notin {"gone", "empty"} /\ Stays(d, e, n)
    <2>1. e = d
      BY <1>7, AppliedNone
    <2>2. TargetIs(d, <<>>, n, b.tgt) /\ b.tgt \notin {"gone", "empty"}
      BY <1>3, <1>5, <1>7
    <2> HIDE DEF e
    <2> QED
      BY <2>1, <2>2 DEF Stays
  <1>8. /\ \A x \in Own(n) : AtMostOne(Applied(e, <<>>), x)
        /\ b.tmp = "none" => Named(Applied(e, <<>>), Tmp(n)) = {}
        /\ b.bak = "none" => Named(Applied(e, <<>>), Backup(n)) = {}
    BY <1>1, <1>2 DEF Inside, ByStatement
  <1> HIDE DEF e
  <1>9. NeverBegins(n) \/ (TargetIs(e, <<>>, n, b.tgt) /\ b.tgt \notin {"gone", "empty"})
    BY <1>5, <1>6, <1>7
  <1>10. Means(e, c2, n, b)
    BY <1>0, <1>3, <1>4, <1>8, <1>9 DEF Means
  <1> QED
    BY <1>4, <1>5, <1>6, <1>7, <1>10 DEF b, e

SentCommit(c, i, c2) ==
    c2.open = (c.open /\ i.act = "sql_commit") /\ c2.server = FALSE /\ c2.auto = TRUE /\ c2.ops = <<>>

LEMMA CommitMeans ==
    ASSUME NEW d, IsDb(d), NEW c, IsConn(c), NEW n, NEW before, NEW a \in AState,
           NEW i, i.act \in Commits, Means(d, c, n, a), Allowed(n, before, a, i),
           NEW c2, SentCommit(c, i, c2)
    PROVE  Settled(d, Applied(d, c.ops), n, before, c2, Effect(n, a, i))
  <1> USE DEF SentCommit, Settled
  <1> DEFINE b == Effect(n, a, i)
             e == Applied(d, c.ops)
  <1>0. b \in AState /\ ByCommit(a, i, b)
    BY EffectType, EffectTx
  <1>1. IsOps(c.ops)
    BY DEF IsConn
  <1>2. IsDb(e) /\ Applied(e, <<>>) = e
    <2>1. IsDb(e)
      BY <1>1, AppliedFacts
    <2> HIDE DEF e
    <2> QED
      BY <2>1, AppliedNone
  <1>3. NeverBegins(n) \/ (TargetIs(d, c.ops, n, a.tgt) /\ a.tgt \in {"same", "built"})
    BY DEF Means, Allowed, Careful
  <1>4. NeverBegins(n) \/ (TargetIs(e, <<>>, n, "same") /\ Stays(d, e, n))
    BY <1>1, <1>3, TargetCommitted
  <1>5. /\ \A x \in Own(n) : AtMostOne(Applied(e, <<>>), x)
        /\ a.tmp = "none" => Named(Applied(e, <<>>), Tmp(n)) = {}
        /\ a.bak = "none" => Named(Applied(e, <<>>), Backup(n)) = {}
        /\ a.open = c.open
    BY <1>2 DEF Means
  <1> HIDE DEF b, e
  <1>6. Means(e, c2, n, b) /\ b.tx = "out"
    BY <1>0, <1>4, <1>5 DEF Means, ByCommit
  <1> QED
    BY <1>4, <1>6 DEF b, e
-----------------------------------------------------------------------------
(* Programs *)

LEMMA RunsNone ==
    ASSUME NEW n, NEW before, NEW a \in AState
    PROVE  Runs(n, before, a, <<>>, a) /\ \A b : Runs(n, before, a, <<>>, b) => a = b
  <1>1. IsSeq(<<>>) /\ Len(<<>>) = 0
    BY SMT DEF IsSeq, Range
  <1>2. IsRun([k \in 0..0 |-> a], n, before, a, <<>>, a)
    BY <1>1, SMT DEF IsRun
  <1>3. ASSUME NEW b, Runs(n, before, a, <<>>, b) PROVE a = b
    BY <1>1, <1>3 DEF Runs, IsRun
  <1> QED
    BY <1>1, <1>2, <1>3 DEF Runs

LEMMA RunsStep ==
    ASSUME NEW n, NEW before, NEW a, NEW b, NEW p, p # <<>>, Runs(n, before, a, p, b)
    PROVE  Allowed(n, before, a, Head(p)) /\ Runs(n, before, Effect(n, a, Head(p)), Tail(p), b)
  <1>1. PICK st : IsRun(st, n, before, a, p, b)
    BY DEF Runs
  <1> DEFINE r == Tail(p)
             N == Len(p)
             su == [k \in 0..Len(r) |-> st[k + 1]]
  <1>2. /\ IsSeq(r) /\ N \in Nat /\ Len(r) = N - 1 /\ N >= 1 /\ Head(p) = p[1]
        /\ \A k \in 1..(N - 1) : r[k] = p[k + 1]
    BY TailFacts DEF Runs
  <1>3. /\ \A k \in 0..N : st[k] \in AState
        /\ st[0] = a /\ st[N] = b
        /\ \A k \in 1..N : Allowed(n, before, st[k - 1], p[k]) /\ st[k] = Effect(n, st[k - 1], p[k])
    BY <1>1 DEF IsRun
  <1> HIDE DEF r, N
  <1>4. Allowed(n, before, a, Head(p)) /\ st[1] = Effect(n, a, Head(p))
    <2>1. 1 \in 1..N /\ 1 - 1 = 0
      BY <1>2, SMT
    <2> QED
      BY <1>2, <1>3, <2>1
  <1>5. su \in [0..Len(r) -> AState]
    BY <1>2, <1>3, SMT
  <1>6. su[0] = st[1] /\ su[Len(r)] = b
    BY <1>2, <1>3, SMT
  <1>7. ASSUME NEW k \in 1..Len(r) PROVE Allowed(n, before, su[k - 1], r[k]) /\ su[k] = Effect(n, su[k - 1], r[k])
    <2>1. k + 1 \in 1..N /\ su[k] = st[k + 1] /\ su[k - 1] = st[(k + 1) - 1] /\ r[k] = p[k + 1]
      BY <1>2, SMT
    <2> QED
      BY <1>3, <2>1
  <1> HIDE DEF su
  <1>8. IsRun(su, n, before, Effect(n, a, Head(p)), r, b)
    BY <1>4, <1>5, <1>6, <1>7 DEF IsRun
  <1> QED
    BY <1>2, <1>4, <1>8 DEF Runs, r

\* A statement that begins a transaction is inside one, and the relation of n is
\* as T says.
Stage(n, a, T) == a \in AState /\ (NeverBegins(n) \/ (a.tgt \in T /\ (a.tx = "in" \/ ~a.open)))

\* How a statement that begins a transaction changes the relation of n; what it
\* is when the statement i, then the program p, took a to b.
Moves(n, T, i, U) ==
    /\ i.act \in Begins
    /\ \/ i.act = "hook_in" /\ U = T
       \/ i.act = "create" /\ i.name = Tmp(n) /\ U = T /\ T \subseteq {"same", "gone"}
       \/ i.act = "create" /\ i.name = Target(n) /\ U = {"built"} /\ T \subseteq {"same", "gone"}
       \/ i.act = "create_empty" /\ i.name = Target(n) /\ U = {"empty"} /\ T \subseteq {"same", "gone"}
       \/ i.act = "truncate" /\ i.name = Target(n) /\ U = {"empty"} /\ T = {"same"}
       \/ i.act = "insert" /\ i.name = Target(n) /\ U = {"built"} /\ T = {"empty"}
       \/ i.act = "upsert" /\ i.name = Target(n) /\ U = {"built"} /\ T = {"same"}
       \/ i.act = "rename" /\ i.name = Target(n) /\ i.to = Backup(n) /\ U = {"gone"} /\ T = {"same"}
       \/ i.act = "rename" /\ i.name = Tmp(n) /\ i.to = Target(n) /\ U = {"built"} /\ T \subseteq {"same", "gone"}
Moved(n, before, a, i, p, U, b) ==
    /\ Runs(n, before, a, p, b) /\ Stage(n, b, U) /\ (b.tx = "in" \/ NeverBegins(n))
    /\ i.act # "rename" => b.bak = a.bak /\ (i.act # "create" => b.tmp = a.tmp)
    /\ i.act = "rename" /\ i.name = Tmp(n) => b.tmp = "none" /\ b.bak = a.bak

Kept(a, b) == b.tmp = a.tmp /\ b.bak = a.bak

Committed(n, before, a, p, open, b) ==
    /\ b \in AState /\ Runs(n, before, a, p, b) /\ b.tx = "out" /\ b.tgt = "same" /\ b.open = open /\ Kept(a, b)

Dropped(n, before, a, x, p, b) ==
    /\ b \in AState /\ Runs(n, before, a, p, b) /\ b.tx = a.tx /\ b.open = a.open
    /\ b.tmp = (IF x = Tmp(n) THEN "none" ELSE a.tmp)
    /\ b.bak = (IF x = Backup(n) THEN "none" ELSE a.bak)
    /\ b.tgt = a.tgt \/ (x = Target(n) /\ b.tgt = "gone")

\* Before the hooks that run first: dbt has a transaction open only if it has
\* looked for the relation by a query.
Begun(n, a) == Stage(n, a, {"same"}) /\ (a.open => ~UseCache)

HooksRun(n, before, a, T, p, b) == Runs(n, before, a, p, b) /\ Stage(n, b, T) /\ Kept(a, b)

\* The transaction is committed, and what remains outside is out of one.
Ended(n, a) == a \in AState /\ a.tx = "out" /\ (NeverBegins(n) \/ a.tgt = "same")
EndRuns(n, before, a, p, b) == Runs(n, before, a, p, b) /\ Ended(n, b) /\ Kept(a, b)

\* The program p is safe from a on, and leaves a relation of the kind k.
Safe(n, before, a, p, k) == \E b \in AState : Runs(n, before, a, p, b) /\ Final(k, b)

\* Every materialization is safe.
LEMMA ProgramSafe ==
    \A n, a, old : kind[n] \in {"table", "view", "incremental", "seed"} /\ Begun(n, a) /\ a.tx = "in" =>
                   Safe(n, DropsBefore(n), a, Program(n, old, run.full), kind[n])
  <1>ConcatFacts. ASSUME NEW p, IsSeq(p), NEW q, IsSeq(q)
                  PROVE  /\ IsSeq(p \o q) /\ Len(p) \in Nat /\ Len(q) \in Nat /\ Len(p \o q) = Len(p) + Len(q)
                         /\ \A i \in 1..(Len(p) + Len(q)) : (p \o q)[i] = IF i <= Len(p) THEN p[i] ELSE q[i - Len(p)]
    <2> USE <1>ConcatFacts
    <2> DEFINE S == Range(p) \cup Range(q)
               r == p \o q
    <2>1. p \in Seq(S) /\ q \in Seq(S)
      BY SMT DEF IsSeq
    <2>2. /\ r \in Seq(S) /\ Len(p) \in Nat /\ Len(q) \in Nat /\ Len(r) = Len(p) + Len(q) /\ DOMAIN r = 1..(Len(p) + Len(q))
          /\ \A i \in 1..(Len(p) + Len(q)) : r[i] = IF i <= Len(p) THEN p[i] ELSE q[i - Len(p)]
      BY <2>1, SMT
    <2> HIDE DEF r, S
    <2>3. IsSeq(r)
      <3>1. r \in [1..Len(r) -> Range(r)] /\ Len(r) \in Nat
        BY <2>2, SMT DEF Range
      <3> QED
        BY <3>1, SMT DEF IsSeq
    <2> QED
      BY <2>2, <2>3 DEF r
  <1>TupleFacts. ASSUME NEW x PROVE IsSeq(<<>>) /\ IsSeq(<<x>>) /\ Range(<<>>) = {} /\ Range(<<x>>) = {x}
    BY <1>TupleFacts, SMT DEF IsSeq, Range
  <1>RunsOne. ASSUME NEW n, NEW before, NEW a \in AState, NEW i, Allowed(n, before, a, i)
              PROVE  Runs(n, before, a, <<i>>, Effect(n, a, i))
    <2> USE <1>RunsOne
    <2> DEFINE b == Effect(n, a, i)
               st == [k \in 0..1 |-> IF k = 0 THEN a ELSE b]
               p == <<i>>
    <2>1. b \in AState
      BY EffectType
    <2>2. IsSeq(p) /\ Len(p) = 1 /\ p[1] = i
      BY <1>TupleFacts
    <2> HIDE DEF p
    <2>3. IsRun(st, n, before, a, p, b)
      <3>1. st \in [0..Len(p) -> AState] /\ st[0] = a /\ st[Len(p)] = b
        <4> HIDE DEF b
        <4> QED
          BY <2>1, <2>2, SMT
      <3>2. ASSUME NEW k \in 1..Len(p)
            PROVE Allowed(n, before, st[k - 1], p[k]) /\ st[k] = Effect(n, st[k - 1], p[k])
        <4>1. k = 1
          BY <2>2, SMT
        <4>2. st[1] = b /\ st[0] = a
          BY SMT
        <4> QED
          BY <2>2, <4>1, <4>2, SMT
      <3> QED
        BY <3>1, <3>2 DEF IsRun
    <2> QED
      BY <2>2, <2>3 DEF Runs, p
  <1>RunsConcat. ASSUME NEW n, NEW before, NEW a, NEW b, NEW c, NEW p, NEW q,
                        Runs(n, before, a, p, b), Runs(n, before, b, q, c)
                 PROVE  Runs(n, before, a, p \o q, c)
    <2> USE <1>RunsConcat
    <2>1. PICK st : IsRun(st, n, before, a, p, b)
      BY DEF Runs
    <2>2. PICK su : IsRun(su, n, before, b, q, c)
      BY DEF Runs
    <2> DEFINE r == p \o q
               N == Len(p)
               sv == [k \in 0..Len(r) |-> IF k <= N THEN st[k] ELSE su[k - N]]
    <2>3. /\ IsSeq(r) /\ N \in Nat /\ Len(q) \in Nat /\ Len(r) = N + Len(q)
          /\ \A k \in 1..(N + Len(q)) : r[k] = IF k <= N THEN p[k] ELSE q[k - N]
      BY <1>ConcatFacts DEF Runs
    <2>4. /\ \A k \in 0..N : st[k] \in AState
          /\ \A k \in 0..Len(q) : su[k] \in AState
          /\ st[0] = a /\ st[N] = b /\ su[0] = b /\ su[Len(q)] = c
          /\ \A k \in 1..N : Allowed(n, before, st[k - 1], p[k]) /\ st[k] = Effect(n, st[k - 1], p[k])
          /\ \A k \in 1..Len(q) : Allowed(n, before, su[k - 1], q[k]) /\ su[k] = Effect(n, su[k - 1], q[k])
      BY <2>1, <2>2 DEF IsRun
    <2> HIDE DEF r, N
    <2>5. sv \in [0..Len(r) -> AState]
      <3>1. ASSUME NEW k \in 0..Len(r) PROVE (IF k <= N THEN st[k] ELSE su[k - N]) \in AState
        <4>1. CASE k <= N
          <5>1. k \in 0..N
            BY <2>3, <4>1, SMT
          <5> QED
            BY <2>4, <4>1, <5>1
        <4>2. CASE ~(k <= N)
          <5>1. k - N \in 0..Len(q)
            BY <2>3, <4>2, SMT
          <5> QED
            BY <2>4, <4>2, <5>1
        <4> QED
          BY <4>1, <4>2
      <3> QED
        BY <3>1
    <2>6. sv[0] = a
      <3>1. 0 \in 0..Len(r) /\ 0 <= N
        BY <2>3, SMT
      <3> QED
        BY <2>4, <3>1
    <2>7. sv[Len(r)] = c
      BY <2>3, <2>4, SMT
    <2>8. ASSUME NEW k \in 1..Len(r) PROVE Allowed(n, before, sv[k - 1], r[k]) /\ sv[k] = Effect(n, sv[k - 1], r[k])
      <3>1. CASE k <= N
        <4>1. k \in 1..N /\ sv[k] = st[k] /\ sv[k - 1] = st[k - 1] /\ r[k] = p[k]
          BY <2>3, <3>1, SMT
        <4> QED
          BY <2>4, <4>1
      <3>2. CASE ~(k <= N)
        <4>1. k - N \in 1..Len(q) /\ r[k] = q[k - N] /\ sv[k] = su[k - N]
          BY <2>3, <3>2, SMT
        <4>2. sv[k - 1] = su[(k - N) - 1]
          <5>1. k - 1 \in 0..Len(r) /\ (k - 1) - N = (k - N) - 1 /\ (k - 1 <= N => k - 1 = N /\ (k - N) - 1 = 0)
            BY <2>3, <3>2, SMT
          <5>2. sv[k - 1] = IF k - 1 <= N THEN st[k - 1] ELSE su[(k - 1) - N]
            BY <5>1
          <5>3. st[N] = su[0]
            BY <2>4
          <5> HIDE DEF sv
          <5> QED
            BY <5>1, <5>2, <5>3
        <4> QED
          BY <2>4, <4>1, <4>2
      <3> QED
        BY <3>1, <3>2
    <2> HIDE DEF sv
    <2>9. IsRun(sv, n, before, a, r, c)
      BY <2>5, <2>6, <2>7, <2>8 DEF IsRun
    <2> QED
      BY <2>3, <2>9 DEF Runs, r
  <1>StepSilent. ASSUME NEW n, NEW before, NEW a \in AState, NEW i, i.act \in {"cache_drop", "cache_rename", "added", "hook_out"}
                 PROVE  Runs(n, before, a, <<i>>, a)
    <2> USE <1>StepSilent
    <2>1. Allowed(n, before, a, i)
      BY DEF Allowed, Careful, Commits, Begins
    <2>2. Effect(n, a, i) = a
      <3> DEFINE b == Effect(n, a, i)
      <3>1. b.tgt = a.tgt /\ b.tmp = a.tmp /\ b.bak = a.bak
        BY SilentFacts, SMT DEF Silent
      <3>2. b.tx = a.tx /\ b.open = a.open
        BY DEF Effect, Commits, Begins, AState
      <3>3. b \in AState
        BY EffectType
      <3> HIDE DEF b
      <3>4. b = a
        BY <3>1, <3>2, <3>3, SMT DEF AState
      <3> QED
        BY <3>4 DEF b
    <2> QED
      BY <2>1, <2>2, <1>RunsOne
  <1>StepBegins. ASSUME NEW n, NEW before, NEW a, NEW T, Stage(n, a, T), NEW i, NEW U, Moves(n, T, i, U)
                 PROVE  \E b : Moved(n, before, a, i, <<i>>, U, b)
    <2> USE <1>StepBegins
    <2> DEFINE b == Effect(n, a, i)
    <2>1. /\ Own(n) = {Target(n), Tmp(n), Backup(n)}
          /\ Target(n) # Tmp(n) /\ Target(n) # Backup(n) /\ Tmp(n) # Backup(n)
      BY OwnFacts
    <2>2. a \in AState /\ i.act \notin Commits /\ i.act # "drop"
      BY DEF Stage, Moves, Commits, Begins
    <2>3. Allowed(n, before, a, i)
      <3>1. NeverBegins(n) \/ Careful(n, before, a, i)
        BY <2>1, <2>2 DEF Careful, Stage, Moves
      <3>2. i.act = "rename" => <<i.name, i.to>> \in {<<Target(n), Backup(n)>>, <<Tmp(n), Target(n)>>}
        BY DEF Moves
      <3> QED
        BY <2>2, <3>1, <3>2 DEF Allowed, Moves
    <2>4. b \in AState /\ b.tx = (IF ~a.open THEN "in" ELSE a.tx)
      <3>1. b \in AState /\ ByStatement(n, a, i, b, Effect(n, In(a), i))
        BY <2>2, EffectType, EffectTx
      <3> HIDE DEF b
      <3> QED
        BY <3>1 DEF ByStatement, Moves
    <2>5. b.tx = "in" \/ NeverBegins(n)
      <3> HIDE DEF b
      <3> QED
        BY <2>4 DEF Stage
    <2>6. NeverBegins(n) \/ b.tgt \in U
      <3> SUFFICES ASSUME a.tgt \in T PROVE b.tgt \in U
        BY DEF Stage
      <3> QED
        BY <2>1 DEF Effect, Commits, Moves
    <2>7. i.act # "rename" => b.bak = a.bak /\ (i.act # "create" => b.tmp = a.tmp)
      BY <2>2 DEF Effect
    <2>8. i.act = "rename" /\ i.name = Tmp(n) => b.tmp = "none" /\ b.bak = a.bak
      BY <2>1 DEF Effect, Moves
    <2>9. Runs(n, before, a, <<i>>, b)
      BY <2>2, <2>3, <1>RunsOne
    <2> HIDE DEF b
    <2>10. Moved(n, before, a, i, <<i>>, U, b)
      BY <2>4, <2>5, <2>6, <2>7, <2>8, <2>9 DEF Stage, Moved
    <2> QED
      BY <2>10
  <1>StepCommit. ASSUME NEW n, NEW before, NEW a \in AState, NEW i, i.act \in Commits, NeverBegins(n) \/ a.tgt \in {"same", "built"}
                 PROVE  \E b : Committed(n, before, a, <<i>>, a.open /\ i.act = "sql_commit", b)
    <2> USE <1>StepCommit
    <2>1. Allowed(n, before, a, i)
      BY DEF Allowed, Careful, Commits, Begins
    <2> DEFINE b == Effect(n, a, i)
    <2>2. b \in AState /\ ByCommit(a, i, b) /\ Runs(n, before, a, <<i>>, b)
      BY <2>1, EffectType, EffectTx, <1>RunsOne
    <2> HIDE DEF b
    <2>3. Committed(n, before, a, <<i>>, a.open /\ i.act = "sql_commit", b)
      BY <2>2 DEF ByCommit, Committed, Kept
    <2> QED
      BY <2>3
  <1>PairIs. ASSUME NEW i, NEW j PROVE <<i, j>> = <<i>> \o <<j>>
    <2> USE <1>PairIs
    <2> DEFINE p == <<i>>
               q == <<j>>
               r == p \o q
    <2>1. IsSeq(p) /\ IsSeq(q) /\ Len(p) = 1 /\ Len(q) = 1 /\ p[1] = i /\ q[1] = j
      BY <1>TupleFacts
    <2> HIDE DEF p, q
    <2>2. /\ IsSeq(r) /\ Len(r) = Len(p) + Len(q)
          /\ \A k \in 1..(Len(p) + Len(q)) : r[k] = IF k <= Len(p) THEN p[k] ELSE q[k - Len(p)]
      BY <2>1, <1>ConcatFacts
    <2> HIDE DEF r
    <2>3. Len(r) = 2 /\ r[1] = i /\ r[2] = j
      BY <2>1, <2>2, SMT
    <2> HIDE DEF r
    <2>4. r = <<i, j>>
      <3>1. r \in Seq(Range(r))
        BY <2>2 DEF IsSeq
      <3>2. r = [k \in 1..2 |-> r[k]]
        BY <2>3, <3>1, SMT
      <3> QED
        BY <2>3, <3>2, SMT
    <2> QED
      BY <2>4 DEF r, p, q
  <1>RunsDrop. ASSUME NEW n, NEW before, NEW a \in AState, NEW x \in Own(n), NEW type,
                      NeverBegins(n) \/ (a.tgt = "same" /\ (x = Target(n) => a.tx = "in" \/ before))
               PROVE  \E b : Dropped(n, before, a, x, drop_relation(x, type), b)
    <2> USE <1>RunsDrop
    <2> DEFINE i == Do("cache_drop", x, None, type)
               j == Do("drop", x, None, type)
               b == Effect(n, a, j)
    <2>1. Runs(n, before, a, <<i>>, a)
      BY <1>StepSilent, SMT DEF Do
    <2>2. j.act = "drop" /\ j.name = x
      BY DEF Do
    <2>3. drop_relation(x, type) = <<i>> \o <<j>>
      BY <1>PairIs DEF drop_relation
    <2> HIDE DEF i, j
    <2>4. Allowed(n, before, a, j)
      BY <2>2 DEF Allowed, Careful, Commits, Begins
    <2>5. Runs(n, before, a, <<j>>, b) /\ b \in AState
      BY <2>4, <1>RunsOne, EffectType
    <2>6. b.tx = a.tx /\ b.open = a.open
      BY <2>2 DEF Effect, Commits, Begins, AState
    <2>7. /\ b.tmp = (IF x = Tmp(n) THEN "none" ELSE a.tmp)
          /\ b.bak = (IF x = Backup(n) THEN "none" ELSE a.bak)
          /\ b.tgt = a.tgt \/ (x = Target(n) /\ b.tgt = "gone")
      BY <2>2 DEF Effect, Commits
    <2> HIDE DEF b
    <2>8. Runs(n, before, a, drop_relation(x, type), b)
      BY <2>1, <2>3, <2>5, <1>RunsConcat
    <2>9. Dropped(n, before, a, x, drop_relation(x, type), b)
      BY <2>5, <2>6, <2>7, <2>8 DEF Dropped
    <2> QED
      BY <2>9
  <1>RunsRename. ASSUME NEW n, NEW before, NEW a, NEW T, Stage(n, a, T), NEW x, NEW y, NEW type, NEW U,
                        Moves(n, T, Do("rename", x, y, type), U)
                 PROVE  \E b : Moved(n, before, a, Do("rename", x, y, type), rename_relation(x, y, type), U, b)
    <2> USE <1>RunsRename
    <2> DEFINE i == Do("cache_rename", x, y, type)
               j == Do("rename", x, y, type)
    <2>1. PICK b : Moved(n, before, a, j, <<j>>, U, b)
      BY <1>StepBegins
    <2>2. Runs(n, before, a, <<i>>, a)
      BY <1>StepSilent, SMT DEF Do, Stage
    <2>3. rename_relation(x, y, type) = <<i>> \o <<j>>
      BY <1>PairIs DEF rename_relation
    <2> HIDE DEF i, j
    <2>4. Runs(n, before, a, rename_relation(x, y, type), b)
      BY <2>1, <2>2, <2>3, <1>RunsConcat DEF Moved
    <2>5. Moved(n, before, a, j, rename_relation(x, y, type), U, b)
      BY <2>1, <2>4 DEF Moved
    <2> QED
      BY <2>5 DEF j
  <1>RenameMoves. ASSUME NEW n, NEW type
                  PROVE  /\ Moves(n, {"same"}, Do("rename", Target(n), Backup(n), type), {"gone"})
                         /\ Moves(n, {"same"}, Do("rename", Tmp(n), Target(n), type), {"built"})
                         /\ Moves(n, {"gone"}, Do("rename", Tmp(n), Target(n), type), {"built"})
                         /\ Do("rename", Tmp(n), Target(n), type).act = "rename" /\ Do("rename", Tmp(n), Target(n), type).name = Tmp(n)
    <2> USE <1>RenameMoves
    <2>1. ASSUME NEW x, NEW y
          PROVE  LET i == Do("rename", x, y, type) IN i.act = "rename" /\ i.act \in Begins /\ i.name = x /\ i.to = y
      BY SMT DEF Do, Begins
    <2>2. ASSUME NEW i, i.act = "rename", i.act \in Begins, i.name = Target(n), i.to = Backup(n)
          PROVE  Moves(n, {"same"}, i, {"gone"})
      BY <2>2 DEF Moves
    <2>3. ASSUME NEW i, i.act = "rename", i.act \in Begins, i.name = Tmp(n), i.to = Target(n)
          PROVE  Moves(n, {"same"}, i, {"built"}) /\ Moves(n, {"gone"}, i, {"built"})
      BY <2>3 DEF Moves
    <2> DEFINE i == Do("rename", Target(n), Backup(n), type)
               j == Do("rename", Tmp(n), Target(n), type)
    <2>4. i.act = "rename" /\ i.act \in Begins /\ i.name = Target(n) /\ i.to = Backup(n)
      BY <2>1
    <2>5. j.act = "rename" /\ j.act \in Begins /\ j.name = Tmp(n) /\ j.to = Target(n)
      BY <2>1
    <2> HIDE DEF i, j
    <2>6. Moves(n, {"same"}, i, {"gone"}) /\ Moves(n, {"same"}, j, {"built"}) /\ Moves(n, {"gone"}, j, {"built"})
      BY <2>2, <2>3, <2>4, <2>5
    <2> QED
      BY <2>5, <2>6 DEF i, j
  \* The new relation takes the place of the old one.
  <1>RunsSwap. ASSUME NEW n, NEW before, NEW a, Stage(n, a, {"same"}), NEW old, NEW type
               PROVE  \E b : Runs(n, before, a, Swap(n, old, type), b) /\ Stage(n, b, {"built"}) /\ b.tmp = "none"
    <2> USE <1>RunsSwap
    <2> DEFINE p == IF old = None THEN <<>> ELSE rename_relation(Target(n), Backup(n), old)
               q == rename_relation(Tmp(n), Target(n), type)
               i == Do("rename", Tmp(n), Target(n), type)
    <2>1. Swap(n, old, type) = p \o q
      BY DEF Swap
    <2>2. Moves(n, {"same"}, i, {"built"}) /\ Moves(n, {"gone"}, i, {"built"}) /\ i.act = "rename" /\ i.name = Tmp(n)
      BY <1>RenameMoves
    <2>3. ASSUME NEW c, NEW T \in {{"same"}, {"gone"}}, Stage(n, c, T)
          PROVE  \E b : Runs(n, before, c, q, b) /\ Stage(n, b, {"built"}) /\ b.tmp = "none" /\ b.bak = c.bak
      <3>0. Moves(n, T, i, {"built"})
        BY <2>2, <2>3
      <3>1. PICK b : Moved(n, before, c, i, q, {"built"}, b)
        BY <2>3, <3>0, <1>RunsRename
      <3> HIDE DEF i
      <3> QED
        BY <2>2, <3>1 DEF Moved
    <2> HIDE DEF i
    <2>4. CASE old = None
      <3>1. Runs(n, before, a, p, a)
        BY <2>4, RunsNone DEF Stage
      <3> HIDE DEF p, q
      <3>2. PICK b : Runs(n, before, a, q, b) /\ Stage(n, b, {"built"}) /\ b.tmp = "none" /\ b.bak = a.bak
        BY <2>3
      <3> QED
        BY <2>1, <3>1, <3>2, <1>RunsConcat
    <2>5. CASE old # None
      <3> DEFINE j == Do("rename", Target(n), Backup(n), old)
      <3>1. Moves(n, {"same"}, j, {"gone"})
        BY <1>RenameMoves
      <3>2. PICK c : Moved(n, before, a, j, rename_relation(Target(n), Backup(n), old), {"gone"}, c)
        BY <3>1, <1>RunsRename
      <3>3. Runs(n, before, a, p, c) /\ Stage(n, c, {"gone"})
        BY <2>5, <3>2 DEF Moved
      <3> HIDE DEF p, q
      <3>4. PICK b : Runs(n, before, c, q, b) /\ Stage(n, b, {"built"}) /\ b.tmp = "none" /\ b.bak = c.bak
        BY <2>3, <3>3
      <3> QED
        BY <2>1, <2>5, <3>3, <3>4, <1>RunsConcat
    <2> QED
      BY <2>4, <2>5
  <1>HooksAre. ASSUME NEW n, NEW hook
               PROVE  /\ hook \notin Hooks[n] => run_hooks(n, hook) = <<>>
                      /\ hook \in Hooks[n] /\ hook \in {"pre_in", "post_in"} => run_hooks(n, hook) = <<Do("hook_in", None, None, None)>>
                      /\ hook \in Hooks[n] /\ hook \in {"pre_out", "post_out"} =>
                           run_hooks(n, hook) = <<Do("sql_commit", None, None, None)>> \o <<Do("hook_out", None, None, None)>>
    BY <1>HooksAre, <1>PairIs, SMT DEF run_hooks
  <1>RunsHooksOut. ASSUME NEW n, NEW before, NEW a \in AState, NEW hook \in {"pre_out", "post_out"}, hook \in Hooks[n],
                          NeverBegins(n) \/ a.tgt \in {"same", "built"}
                   PROVE  \E b : Committed(n, before, a, run_hooks(n, hook), a.open, b)
    <2> USE <1>RunsHooksOut
    <2> DEFINE i == Do("sql_commit", None, None, None)
               j == Do("hook_out", None, None, None)
    <2>1. i.act = "sql_commit" /\ i.act \in Commits /\ j.act = "hook_out"
      BY DEF Do, Commits
    <2>2. run_hooks(n, hook) = <<i>> \o <<j>>
      BY <1>HooksAre
    <2> HIDE DEF i, j
    <2>3. PICK b : Committed(n, before, a, <<i>>, a.open /\ i.act = "sql_commit", b)
      BY <2>1, <1>StepCommit
    <2>4. Runs(n, before, b, <<j>>, b)
      BY <2>1, <2>3, <1>StepSilent, SMT DEF Committed
    <2>5. Runs(n, before, a, run_hooks(n, hook), b)
      BY <2>2, <2>3, <2>4, <1>RunsConcat DEF Committed
    <2>6. Committed(n, before, a, run_hooks(n, hook), a.open, b)
      BY <2>1, <2>3, <2>5 DEF AState, Committed
    <2> QED
      BY <2>6
  <1>RunsPreOut. ASSUME NEW n, NEW before, NEW a, Begun(n, a)
                 PROVE  \E b : /\ HooksRun(n, before, a, {"same"}, run_hooks(n, "pre_out"), b)
                               /\ "pre_out" \notin Hooks[n] => b = a
    <2> USE <1>RunsPreOut
    <2>1. CASE "pre_out" \in Hooks[n]
      <3>1. a \in AState /\ (NeverBegins(n) \/ a.tgt \in {"same", "built"})
        BY DEF Begun, Stage
      <3>2. PICK b : Committed(n, before, a, run_hooks(n, "pre_out"), a.open, b)
        BY <2>1, <3>1, <1>RunsHooksOut
      <3>3. HooksRun(n, before, a, {"same"}, run_hooks(n, "pre_out"), b)
        BY <2>1, <3>2 DEF Stage, Begun, NeverBegins, HooksRun, Committed
      <3> QED
        BY <2>1, <3>3
    <2>2. CASE "pre_out" \notin Hooks[n]
      BY <2>2, <1>HooksAre, RunsNone DEF Begun, Stage, HooksRun, Kept
    <2> QED
      BY <2>1, <2>2
  <1>RunsHooksIn. ASSUME NEW n, NEW before, NEW a, NEW T, Stage(n, a, T), NEW hook \in {"pre_in", "post_in"}
                  PROVE  \E b : /\ HooksRun(n, before, a, T, run_hooks(n, hook), b)
                                /\ a.tx = "in" \/ hook \in Hooks[n] => b.tx = "in" \/ NeverBegins(n)
    <2> USE <1>RunsHooksIn
    <2>1. CASE hook \in Hooks[n]
      <3> DEFINE i == Do("hook_in", None, None, None)
      <3>1. i.act = "hook_in" /\ Moves(n, T, i, T)
        BY DEF Do, Moves, Begins
      <3>2. run_hooks(n, hook) = <<i>>
        BY <2>1, <1>HooksAre
      <3> HIDE DEF i
      <3>3. PICK b : Moved(n, before, a, i, <<i>>, T, b)
        BY <3>1, <1>StepBegins
      <3> QED
        BY <3>1, <3>2, <3>3 DEF Moved, HooksRun, Kept
    <2>2. CASE hook \notin Hooks[n]
      BY <2>2, <1>HooksAre, RunsNone DEF Stage, HooksRun, Kept
    <2> QED
      BY <2>1, <2>2
  <1>RunsEnd. ASSUME NEW n, NEW before, NEW a, Stage(n, a, {"built"})
              PROVE  \E b : EndRuns(n, before, a, End(n), b)
    <2> USE <1>RunsEnd
    <2> DEFINE i == Do("commit", None, None, None)
               p == run_hooks(n, "post_in")
    <2>1. PICK c : HooksRun(n, before, a, {"built"}, p, c)
      BY <1>RunsHooksIn
    <2>2. i.act = "commit" /\ i.act \in Commits
      BY DEF Do, Commits
    <2>3. End(n) = p \o <<i>>
      BY DEF End
    <2> HIDE DEF i, p
    <2>4. c \in AState /\ (NeverBegins(n) \/ c.tgt \in {"same", "built"})
      BY <2>1 DEF Stage, HooksRun
    <2>5. PICK b : Committed(n, before, c, <<i>>, c.open /\ i.act = "sql_commit", b)
      BY <2>2, <2>4, <1>StepCommit
    <2>6. Runs(n, before, a, End(n), b)
      BY <2>1, <2>3, <2>5, <1>RunsConcat DEF HooksRun, Committed
    <2>7. EndRuns(n, before, a, End(n), b)
      BY <2>1, <2>5, <2>6 DEF Ended, EndRuns, Committed, Kept, HooksRun
    <2> QED
      BY <2>7
  <1>RunsPostOut. ASSUME NEW n, NEW before, NEW a, Ended(n, a)
                  PROVE  \E b : EndRuns(n, before, a, run_hooks(n, "post_out"), b)
    <2> USE <1>RunsPostOut
    <2>1. CASE "post_out" \in Hooks[n]
      <3>1. a \in AState /\ (NeverBegins(n) \/ a.tgt \in {"same", "built"})
        BY DEF Ended
      <3>2. PICK b : Committed(n, before, a, run_hooks(n, "post_out"), a.open, b)
        BY <2>1, <3>1, <1>RunsHooksOut
      <3>3. EndRuns(n, before, a, run_hooks(n, "post_out"), b)
        BY <3>2 DEF EndRuns, Ended, Committed
      <3> QED
        BY <3>3
    <2>2. CASE "post_out" \notin Hooks[n]
      <3>1. EndRuns(n, before, a, run_hooks(n, "post_out"), a)
        BY <2>2, <1>HooksAre, RunsNone DEF Ended, EndRuns, Kept
      <3> QED
        BY <3>1
    <2> QED
      BY <2>1, <2>2
  <1>RunsAdded. ASSUME NEW n, NEW before, NEW a, Ended(n, a), NEW type
                PROVE  Runs(n, before, a, Added(n, type), a)
    BY <1>RunsAdded, <1>StepSilent, SMT DEF Ended, Added, Do
  \* A temporary relation or a backup is dropped, before the transaction or after it.
  <1>RunsDropOther. ASSUME NEW n, NEW before, NEW a, NEW x \in {Tmp(n), Backup(n)}, NEW type, Begun(n, a) \/ Stage(n, a, {"same"}) \/ Ended(n, a)
                    PROVE  \E b : /\ Dropped(n, before, a, x, drop_relation(x, type), b)
                                  /\ Begun(n, a) => Begun(n, b)
                                  /\ Stage(n, a, {"same"}) => Stage(n, b, {"same"})
                                  /\ Ended(n, a) => Ended(n, b)
    <2> USE <1>RunsDropOther
    <2>1. x \in Own(n) /\ x # Target(n)
      BY OwnFacts
    <2>2. a \in AState /\ (NeverBegins(n) \/ a.tgt = "same")
      BY DEF Begun, Stage, Ended
    <2>3. PICK b : Dropped(n, before, a, x, drop_relation(x, type), b)
      BY <2>1, <2>2, <1>RunsDrop
    <2>4. /\ Begun(n, a) => Begun(n, b)
          /\ Stage(n, a, {"same"}) => Stage(n, b, {"same"})
          /\ Ended(n, a) => Ended(n, b)
      BY <2>1, <2>3 DEF Begun, Stage, Ended, Dropped
    <2> QED
      BY <2>3, <2>4
  \* The temporary relation is created and takes the place of the old one.
  <1>RunsBuild. ASSUME NEW n, NEW before, NEW z, NEW p, NEW a, Runs(n, before, z, p, a), Stage(n, a, {"same"}), NEW old, NEW type
                PROVE  \E b : /\ Runs(n, before, z, p \o <<Do("create", Tmp(n), None, type)>> \o Swap(n, old, type), b)
                              /\ Stage(n, b, {"built"}) /\ b.tmp = "none"
    <2> USE <1>RunsBuild
    <2> DEFINE i == Do("create", Tmp(n), None, type)
    <2>1. Moves(n, {"same"}, i, {"same"})
      BY DEF Moves, Do, Begins
    <2>2. PICK c : Moved(n, before, a, i, <<i>>, {"same"}, c)
      BY <2>1, <1>StepBegins
    <2>3. PICK b : Runs(n, before, c, Swap(n, old, type), b) /\ Stage(n, b, {"built"}) /\ b.tmp = "none"
      <3>1. Stage(n, c, {"same"})
        BY <2>2 DEF Moved
      <3> QED
        BY <3>1, <1>RunsSwap
    <2>4. Runs(n, before, z, p \o <<i>>, c)
      BY <2>2, <1>RunsConcat DEF Moved
    <2> QED
      BY <2>3, <2>4, <1>RunsConcat
  \* The last hooks.
  <1>RunsLast. ASSUME NEW n, NEW before, NEW z, NEW p, NEW a, Runs(n, before, z, p, a), Ended(n, a), NEW k, NEW type,
                      k \in {"table", "view"} => a.tmp = "none" /\ a.bak = "none"
               PROVE  Safe(n, before, z, p \o run_hooks(n, "post_out") \o Added(n, type), k)
    <2> USE <1>RunsLast
    <2>1. PICK b : EndRuns(n, before, a, run_hooks(n, "post_out"), b)
      BY <1>RunsPostOut
    <2>2. Runs(n, before, b, Added(n, type), b)
      BY <2>1, <1>RunsAdded DEF EndRuns
    <2>3. b \in AState /\ Final(k, b)
      BY <2>1 DEF Final, Ended, EndRuns, Kept
    <2>4. Runs(n, before, z, p \o run_hooks(n, "post_out"), b)
      BY <2>1, <1>RunsConcat DEF EndRuns
    <2>5. Runs(n, before, z, p \o run_hooks(n, "post_out") \o Added(n, type), b)
      BY <2>2, <2>4, <1>RunsConcat
    <2> QED
      BY <2>3, <2>5 DEF Safe
  \* The commit, the drop of the backup and the last hooks.
  <1>RunsRest. ASSUME NEW n, NEW before, NEW z, NEW p, NEW a, Runs(n, before, z, p, a), Stage(n, a, {"built"}), NEW k, NEW type, NEW other,
                      k \in {"table", "view"} => a.tmp = "none"
               PROVE  Safe(n, before, z, p \o End(n) \o drop_relation(Backup(n), other) \o run_hooks(n, "post_out") \o Added(n, type), k)
    <2> USE <1>RunsRest
    <2>1. PICK c : EndRuns(n, before, a, End(n), c)
      BY <1>RunsEnd
    <2>2. Ended(n, c) /\ c.tmp = a.tmp
      BY <2>1 DEF EndRuns, Kept
    <2>3. PICK e : Dropped(n, before, c, Backup(n), drop_relation(Backup(n), other), e) /\ Ended(n, e)
      BY <2>2, <1>RunsDropOther
    <2>4. k \in {"table", "view"} => e.tmp = "none" /\ e.bak = "none"
      BY <2>2, <2>3, OwnFacts DEF Dropped
    <2>5. Runs(n, before, z, p \o End(n), c)
      BY <2>1, <1>RunsConcat DEF EndRuns
    <2>6. Runs(n, before, z, p \o End(n) \o drop_relation(Backup(n), other), e)
      BY <2>3, <2>5, <1>RunsConcat DEF Dropped
    <2> QED
      BY <2>3, <2>4, <2>6, <1>RunsLast
  <1>RunsTable. ASSUME NEW n, NEW before, NEW a, Begun(n, a), NEW old, NEW full
                PROVE  Safe(n, before, a, materialization_table(n, old, full), "table")
    <2> USE <1>RunsTable
    <2> DEFINE other == IF old = None THEN "table" ELSE old
               p1 == drop_relation(Tmp(n), "table")
               p2 == drop_relation(Backup(n), other)
               p3 == run_hooks(n, "pre_out")
               p4 == run_hooks(n, "pre_in")
               p5 == <<Do("create", Tmp(n), None, "table")>>
               p6 == Swap(n, old, "table")
               last == run_hooks(n, "post_out")
    <2>1. materialization_table(n, old, full) = p1 \o p2 \o p3 \o p4 \o p5 \o p6 \o End(n) \o p2 \o last \o Added(n, "table")
      BY DEF materialization_table
    <2>2. PICK a1 : Runs(n, before, a, p1, a1) /\ Begun(n, a1)
      BY <1>RunsDropOther DEF Dropped
    <2>3. PICK a2 : Runs(n, before, a1, p2, a2) /\ Begun(n, a2)
      BY <2>2, <1>RunsDropOther DEF Dropped
    <2>4. PICK a3 : HooksRun(n, before, a2, {"same"}, p3, a3)
      BY <2>3, <1>RunsPreOut
    <2>5. PICK a4 : HooksRun(n, before, a3, {"same"}, p4, a4)
      BY <2>4, <1>RunsHooksIn DEF HooksRun
    <2> HIDE DEF p1, p2, p3, p4
    <2>6. Runs(n, before, a, p1 \o p2, a2)
      BY <2>2, <2>3, <1>RunsConcat
    <2>7. Runs(n, before, a, p1 \o p2 \o p3, a3)
      BY <2>4, <2>6, <1>RunsConcat DEF HooksRun
    <2>8. Runs(n, before, a, p1 \o p2 \o p3 \o p4, a4) /\ Stage(n, a4, {"same"})
      BY <2>5, <2>7, <1>RunsConcat DEF HooksRun
    <2>9. PICK b : Runs(n, before, a, p1 \o p2 \o p3 \o p4 \o p5 \o p6, b) /\ Stage(n, b, {"built"}) /\ b.tmp = "none"
      BY <2>8, <1>RunsBuild
    <2> HIDE DEF p5, p6, other
    <2> DEFINE q == p1 \o p2 \o p3 \o p4 \o p5 \o p6
    <2> HIDE DEF q
    <2>10. Safe(n, before, a, q \o End(n) \o drop_relation(Backup(n), other) \o last \o Added(n, "table"), "table")
      BY <2>9, <1>RunsRest DEF q
    <2> QED
      BY <2>1, <2>10 DEF q, p2
  <1>RunsView. ASSUME NEW n, NEW before, NEW a, Begun(n, a), NEW old, NEW full
               PROVE  Safe(n, before, a, materialization_view(n, old, full), "view")
    <2> USE <1>RunsView
    <2> DEFINE other == IF old = None THEN "view" ELSE old
               p1 == run_hooks(n, "pre_out")
               p2 == drop_relation(Tmp(n), "view")
               p3 == drop_relation(Backup(n), other)
               p4 == run_hooks(n, "pre_in")
               p5 == <<Do("create", Tmp(n), None, "view")>>
               p6 == Swap(n, old, "view")
               last == run_hooks(n, "post_out")
    <2>1. materialization_view(n, old, full) = p1 \o p2 \o p3 \o p4 \o p5 \o p6 \o End(n) \o p3 \o last \o Added(n, "view")
      BY DEF materialization_view
    <2>2. PICK a1 : HooksRun(n, before, a, {"same"}, p1, a1)
      BY <1>RunsPreOut
    <2>3. PICK a2 : Runs(n, before, a1, p2, a2) /\ Stage(n, a2, {"same"})
      BY <2>2, <1>RunsDropOther DEF Dropped, HooksRun
    <2>4. PICK a3 : Runs(n, before, a2, p3, a3) /\ Stage(n, a3, {"same"})
      BY <2>3, <1>RunsDropOther DEF Dropped
    <2>5. PICK a4 : HooksRun(n, before, a3, {"same"}, p4, a4)
      BY <2>4, <1>RunsHooksIn
    <2> HIDE DEF p1, p2, p3, p4
    <2>6. Runs(n, before, a, p1 \o p2, a2)
      BY <2>2, <2>3, <1>RunsConcat DEF HooksRun
    <2>7. Runs(n, before, a, p1 \o p2 \o p3, a3)
      BY <2>4, <2>6, <1>RunsConcat
    <2>8. Runs(n, before, a, p1 \o p2 \o p3 \o p4, a4) /\ Stage(n, a4, {"same"})
      BY <2>5, <2>7, <1>RunsConcat DEF HooksRun
    <2>9. PICK b : Runs(n, before, a, p1 \o p2 \o p3 \o p4 \o p5 \o p6, b) /\ Stage(n, b, {"built"}) /\ b.tmp = "none"
      BY <2>8, <1>RunsBuild
    <2> HIDE DEF p5, p6, other
    <2> DEFINE q == p1 \o p2 \o p3 \o p4 \o p5 \o p6
    <2> HIDE DEF q
    <2>10. Safe(n, before, a, q \o End(n) \o drop_relation(Backup(n), other) \o last \o Added(n, "view"), "view")
      BY <2>9, <1>RunsRest DEF q
    <2> QED
      BY <2>1, <2>10 DEF q, p3
  \* One statement that begins a transaction, after p.
  <1>RunsThen. ASSUME NEW n, NEW before, NEW z, NEW p, NEW a, Runs(n, before, z, p, a), NEW T, Stage(n, a, T), NEW i, NEW U, Moves(n, T, i, U)
               PROVE  \E b : Runs(n, before, z, p \o <<i>>, b) /\ Stage(n, b, U)
    <2> USE <1>RunsThen
    <2>1. PICK b : Moved(n, before, a, i, <<i>>, U, b)
      BY <1>StepBegins
    <2> QED
      BY <2>1, <1>RunsConcat DEF Moved
  \* The hooks that come first.
  <1>RunsFirst. ASSUME NEW n, NEW before, NEW a, Begun(n, a), a.tx = "in"
                PROVE  \E b : /\ Runs(n, before, a, run_hooks(n, "pre_out") \o run_hooks(n, "pre_in"), b) /\ Stage(n, b, {"same"})
                              /\ b.tx = "in" \/ NeverBegins(n) \/ ("pre_out" \in Hooks[n] /\ "pre_in" \notin Hooks[n])
    <2> USE <1>RunsFirst
    <2>1. PICK c : /\ HooksRun(n, before, a, {"same"}, run_hooks(n, "pre_out"), c)
                   /\ "pre_out" \notin Hooks[n] => c = a
      BY <1>RunsPreOut, SMT
    <2>2. Stage(n, c, {"same"})
      BY <2>1 DEF HooksRun
    <2>3. PICK b : /\ HooksRun(n, before, c, {"same"}, run_hooks(n, "pre_in"), b)
                   /\ c.tx = "in" \/ "pre_in" \in Hooks[n] => b.tx = "in" \/ NeverBegins(n)
      BY <2>2, <1>RunsHooksIn
    <2>4. Runs(n, before, a, run_hooks(n, "pre_out") \o run_hooks(n, "pre_in"), b)
      BY <2>1, <2>3, <1>RunsConcat DEF HooksRun
    <2> QED
      BY <2>1, <2>3, <2>4 DEF HooksRun
  <1>RunsIncremental. ASSUME NEW n, NEW before, NEW a, Begun(n, a), a.tx = "in", NEW old, NEW full
                      PROVE  Safe(n, before, a, materialization_incremental(n, old, full), "incremental")
    <2> USE <1>RunsIncremental
    <2> DEFINE p == run_hooks(n, "pre_out") \o run_hooks(n, "pre_in")
               i == Do("create", Target(n), None, "table")
               j == Do("upsert", Target(n), None, None)
               d1 == drop_relation(Tmp(n), old)
               d2 == drop_relation(Backup(n), old)
               build == d1 \o d2 \o <<Do("create", Tmp(n), None, "table")>> \o Swap(n, old, "table")
               body == IF old = None THEN <<i>> ELSE IF old = "view" \/ full THEN build ELSE <<j>>
               drops == IF old = None \/ (old = "table" /\ ~full) THEN <<>> ELSE d2
               last == run_hooks(n, "post_out")
    <2>1. materialization_incremental(n, old, full) = p \o body \o End(n) \o drops \o last \o Added(n, "table")
      BY DEF materialization_incremental
    <2>2. PICK c : Runs(n, before, a, p, c) /\ Stage(n, c, {"same"})
      BY <1>RunsFirst
    <2>3. Moves(n, {"same"}, i, {"built"}) /\ Moves(n, {"same"}, j, {"built"})
      BY DEF Moves, Do, Begins
    <2>4. \E b : Runs(n, before, c, build, b) /\ Stage(n, b, {"built"})
      <3>1. PICK c1 : Runs(n, before, c, d1, c1) /\ Stage(n, c1, {"same"})
        BY <2>2, <1>RunsDropOther DEF Dropped
      <3>2. PICK c2 : Runs(n, before, c1, d2, c2) /\ Stage(n, c2, {"same"})
        BY <3>1, <1>RunsDropOther DEF Dropped
      <3> HIDE DEF d1, d2
      <3>3. Runs(n, before, c, d1 \o d2, c2)
        BY <3>1, <3>2, <1>RunsConcat
      <3> QED
        BY <3>2, <3>3, <1>RunsBuild
    <2> HIDE DEF p, i, j, build
    <2>5. \E b : Runs(n, before, a, p \o body, b) /\ Stage(n, b, {"built"})
      <3>1. CASE old = None
        BY <2>2, <2>3, <3>1, <1>RunsThen
      <3>2. CASE old # None /\ (old = "view" \/ full)
        <4>1. body = build
          BY <3>2
        <4> HIDE DEF body
        <4> QED
          BY <2>2, <2>4, <4>1, <1>RunsConcat
      <3>3. CASE old # None /\ ~(old = "view" \/ full)
        BY <2>2, <2>3, <3>3, <1>RunsThen
      <3> QED
        BY <3>1, <3>2, <3>3
    <2>6. PICK b : Runs(n, before, a, p \o body, b) /\ Stage(n, b, {"built"})
      BY <2>5
    <2> DEFINE q == p \o body
    <2> HIDE DEF body, q
    <2>7. CASE drops = <<>>
      <3>1. PICK e : EndRuns(n, before, b, End(n), e)
        BY <2>6, <1>RunsEnd
      <3>2. Runs(n, before, a, q \o End(n), e) /\ Ended(n, e)
        BY <2>6, <3>1, <1>RunsConcat DEF EndRuns, q
      <3>3. Runs(n, before, e, <<>>, e)
        BY <3>2, RunsNone DEF Ended
      <3>4. Runs(n, before, a, q \o End(n) \o <<>>, e)
        BY <3>2, <3>3, <1>RunsConcat
      <3> HIDE DEF drops
      <3>5. Safe(n, before, a, q \o End(n) \o <<>> \o last \o Added(n, "table"), "incremental")
        BY <3>2, <3>4, <1>RunsLast
      <3> QED
        BY <2>1, <2>7, <3>5 DEF q
    <2>8. CASE drops = drop_relation(Backup(n), old)
      <3> HIDE DEF drops
      <3>1. Safe(n, before, a, q \o End(n) \o drop_relation(Backup(n), old) \o last \o Added(n, "table"), "incremental")
        BY <2>6, <1>RunsRest DEF q
      <3> QED
        BY <2>1, <2>8, <3>1 DEF q
    <2> QED
      BY <2>7, <2>8
  <1>RunsSeed. ASSUME NEW n, NEW before, NEW a, Begun(n, a), a.tx = "in", NEW old, NEW full,
                      full /\ "pre_out" \in Hooks[n] /\ "pre_in" \notin Hooks[n] => before
               PROVE  Safe(n, before, a, materialization_seed(n, old, full), "seed")
    <2> USE <1>RunsSeed
    <2> DEFINE p == run_hooks(n, "pre_out") \o run_hooks(n, "pre_in")
               i == Do("create_empty", Target(n), None, "table")
               j == Do("raise", None, None, None)
               k == Do("truncate", Target(n), None, None)
               l == Do("insert", Target(n), None, None)
               d == drop_relation(Target(n), old)
               body == IF old = None THEN <<i>> ELSE IF old = "view" THEN <<j>> ELSE IF full THEN d \o <<i>> ELSE <<k>>
               last == run_hooks(n, "post_out")
    <2>1. materialization_seed(n, old, full) = p \o body \o <<l>> \o End(n) \o last \o Added(n, "table")
      BY DEF materialization_seed
    <2>2. PICK c : /\ Runs(n, before, a, p, c) /\ Stage(n, c, {"same"})
                   /\ c.tx = "in" \/ NeverBegins(n) \/ ("pre_out" \in Hooks[n] /\ "pre_in" \notin Hooks[n])
      BY <1>RunsFirst
    <2>3. /\ Moves(n, {"same"}, i, {"empty"}) /\ Moves(n, {"same", "gone"}, i, {"empty"})
          /\ Moves(n, {"same"}, k, {"empty"}) /\ Moves(n, {"empty"}, l, {"built"})
      BY DEF Moves, Do, Begins
    <2>4. \E b : Runs(n, before, a, p \o <<j>>, b) /\ Stage(n, b, {"empty"})
      <3>1. j.act = "raise"
        BY DEF Do
      <3> HIDE DEF j, p
      <3>2. Allowed(n, before, c, j) /\ c \in AState
        BY <2>2, <3>1 DEF Allowed, Careful, Commits, Begins, Stage
      <3> DEFINE b == Effect(n, c, j)
      <3>3. Runs(n, before, c, <<j>>, b) /\ b \in AState
        BY <3>2, <1>RunsOne, EffectType
      <3>4. b.tgt = "empty" /\ b.tx = c.tx /\ b.open = c.open
        BY <3>1, <3>2 DEF Effect, Commits, Begins, AState
      <3> HIDE DEF b
      <3>5. Stage(n, b, {"empty"})
        BY <2>2, <3>3, <3>4 DEF Stage
      <3> QED
        BY <2>2, <3>3, <3>5, <1>RunsConcat
    <2>5. full => \E b : Runs(n, before, a, p \o (d \o <<i>>), b) /\ Stage(n, b, {"empty"})
      <3> HAVE full
      <3>1. c \in AState /\ Target(n) \in Own(n) /\ (NeverBegins(n) \/ (c.tgt = "same" /\ (c.tx = "in" \/ before)))
        BY <2>2, OwnFacts DEF Stage
      <3>2. PICK e : Dropped(n, before, c, Target(n), d, e)
        BY <3>1, <1>RunsDrop
      <3>3. Runs(n, before, c, d, e) /\ Stage(n, e, {"same", "gone"})
        BY <2>2, <3>2 DEF Dropped, Stage
      <3> HIDE DEF d, i, p
      <3>4. PICK b : Runs(n, before, c, d \o <<i>>, b) /\ Stage(n, b, {"empty"})
        BY <2>3, <3>3, <1>RunsThen
      <3> QED
        BY <2>2, <3>4, <1>RunsConcat
    <2> HIDE DEF p, i, j, k, l, d
    <2>6. \E b : Runs(n, before, a, p \o body, b) /\ Stage(n, b, {"empty"})
      <3>1. CASE old = None
        BY <2>2, <2>3, <3>1, <1>RunsThen
      <3>2. CASE old # None /\ old = "view"
        BY <2>4, <3>2
      <3>3. CASE old # None /\ old # "view" /\ full
        BY <2>5, <3>3
      <3>4. CASE old # None /\ old # "view" /\ ~full
        BY <2>2, <2>3, <3>4, <1>RunsThen
      <3> QED
        BY <3>1, <3>2, <3>3, <3>4
    <2> DEFINE q == p \o body \o <<l>>
    <2>7. PICK b : Runs(n, before, a, q, b) /\ Stage(n, b, {"built"})
      <3> HIDE DEF body
      <3> QED
        BY <2>3, <2>6, <1>RunsThen
    <2> HIDE DEF body, q
    <2>8. PICK e : EndRuns(n, before, b, End(n), e)
      BY <2>7, <1>RunsEnd
    <2>9. Runs(n, before, a, q \o End(n), e) /\ Ended(n, e)
      BY <2>7, <2>8, <1>RunsConcat DEF EndRuns
    <2>10. Safe(n, before, a, q \o End(n) \o last \o Added(n, "table"), "seed")
      BY <2>9, <1>RunsLast
    <2> QED
      BY <2>1, <2>10 DEF q
  <1> SUFFICES ASSUME NEW n, kind[n] \in {"table", "view", "incremental", "seed"},
                      NEW a, Begun(n, a), a.tx = "in", NEW old
               PROVE  Safe(n, DropsBefore(n), a, Program(n, old, run.full), kind[n])
    BY SMT
  <1>1. CASE kind[n] = "table"
    BY <1>1, <1>RunsTable DEF Program
  <1>2. CASE kind[n] = "view"
    BY <1>2, <1>RunsView DEF Program
  <1>3. CASE kind[n] = "incremental"
    BY <1>3, <1>RunsIncremental DEF Program
  <1>4. CASE kind[n] = "seed"
    <2>1. run.full /\ "pre_out" \in Hooks[n] /\ "pre_in" \notin Hooks[n] => DropsBefore(n)
      BY <1>4 DEF DropsBefore
    <2>2. Program(n, old, run.full) = materialization_seed(n, old, run.full)
      BY <1>4 DEF Program
    <2> QED
      BY <1>4, <2>1, <2>2, <1>RunsSeed
  <1> QED
    BY <1>1, <1>2, <1>3, <1>4
=============================================================================
