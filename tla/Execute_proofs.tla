--------------------------- MODULE Execute_proofs ---------------------------
(***************************************************************************)
(* IInv is an inductive invariant of Execute, for any models, hooks and    *)
(* number of threads: a node that succeeds leaves no temporary or backup   *)
(* relation, and the relation of a model is only replaced, by a complete   *)
(* one.                                                                    *)
(*                                                                         *)
(* First what a step of a thread does to what the others see; then each    *)
(* action keeps the invariant, and what is committed under the models'     *)
(* names.                                                                  *)
(***************************************************************************)
EXTENDS ExecuteBase_proofs, FiniteSetTheorems

(* What a thread does to the database, seen by the others *)

\* What the thread of m, which has q pending, sees of its own when the committed
\* database becomes e
ForeignKept(d, e, q, m) ==
    /\ Local(e, q, m)
    /\ \A i \in DOMAIN Applied(e, q) :
         Applied(e, q)[i].name \in Own(m) => i \in DOMAIN Applied(d, q) /\ Applied(e, q)[i] = Applied(d, q)[i]
    /\ \A tgt : TargetIs(d, q, m, tgt) => TargetIs(e, q, m, tgt)

\* The invariants of the other threads and models, when the committed database
\* is e and not db.
Apart(t, ops) == \A u \in Threads \ {t} : Mod(ops) \cap Mod(conn[u].ops) = {}
OthersKept(t, e) ==
    /\ \A u \in Threads \ {t} : Local(e, conn[u].ops, worker[u].node)
    /\ \A u \in Threads \ {t} : \A a : Means(db, conn[u], worker[u].node, a) => Means(e, conn[u], worker[u].node, a)
    /\ \A m \in Models \ {worker[t].node} :
         /\ \A i \in DOMAIN e : e[i].name \in Own(m) => i \in DOMAIN db /\ e[i] = db[i]
         /\ \A x \in Own(m) : Named(e, x) \subseteq Named(db, x)
         /\ Stays(db, e, m)

\* The prover of every leaf that names no other
USE ZenonT(40)

LEMMA OthersKeep ==
    \A t \in Threads : \A ops :
      IInv /\ worker[t] # Idle /\ IsOps(ops) /\ Local(db, ops, worker[t].node) /\ Apart(t, ops) =>
      OthersKept(t, Applied(db, ops)) /\ IsDb(Applied(db, ops))
  <1>ForeignKeeps. ASSUME NEW d, IsDb(d), NEW ops, IsOps(ops), NEW n, Local(d, ops, n),
                          NEW q, IsOps(q), NEW m, n # m, Local(d, q, m), Mod(ops) \cap Mod(q) = {}
                   PROVE  ForeignKept(d, Applied(d, ops), q, m)
    <2> USE <1>ForeignKeeps
    <2> DEFINE e == Applied(d, ops)
    <2>1. /\ Local(e, q, m)
          /\ \A i \in DOMAIN Applied(e, q) :
               Applied(e, q)[i].name \in Own(m) => i \in DOMAIN Applied(d, q) /\ Applied(e, q)[i] = Applied(d, q)[i]
          /\ \A tgt : TargetIs(d, q, m, tgt) => TargetIs(e, q, m, tgt)
      BY Foreign, SMT
    <2> QED
      BY <2>1 DEF ForeignKept
  <1>ForeignMeans. ASSUME NEW d, IsDb(d), NEW ops, IsOps(ops), NEW n, Local(d, ops, n), NEW e, e = Applied(d, ops),
                          NEW c, IsConn(c), NEW m, n # m, Local(d, c.ops, m), Mod(ops) \cap Mod(c.ops) = {},
                          NEW a, Means(d, c, m, a)
                   PROVE  Means(e, c, m, a)
    <2> USE <1>ForeignMeans
    <2> DEFINE s == Applied(d, c.ops)
               r == Applied(e, c.ops)
    <2>1. IsOps(c.ops)
      BY DEF IsConn
    <2>2. /\ \A i \in DOMAIN r : r[i].name \in Own(m) => i \in DOMAIN s /\ r[i] = s[i]
          /\ \A tgt : TargetIs(d, c.ops, m, tgt) => TargetIs(e, c.ops, m, tgt)
      <3>1. ForeignKept(d, e, c.ops, m)
        BY <2>1, <1>ForeignKeeps
      <3> QED
        BY <3>1 DEF ForeignKept
    <2>3. /\ a \in AState /\ a.open = c.open
          /\ IF a.tx = "in" THEN c.server \/ ~c.auto ELSE ~c.server /\ c.auto /\ c.ops = <<>>
          /\ \A x \in Own(m) : AtMostOne(s, x)
          /\ a.tmp = "none" => Named(s, Tmp(m)) = {}
          /\ a.bak = "none" => Named(s, Backup(m)) = {}
          /\ NeverBegins(m) \/ (TargetIs(d, c.ops, m, a.tgt) /\ (a.tgt \in {"gone", "empty"} => a.tx = "in"))
      BY DEF Means
    <2> HIDE DEF s, r
    <2>4. \A x \in Own(m) : Named(r, x) \subseteq Named(s, x)
      BY <2>2 DEF Named
    <2>5. \A x \in Own(m) : AtMostOne(r, x)
      BY <2>3, <2>4 DEF AtMostOne
    <2>6. /\ a.tmp = "none" => Named(r, Tmp(m)) = {}
          /\ a.bak = "none" => Named(r, Backup(m)) = {}
      BY <2>3, <2>4, OwnFacts
    <2> QED
      BY <2>2, <2>3, <2>5, <2>6 DEF Means, r
  <1>ForeignModel. ASSUME NEW d, IsDb(d), NEW ops, IsOps(ops), NEW n, Local(d, ops, n), NEW e, e = Applied(d, ops), NEW m, n # m
                   PROVE  /\ \A i \in DOMAIN e : e[i].name \in Own(m) => i \in DOMAIN d /\ e[i] = d[i]
                          /\ \A x \in Own(m) : Named(e, x) \subseteq Named(d, x)
                          /\ Stays(d, e, m)
    <2> USE <1>ForeignModel
    <2>1. /\ \A i \in Mod(ops) \cap DOMAIN d :
               \/ d[i].name \in Own(n)
               \/ i \notin DOMAIN e /\ \E u \in d[i].uses : u \in Mod(ops) \ DOMAIN e
          /\ Same(d, e, Mod(ops))
      BY AppliedFacts DEF Local
    <2>2. \A i \in DOMAIN e : e[i].name \in Own(m) => i \in DOMAIN d /\ e[i] = d[i]
      BY LocalOwn
    <2>3. Own(n) \cap Own(m) = {} /\ Target(m) \in Own(m)
      BY SMT DEF Own, Target, Tmp, Backup
    <2>4. \A x \in Own(m) : Named(e, x) \subseteq Named(d, x)
      BY <2>2 DEF Named
    <2>5. ASSUME NEW i \in Named(d, Target(m)) PROVE Named(e, Target(m)) # {} \/ \E u \in d[i].uses : u \notin DOMAIN e
      <3>1. i \in DOMAIN d /\ d[i].name = Target(m)
        BY <2>5 DEF Named
      <3>2. CASE i \in Mod(ops)
        BY <2>1, <2>3, <3>1, <3>2
      <3>3. CASE i \notin Mod(ops)
        <4>1. i \in DOMAIN e /\ e[i].name = Target(m)
          BY <2>1, <3>1, <3>3 DEF Same
        <4> QED
          BY <4>1 DEF Named
      <3> QED
        BY <3>2, <3>3
    <2> QED
      BY <2>2, <2>4, <2>5 DEF Stays
  <1> SUFFICES ASSUME IInv, NEW t \in Threads, worker[t] # Idle,
                      NEW ops, IsOps(ops), Local(db, ops, worker[t].node), Apart(t, ops)
               PROVE  OthersKept(t, Applied(db, ops)) /\ IsDb(Applied(db, ops))
    OBVIOUS
  <1> DEFINE e == Applied(db, ops)
             n == worker[t].node
  <1>1. IsDb(db)
    BY DEF IInv, DbInv
  <1>2. ASSUME NEW u \in Threads \ {t}
        PROVE  n # worker[u].node /\ IsConn(conn[u]) /\ Local(db, conn[u].ops, worker[u].node) /\ IsOps(conn[u].ops)
    BY DEF IInv, ConnInv, WorkerInv, IsConn
  <1>3. ASSUME NEW u \in Threads \ {t} PROVE Mod(ops) \cap Mod(conn[u].ops) = {}
    BY DEF Apart
  <1> HIDE DEF n
  <1>4. Local(db, ops, n)
    BY DEF n
  <1>5. ASSUME NEW u \in Threads \ {t} PROVE Local(e, conn[u].ops, worker[u].node)
    <2>1. ForeignKept(db, e, conn[u].ops, worker[u].node)
      BY <1>1, <1>2, <1>3, <1>4, <1>ForeignKeeps
    <2> QED
      BY <2>1 DEF ForeignKept
  <1>6. ASSUME NEW u \in Threads \ {t}, NEW a, Means(db, conn[u], worker[u].node, a) PROVE Means(e, conn[u], worker[u].node, a)
    BY <1>1, <1>2, <1>3, <1>4, <1>6, <1>ForeignMeans
  <1>7. ASSUME NEW m \in Models \ {n}
        PROVE  /\ \A i \in DOMAIN e : e[i].name \in Own(m) => i \in DOMAIN db /\ e[i] = db[i]
               /\ \A x \in Own(m) : Named(e, x) \subseteq Named(db, x)
               /\ Stays(db, e, m)
    <2>1. n # m
      OBVIOUS
    <2> QED
      BY <1>1, <1>4, <2>1, <1>ForeignModel
  <1>8. IsDb(e)
    BY <1>1, AppliedFacts
  <1> QED
    BY <1>5, <1>6, <1>7, <1>8 DEF OthersKept, n
-----------------------------------------------------------------------------
(* A step of a thread *)

\* The relations of the models stay, as TargetsStay asks
TargetsKept == \A m \in Models : Stays(db, db', m) \/ DropsBefore(m) \/ NeverBegins(m)

\* The step of thread t commits the operations ops
Makes(t, ops) ==
    /\ worker[t] # Idle
    /\ IsOps(ops) /\ Local(db, ops, worker[t].node) /\ Apart(t, ops)
    /\ db' = Applied(db, ops)
    /\ conn' = [conn EXCEPT ![t] = conn'[t]] /\ worker' = [worker EXCEPT ![t] = worker'[t]]
    /\ run' = run /\ kind' = kind

\* What there is by the names of n
OwnOK(d, n) ==
    /\ \A x \in Own(n) : AtMostOne(d, x)
    /\ \A i \in DOMAIN d : d[i].name \in Own(n) => d[i].rows # 0 \/ NeverBegins(n)

LEMMA MakesFacts ==
    ASSUME IInv, NEW t \in Threads, NEW ops, Makes(t, ops)
    PROVE  /\ OthersKept(t, db') /\ IsDb(db')
           /\ \A u \in Threads \ {t} : conn'[u] = conn[u] /\ worker'[u] = worker[u]
           /\ \A m \in Models : NeverBegins(m)' = NeverBegins(m) /\ DropsBefore(m)' = DropsBefore(m)
  <1>1. OthersKept(t, db') /\ IsDb(db')
    BY OthersKeep DEF Makes
  <1>2. ASSUME NEW u \in Threads \ {t} PROVE conn'[u] = conn[u] /\ worker'[u] = worker[u]
    <2>1. conn = [v \in Threads |-> conn[v]] /\ worker = [v \in Threads |-> worker[v]]
      BY DEF IInv, ConnInv, WorkerInv
    <2>2. conn' = [conn EXCEPT ![t] = conn'[t]] /\ worker' = [worker EXCEPT ![t] = worker'[t]]
      BY DEF Makes
    <2> QED
      BY <2>1, <2>2
  <1>3. ASSUME NEW m \in Models PROVE NeverBegins(m)' = NeverBegins(m) /\ DropsBefore(m)' = DropsBefore(m)
    <2>1. run' = run /\ kind' = kind
      BY DEF Makes
    <2> QED
      BY <2>1 DEF NeverBegins, DropsBefore
  <1> QED
    BY <1>1, <1>2, <1>3

LEMMA DbKeeps ==
    ASSUME IInv, NEW t \in Threads, NEW ops, Makes(t, ops),
           worker[t].node \in Models => /\ OwnOK(db', worker[t].node)
                                        /\ \/ Stays(db, db', worker[t].node)
                                           \/ DropsBefore(worker[t].node) \/ NeverBegins(worker[t].node),
           (\E F : Bounded(F))'
    PROVE  DbInv' /\ TargetsKept
  <1> DEFINE n == worker[t].node
             e == db'
  <1>1. /\ OthersKept(t, e) /\ IsDb(e)
        /\ \A m \in Models : NeverBegins(m)' = NeverBegins(m) /\ DropsBefore(m)' = DropsBefore(m)
    BY MakesFacts
  <1>2. /\ \A m \in Models : \A x \in Own(m) : AtMostOne(db, x)
        /\ \A m \in Models : \A i \in DOMAIN db : db[i].name \in Own(m) => db[i].rows # 0 \/ NeverBegins(m)
    BY DEF IInv, DbInv
  <1>3. /\ \A m \in Models \ {n} :
             /\ \A i \in DOMAIN e : e[i].name \in Own(m) => i \in DOMAIN db /\ e[i] = db[i]
             /\ \A x \in Own(m) : Named(e, x) \subseteq Named(db, x)
             /\ Stays(db, e, m)
    BY <1>1 DEF OthersKept
  <1>4. ASSUME NEW m \in Models PROVE OwnOK(e, m)
    <2>1. CASE m = n
      BY <2>1
    <2>2. CASE m # n
      <3>1. ASSUME NEW x \in Own(m) PROVE AtMostOne(e, x)
        BY <1>2, <1>3, <2>2, <3>1 DEF AtMostOne
      <3>2. ASSUME NEW i \in DOMAIN e, e[i].name \in Own(m) PROVE e[i].rows # 0 \/ NeverBegins(m)
        BY <1>2, <1>3, <2>2, <3>2
      <3> QED
        BY <3>1, <3>2 DEF OwnOK
    <2> QED
      BY <2>1, <2>2
  <1>5. ASSUME NEW m \in Models PROVE Stays(db, e, m) \/ DropsBefore(m) \/ NeverBegins(m)
    BY <1>3
  <1>6. TargetsKept
    BY <1>5 DEF TargetsKept
  <1>7. IsDb(db)'
    BY <1>1
  <1>8. (\A m \in Models : \A x \in Own(m) : AtMostOne(db, x))'
    BY <1>4 DEF OwnOK
  <1>9. (\A m \in Models : \A i \in DOMAIN db : db[i].name \in Own(m) => db[i].rows # 0 \/ NeverBegins(m))'
    BY <1>1, <1>4 DEF OwnOK
  <1> QED
    BY <1>6, <1>7, <1>8, <1>9 DEF DbInv

LEMMA ConnKeeps ==
    ASSUME IInv, NEW t \in Threads, NEW ops, Makes(t, ops),
           IsConn(conn'[t]), Local(db', conn'[t].ops, worker'[t].node), Apart(t, conn'[t].ops),
           worker'[t].pc # "run" => conn'[t] = Fresh
    PROVE  ConnInv'
  <1>1. /\ OthersKept(t, db')
        /\ \A u \in Threads \ {t} : conn'[u] = conn[u] /\ worker'[u] = worker[u]
    BY MakesFacts
  <1>2. (conn = [u \in Threads |-> conn[u]])'
    <2>1. conn = [u \in Threads |-> conn[u]] /\ conn' = [conn EXCEPT ![t] = conn'[t]]
      BY DEF IInv, ConnInv, Makes
    <2>2. DOMAIN conn' = Threads
      BY <2>1
    <2> QED
      BY <2>1, <2>2
  <1>3. ASSUME NEW u \in Threads
        PROVE  IsConn(conn'[u]) /\ Local(db', conn'[u].ops, worker'[u].node) /\ (worker'[u].pc # "run" => conn'[u] = Fresh)
    <2>1. CASE u = t
      BY <2>1
    <2>2. CASE u # t
      <3>1. IsConn(conn[u]) /\ (worker[u].pc # "run" => conn[u] = Fresh)
        BY DEF IInv, ConnInv
      <3>2. Local(db', conn[u].ops, worker[u].node)
        BY <1>1, <2>2 DEF OthersKept
      <3> QED
        BY <1>1, <2>2, <3>1, <3>2
    <2> QED
      BY <2>1, <2>2
  <1>4. ASSUME NEW u \in Threads, NEW v \in Threads, u # v PROVE Mod(conn'[u].ops) \cap Mod(conn'[v].ops) = {}
    <2>1. CASE u # t /\ v # t
      BY <1>1, <1>4, <2>1 DEF IInv, ConnInv
    <2>2. CASE u = t
      BY <1>1, <1>4, <2>2 DEF Apart
    <2>3. CASE v = t
      <3>1. Mod(conn'[t].ops) \cap Mod(conn[u].ops) = {}
        BY <1>4, <2>3 DEF Apart
      <3> QED
        BY <1>1, <1>4, <2>3, <3>1
    <2> QED
      BY <2>1, <2>2, <2>3
  <1> QED
    BY <1>2, <1>3, <1>4 DEF ConnInv

\* The program of a thread is safe from what is true of its connection
Running(d, c, w, k, before) ==
    \E a, b \in AState : Means(d, c, w.node, a) /\ Final(k, b) /\ Runs(w.node, before, a, w.program, b)

LEMMA ProgramKeeps ==
    ASSUME IInv, NEW t \in Threads, NEW ops, Makes(t, ops),
           worker'[t].pc = "run" =>
             /\ worker'[t].node = worker[t].node
             /\ Running(db', conn'[t], worker'[t], kind[worker[t].node], DropsBefore(worker[t].node))
    PROVE  ProgramInv'
  <1>1. /\ OthersKept(t, db')
        /\ \A u \in Threads \ {t} : conn'[u] = conn[u] /\ worker'[u] = worker[u]
        /\ run' = run /\ kind' = kind
    BY MakesFacts DEF Makes
  <1>2. ASSUME NEW u \in Threads, worker'[u].pc = "run"
        PROVE  LET n == worker'[u].node
               IN Running(db', conn'[u], worker'[u], kind[n], DropsBefore(n))
    <2>1. CASE u = t
      BY <1>2, <2>1
    <2>2. CASE u # t
      <3>1. worker[u].pc = "run" /\ worker'[u] = worker[u] /\ conn'[u] = conn[u]
        BY <1>1, <1>2, <2>2
      <3>2. Running(db, conn[u], worker[u], kind[worker[u].node], DropsBefore(worker[u].node))
        BY <3>1 DEF IInv, ProgramInv, Running
      <3>3. \A a : Means(db, conn[u], worker[u].node, a) => Means(db', conn[u], worker[u].node, a)
        BY <1>1, <2>2 DEF OthersKept
      <3>4. Running(db', conn[u], worker[u], kind[worker[u].node], DropsBefore(worker[u].node))
        BY <3>2, <3>3 DEF Running
      <3> QED
        BY <3>1, <3>4
    <2> QED
      BY <2>1, <2>2
  <1>3. ASSUME NEW n PROVE DropsBefore(n)' = DropsBefore(n)
    BY <1>1 DEF DropsBefore
  <1> QED
    BY <1>1, <1>2, <1>3 DEF ProgramInv, Running

LEMMA LeftoversKeep ==
    ASSUME IInv, NEW t \in Threads, NEW ops, Makes(t, ops),
           \A m \in Models : result'[m] = "success" =>
             \/ m # worker[t].node /\ result[m] = "success"
             \/ kind[m] \in {"table", "view"} => Named(db', Tmp(m)) \cup Named(db', Backup(m)) = {}
    PROVE  NoLeftovers'
  <1>1. OthersKept(t, db') /\ run' = run /\ kind' = kind
    BY MakesFacts DEF Makes
  <1>2. ASSUME NEW m \in Models, result'[m] = "success", kind[m] \in {"table", "view"}, run.phase = "nodes"
        PROVE  Named(db', Tmp(m)) \cup Named(db', Backup(m)) = {}
    <2>1. CASE m # worker[t].node /\ result[m] = "success"
      <3>1. Named(db, Tmp(m)) \cup Named(db, Backup(m)) = {}
        BY <1>2, <2>1 DEF IInv, NoLeftovers
      <3>2. \A x \in Own(m) : Named(db', x) \subseteq Named(db, x)
        BY <1>1, <2>1 DEF OthersKept
      <3> QED
        BY <3>1, <3>2 DEF Own
    <2> QED
      BY <1>2, <2>1
  <1> QED
    BY <1>1, <1>2 DEF NoLeftovers

\* What is known of a thread that runs a program
LEMMA RunningFacts ==
    ASSUME IInv, NEW t \in Threads, worker[t].pc = "run"
    PROVE  /\ worker[t] # Idle /\ worker[t].node \in Models /\ result[worker[t].node] = "running"
           /\ run.phase = "nodes" /\ run.no \in Nat /\ run.no > 0
           /\ IsConn(conn[t]) /\ Local(db, conn[t].ops, worker[t].node) /\ Apart(t, conn[t].ops)
           /\ IsDb(db) /\ \E F : Bounded(F)
           /\ Running(db, conn[t], worker[t], kind[worker[t].node], DropsBefore(worker[t].node))
  <1>1. worker[t] # Idle
    BY SMT DEF Idle
  <1>2. /\ worker[t].node \in Models /\ result[worker[t].node] = "running"
        /\ run.phase = "nodes" /\ run.no \in Nat /\ run.no > 0
    BY <1>1 DEF IInv, WorkerInv
  <1>3. /\ IsConn(conn[t]) /\ Local(db, conn[t].ops, worker[t].node) /\ Apart(t, conn[t].ops)
    BY DEF IInv, ConnInv, Apart
  <1>4. IsDb(db) /\ \E F : Bounded(F)
    BY DEF IInv, DbInv
  <1>5. Running(db, conn[t], worker[t], kind[worker[t].node], DropsBefore(worker[t].node))
    BY DEF IInv, ProgramInv, Running
  <1> QED
    BY <1>1, <1>2, <1>3, <1>4, <1>5

\* Outside a transaction the thread sees what is committed
LEMMA OutsideOK ==
    ASSUME NEW d, IsDb(d), NEW c, NEW n, NEW a, Means(d, c, n, a), a.tx = "out"
    PROVE  /\ OwnOK(d, n)
           /\ a.tmp = "none" => Named(d, Tmp(n)) = {}
           /\ a.bak = "none" => Named(d, Backup(n)) = {}
  <1>1. c.ops = <<>> /\ Applied(d, c.ops) = d
    BY AppliedNone DEF Means
  <1>2. NeverBegins(n) \/ (TargetIs(d, c.ops, n, a.tgt) /\ a.tgt # "empty")
    BY DEF Means
  <1>3. \A i \in DOMAIN d : d[i].name \in Own(n) => d[i].rows # 0 \/ NeverBegins(n)
    BY <1>1, <1>2 DEF TargetIs
  <1> QED
    BY <1>1, <1>3 DEF Means, OwnOK

LEMMA AdvanceKeeps ==
    ASSUME IInv, NEW t \in Threads, worker[t].pc = "run", Advance(t), UNCHANGED <<run, kind, result, frames>>
    PROVE  /\ WorkerInv' /\ worker' = [worker EXCEPT ![t] = worker'[t]]
           /\ worker'[t].node = worker[t].node /\ worker'[t].pc = "run" /\ worker'[t].program = Tail(worker[t].program)
  <1>1. WorkerInv /\ worker[t] # Idle
    BY RunningFacts DEF IInv
  <1>2. worker = [u \in Threads |-> worker[u]] /\ \A u \in Threads : WorkerType(worker[u])
    BY <1>1 DEF WorkerInv
  <1>3. /\ worker' = [u \in Threads |-> worker'[u]] /\ worker' = [worker EXCEPT ![t] = worker'[t]]
        /\ \A u \in Threads \ {t} : worker'[u] = worker[u]
        /\ worker'[t] = [worker[t] EXCEPT !.program = Tail(@)]
    BY <1>2 DEF Advance
  <1>4. /\ worker'[t].node = worker[t].node /\ worker'[t].pc = "run" /\ worker'[t].program = Tail(worker[t].program)
        /\ WorkerType(worker'[t])
    <2>1. worker[t] = [node |-> worker[t].node, pc |-> worker[t].pc, program |-> worker[t].program]
      BY <1>2 DEF WorkerType
    <2>2. worker'[t] = [node |-> worker[t].node, pc |-> worker[t].pc, program |-> Tail(worker[t].program)]
      BY <1>3, <2>1
    <2> QED
      BY <2>2, SMT DEF WorkerType
  <1>5. worker'[t] # Idle
    BY <1>4, SMT DEF Idle
  <1>6. ASSUME NEW u \in Threads
        PROVE  /\ WorkerType(worker'[u]) /\ worker'[u].node = worker[u].node /\ worker'[u].pc = worker[u].pc
               /\ worker'[u] = Idle <=> worker[u] = Idle
    BY <1>1, <1>2, <1>3, <1>4, <1>5
  <1>7. WorkerInv'
    <2>1. run' = run /\ kind' = kind /\ result' = result /\ frames' = frames
      OBVIOUS
    <2>2. ASSUME NEW u \in Threads
          PROVE  /\ worker'[u] # Idle => /\ run.phase = "nodes" /\ run.no > 0
                                         /\ worker'[u].node \in Nodes /\ result[worker'[u].node] = "running"
                                         /\ worker'[u].pc \in {"compile", "look", "run"}
                 /\ frames[u] # <<>> => worker'[u].pc = "compile" /\ frames[u][1].node = worker'[u].node
                 /\ worker'[u].pc \in {"look", "run"} => worker'[u].node \in Models
      BY <1>1, <1>6, SMT DEF WorkerInv
    <2>3. ASSUME NEW u \in Threads, NEW v \in Threads, worker'[u].node = worker'[v].node PROVE u = v \/ worker'[u] = Idle
      BY <1>1, <1>6, <2>3, SMT DEF WorkerInv
    <2>4. /\ result = [n \in Nodes |-> result[n]]
          /\ kind \in [Models -> {"table", "view", "incremental", "seed"}]
          /\ run = [no |-> run.no, command |-> run.command, phase |-> run.phase, full |-> run.full]
          /\ run.no \in Nat /\ run.phase \in {"over", "before", "nodes"}
          /\ run.phase = "before" => \A n \in Nodes : result[n] # "success"
      BY <1>1 DEF WorkerInv
    <2> HIDE DEF Nodes
    <2> QED
      BY <1>3, <1>6, <2>1, <2>2, <2>3, <2>4, SMT DEF WorkerInv
  <1> QED
    BY <1>3, <1>4, <1>7

LEMMA StepKeeps ==
    ASSUME IInv, NEW t \in Threads, worker[t].pc = "run", worker[t].program # <<>>,
           Advance(t), UNCHANGED <<run, kind, result, frames>>,
           NEW n, n = worker[t].node,
           NEW ops, IsOps(ops), Local(db, ops, n), Apart(t, ops), db' = Applied(db, ops),
           conn' = [conn EXCEPT ![t] = conn'[t]], IsConn(conn'[t]),
           Local(db', conn'[t].ops, n), Apart(t, conn'[t].ops), (\E F : Bounded(F))',
           NEW a \in AState, NEW b \in AState, Final(kind[n], b), Runs(n, DropsBefore(n), a, worker[t].program, b),
           Means(db', conn'[t], n, Effect(n, a, Now(t))),
           db' = db \/ Effect(n, a, Now(t)).tx = "out",
           Stays(db, db', n) \/ DropsBefore(n) \/ NeverBegins(n)
    PROVE  IInv' /\ TargetsKept
  <1>1. /\ WorkerInv' /\ worker' = [worker EXCEPT ![t] = worker'[t]]
        /\ worker'[t].node = n /\ worker'[t].pc = "run" /\ worker'[t].program = Tail(worker[t].program)
    BY AdvanceKeeps
  <1>2. worker[t] # Idle /\ n \in Models /\ result[n] = "running" /\ IsDb(db)
    BY RunningFacts
  <1>3. Makes(t, ops)
    BY <1>1, <1>2 DEF Makes
  <1>4. IsDb(db')
    BY <1>2, AppliedFacts
  <1>5. OwnOK(db', n)
    <2>1. CASE db' = db
      BY <1>2, <2>1 DEF IInv, DbInv, OwnOK
    <2>2. CASE Effect(n, a, Now(t)).tx = "out"
      BY <1>4, <2>2, OutsideOK
    <2> QED
      BY <2>1, <2>2
  <1>6. DbInv' /\ TargetsKept
    BY <1>3, <1>5, DbKeeps
  <1>7. ConnInv'
    BY <1>1, <1>3, ConnKeeps
  <1>8. ProgramInv'
    <2>1. Runs(n, DropsBefore(n), Effect(n, a, Now(t)), Tail(worker[t].program), b)
      BY RunsStep DEF Now
    <2>2. Effect(n, a, Now(t)) \in AState
      BY EffectType
    <2>3. Running(db', conn'[t], worker'[t], kind[n], DropsBefore(n))
      BY <1>1, <2>1, <2>2 DEF Running
    <2> QED
      BY <1>1, <1>3, <2>3, ProgramKeeps
  <1>9. NoLeftovers'
    <2>1. \A m \in Models : result'[m] = "success" => m # worker[t].node /\ result[m] = "success"
      BY <1>2
    <2> QED
      BY <1>3, <2>1, LeftoversKeep
  <1> QED
    BY <1>1, <1>6, <1>7, <1>8, <1>9 DEF IInv
-----------------------------------------------------------------------------
(* Object identifiers *)

LEMMA BoundedKeeps ==
    ASSUME IsDb(db), NEW t \in Threads, conn = [u \in Threads |-> conn[u]], NEW F, Bounded(F),
           NEW ops, IsOps(ops), db' = Applied(db, ops), conn' = [conn EXCEPT ![t] = conn'[t]],
           NEW G, IsFiniteSet(G), F \subseteq G,
           \A op \in Range(ops) : OpIds(op) \subseteq G, \A op \in Range(conn'[t].ops) : OpIds(op) \subseteq G
    PROVE  (\E H : Bounded(H))'
  <1> DEFINE e == db'
  <1>1. From(db, e, ops)
    BY AppliedFacts
  <1>2. /\ DOMAIN db \subseteq F /\ \A i \in DOMAIN db : db[i].uses \subseteq F
        /\ \A u \in Threads : \A k \in DOMAIN conn[u].ops : OpIds(conn[u].ops[k]) \subseteq F
    BY DEF Bounded
  <1> HIDE DEF e
  <1>3. ASSUME NEW i \in DOMAIN e PROVE i \in G /\ e[i].uses \subseteq G
    <2>1. CASE i \in DOMAIN db /\ e[i] = db[i]
      BY <1>2, <2>1
    <2>2. ASSUME NEW op \in Range(ops), op.op = "set", i = op.id, e[i] = op.object PROVE i \in G /\ e[i].uses \subseteq G
      BY <2>2 DEF OpIds
    <2> QED
      BY <1>1, <2>1, <2>2 DEF From
  <1>4. ASSUME NEW u \in Threads, NEW k \in DOMAIN conn'[u].ops PROVE OpIds(conn'[u].ops[k]) \subseteq G
    <2>1. CASE u = t
      BY <1>4, <2>1 DEF Range
    <2>2. CASE u # t
      <3>1. conn'[u] = conn[u]
        BY <2>2
      <3>2. OpIds(conn[u].ops[k]) \subseteq F
        BY <1>2, <1>4, <3>1
      <3> QED
        BY <3>1, <3>2
    <2> QED
      BY <2>1, <2>2
  <1>5. Bounded(G)'
    BY <1>3, <1>4 DEF Bounded, e
  <1> QED
    BY <1>5
-----------------------------------------------------------------------------
(* Statements *)

\* A statement of thread t may add the operations ops to those that it has pending
MayAdd(t, ops) ==
    LET all == conn[t].ops \o ops
    IN /\ IsOps(all) /\ Local(db, all, worker[t].node) /\ Apart(t, all)
       /\ \E F, G : /\ Bounded(F) /\ F \subseteq G /\ IsFiniteSet(G)
                    /\ \A op \in Range(all) : OpIds(op) \subseteq G

LEMMA BoundedOps ==
    ASSUME NEW F, Bounded(F), NEW t \in Threads PROVE \A op \in Range(conn[t].ops) : OpIds(op) \subseteq F
  BY DEF Bounded, Range

LEMMA ConnExcept ==
    ASSUME NEW c, IsConn(c)
    PROVE  \A x, y, z : [c EXCEPT !.open = x, !.server = y, !.ops = z] = [open |-> x, server |-> y, auto |-> c.auto, ops |-> z]
  <1> SUFFICES ASSUME NEW x, NEW y, NEW z
               PROVE  [c EXCEPT !.open = x, !.server = y, !.ops = z] = [open |-> x, server |-> y, auto |-> c.auto, ops |-> z]
    OBVIOUS
  <1> DEFINE c1 == [open |-> x, server |-> c.server, auto |-> c.auto, ops |-> c.ops]
             c2 == [open |-> x, server |-> y, auto |-> c.auto, ops |-> c.ops]
  <1>0. c = [open |-> c.open, server |-> c.server, auto |-> c.auto, ops |-> c.ops]
    BY DEF IsConn
  <1>1. [c EXCEPT !.open = x] = c1
    BY <1>0, SMT
  <1>2. [c1 EXCEPT !.server = y] = c2
    BY SMT
  <1>3. [c2 EXCEPT !.ops = z] = [open |-> x, server |-> y, auto |-> c.auto, ops |-> z]
    BY SMT
  <1> HIDE DEF c1, c2
  <1> QED
    BY <1>1, <1>2, <1>3

\* The abstract state of a thread that is at one of the acts
LEMMA AtFacts ==
    ASSUME IInv, NEW t \in Threads, NEW acts, At(t, acts)
    PROVE  /\ worker[t].pc = "run" /\ worker[t].program # <<>> /\ Now(t).act \in acts
           /\ \E a, b \in AState :
                /\ Means(db, conn[t], worker[t].node, a) /\ Final(kind[worker[t].node], b)
                /\ Runs(worker[t].node, DropsBefore(worker[t].node), a, worker[t].program, b)
                /\ Allowed(worker[t].node, DropsBefore(worker[t].node), a, Now(t))
                /\ Inside(db, conn[t].ops, worker[t].node, a)
  <1>1. worker[t].pc = "run" /\ worker[t].program # <<>> /\ Now(t).act \in acts
    BY DEF At, Now
  <1>2. PICK a \in AState, b \in AState :
          /\ Means(db, conn[t], worker[t].node, a) /\ Final(kind[worker[t].node], b)
          /\ Runs(worker[t].node, DropsBefore(worker[t].node), a, worker[t].program, b)
    BY <1>1, RunningFacts DEF Running
  <1>3. Allowed(worker[t].node, DropsBefore(worker[t].node), a, Now(t))
    BY <1>1, <1>2, RunsStep DEF Now
  <1>4. Inside(db, conn[t].ops, worker[t].node, a)
    BY <1>2 DEF Means, Inside
  <1> QED
    BY <1>1, <1>2, <1>3, <1>4

Changed(o, p, name, rows) == IsObject(p) /\ p.name = name /\ p.rows = rows /\ p.uses = o.uses

\* A thread sends a statement to the database.
LEMMA StatementsKeep ==
    \A t \in Threads : IInv /\ (Drop(t) \/ Hook(t) \/ Create(t) \/ Change(t)) => IInv' /\ TargetsKept
  <1>NewIdFacts. ASSUME NEW F, Bounded(F)
                 PROVE  /\ NewId \notin DOMAIN db
                        /\ \A u \in Threads : \A op \in Range(conn[u].ops) : NewId \notin OpIds(op)
                        /\ IsFiniteSet(F \cup {NewId})
    <2> USE <1>NewIdFacts
    <2> DEFINE ids == UNION {OpIds(op) : op \in UNION {Range(conn[u].ops) : u \in Threads}}
               used == DOMAIN db \cup ids
               c == Cardinality(used)
    <2>1. IsFiniteSet(F)
      BY DEF Bounded
    <2>2. used \subseteq F
      <3>1. ASSUME NEW i \in ids PROVE i \in F
        <4>1. PICK u \in Threads : \E op \in Range(conn[u].ops) : i \in OpIds(op)
          BY <3>1
        <4>2. \A k \in DOMAIN conn[u].ops : OpIds(conn[u].ops[k]) \subseteq F
          BY DEF Bounded
        <4> QED
          BY <4>1, <4>2 DEF Range
      <3>2. DOMAIN db \subseteq F
        BY DEF Bounded
      <3> QED
        BY <3>1, <3>2
    <2>3. NewId = CHOOSE i \in 1..(c + 1) : i \notin used
      BY DEF NewId
    <2>4. ASSUME NEW u \in Threads, NEW op \in Range(conn[u].ops) PROVE OpIds(op) \subseteq used
      OBVIOUS
    <2>5. DOMAIN db \subseteq used
      OBVIOUS
    <2> HIDE DEF used, ids
    <2>6. IsFiniteSet(used) /\ c \in Nat
      BY <2>1, <2>2, FS_Subset, FS_CardinalityType
    <2>7. \E i \in 1..(c + 1) : i \notin used
      <3>1. SUFFICES ASSUME 1..(c + 1) \subseteq used PROVE FALSE
        OBVIOUS
      <3> HIDE DEF c
      <3>2. Cardinality(1..(c + 1)) = c + 1
        BY <2>6, FS_Interval, SMT
      <3>3. Cardinality(1..(c + 1)) <= c
        BY <2>6, <3>1, FS_Subset DEF c
      <3> QED
        BY <2>6, <3>2, <3>3, SMT
    <2>8. NewId \notin used
      BY <2>3, <2>7
    <2>9. IsFiniteSet(F \cup {NewId})
      BY <2>1, FS_AddElement
    <2> QED
      BY <2>4, <2>5, <2>8, <2>9
  \* Locked objects are those that other threads have changed
  <1>LockedFacts. ASSUME NEW t \in Threads, NEW u \in Threads \ {t} PROVE Mod(conn[u].ops) \subseteq Locked(t)
    <2> USE <1>LockedFacts
    <2>1. ASSUME NEW op \in Range(conn[u].ops) PROVE Touched(op) \subseteq Locked(t)
      BY SMT DEF Touched, OpIds, Locked
    <2> QED
      BY <2>1 DEF Mod
  <1>SeenBounded. ASSUME NEW F, Bounded(F), IsDb(db), NEW t \in Threads, IsOps(conn[t].ops)
                  PROVE  DOMAIN Seen(t) \subseteq F /\ \A i \in DOMAIN Seen(t) : Seen(t)[i].uses \subseteq F
    <2> USE <1>SeenBounded
    <2> DEFINE e == Applied(db, conn[t].ops)
    <2>1. From(db, e, conn[t].ops)
      BY AppliedFacts
    <2>2. /\ DOMAIN db \subseteq F /\ \A i \in DOMAIN db : db[i].uses \subseteq F
          /\ \A k \in DOMAIN conn[t].ops : OpIds(conn[t].ops[k]) \subseteq F
      BY DEF Bounded
    <2>3. \A op \in Range(conn[t].ops) : OpIds(op) \subseteq F
      BY <2>2 DEF Range
    <2> HIDE DEF e
    <2>4. ASSUME NEW i \in DOMAIN e PROVE i \in F /\ e[i].uses \subseteq F
      <3>1. CASE i \in DOMAIN db /\ e[i] = db[i]
        BY <2>2, <3>1
      <3>2. ASSUME NEW op \in Range(conn[t].ops), op.op = "set", i = op.id, e[i] = op.object PROVE i \in F /\ e[i].uses \subseteq F
        BY <2>3, <3>2 DEF OpIds
      <3> QED
        BY <2>1, <3>1, <3>2 DEF From
    <2> QED
      BY <2>4 DEF Seen, e
  <1>MayAddNone. ASSUME IInv, NEW t \in Threads, worker[t].pc = "run"
                 PROVE  MayAdd(t, <<>>) /\ conn[t].ops \o <<>> = conn[t].ops
    <2> USE <1>MayAddNone
    <2>1. IsConn(conn[t]) /\ Local(db, conn[t].ops, worker[t].node) /\ Apart(t, conn[t].ops)
      BY RunningFacts
    <2>2. IsOps(conn[t].ops)
      BY <2>1 DEF IsConn
    <2>3. conn[t].ops \o <<>> = conn[t].ops
      BY <2>2, SMT DEF IsOps, IsSeq
    <2>4. PICK F : Bounded(F)
      BY RunningFacts
    <2>5. IsFiniteSet(F) /\ \A op \in Range(conn[t].ops) : OpIds(op) \subseteq F
      BY <2>4, BoundedOps DEF Bounded
    <2> QED
      BY <2>1, <2>2, <2>3, <2>4, <2>5 DEF MayAdd
  <1>MayAddOne. ASSUME IInv, NEW t \in Threads, worker[t].pc = "run", NEW op, IsOp(op),
                       Legal(db, conn[t].ops, worker[t].node, op),
                       \A u \in Threads \ {t} : Touched(op) \cap Mod(conn[u].ops) = {},
                       NEW F, Bounded(F), NEW G, F \subseteq G, IsFiniteSet(G), OpIds(op) \subseteq G
                PROVE  MayAdd(t, <<op>>) /\ conn[t].ops \o <<op>> = Append(conn[t].ops, op)
    <2> USE <1>MayAddOne
    <2> DEFINE q == conn[t].ops
    <2>1. IsConn(conn[t]) /\ Local(db, q, worker[t].node) /\ Apart(t, q) /\ IsDb(db)
      BY RunningFacts
    <2>2. IsOps(q)
      BY <2>1 DEF IsConn
    <2>3. q \o <<op>> = Append(q, op)
      BY <2>2, SMT DEF IsOps, IsSeq
    <2>4. IsOps(Append(q, op)) /\ Range(Append(q, op)) = Range(q) \cup {op}
      BY <2>2, AppendFacts, SMT DEF IsOps
    <2>5. Local(db, Append(q, op), worker[t].node)
      BY <2>1, <2>2, LocalAppend
    <2>6. Mod(Append(q, op)) = Mod(q) \cup Touched(op)
      BY <2>4 DEF Mod
    <2>7. Apart(t, Append(q, op))
      BY <2>1, <2>6 DEF Apart
    <2>8. \A x \in Range(Append(q, op)) : OpIds(x) \subseteq G
      <3>1. \A x \in Range(q) : OpIds(x) \subseteq F
        BY BoundedOps
      <3> QED
        BY <2>4, <3>1
    <2> QED
      BY <2>3, <2>4, <2>5, <2>7, <2>8 DEF MayAdd
  <1>StatementKeeps. ASSUME IInv, NEW t \in Threads, worker[t].pc = "run", worker[t].program # <<>>,
                            NEW ops, IsOps(ops), MayAdd(t, ops), NEW auto, auto = (Now(t).act \in Begins), Statement(t, auto, ops),
                            Now(t).act \in Begins \cup {"drop", "hook_out"}, Now(t).act = "hook_out" => ops = <<>>,
                            NEW n, n = worker[t].node,
                            NEW a \in AState, NEW b \in AState, Means(db, conn[t], n, a), Final(kind[n], b),
                            Runs(n, DropsBefore(n), a, worker[t].program, b),
                            Inside(db, conn[t].ops \o ops, n, Effect(n, In(a), Now(t)))
                     PROVE  IInv' /\ TargetsKept
    <2> USE <1>StatementKeeps
    <2> DEFINE c == conn[t]
               all == c.ops \o ops
               inside == c.server \/ ~c.auto \/ (auto /\ ~c.open)
               i == Now(t)
    <2>1. /\ Execute(t, auto, ops) /\ Advance(t) /\ UNCHANGED <<run, kind, result, frames>>
      BY DEF Statement
    <2>2. /\ IsConn(c) /\ IsDb(db) /\ conn = [u \in Threads |-> conn[u]]
      BY RunningFacts DEF IInv, ConnInv
    <2>3. /\ c = [open |-> c.open, server |-> c.server, auto |-> c.auto, ops |-> c.ops]
          /\ {c.open, c.server, c.auto, auto} \subseteq BOOLEAN /\ (~c.server => c.ops = <<>>)
      BY <2>2, SMT DEF IsConn
    <2>4. /\ IsOps(all) /\ Local(db, all, n) /\ Apart(t, all)
      BY DEF MayAdd
    <2>5. PICK F, G : /\ Bounded(F) /\ F \subseteq G /\ IsFiniteSet(G)
                      /\ \A op \in Range(all) : OpIds(op) \subseteq G
      BY DEF MayAdd
    <2>6. Allowed(n, DropsBefore(n), a, i)
      BY RunsStep DEF Now
    <2>7. IsOps(<<>>) /\ Local(db, <<>>, n) /\ Mod(<<>>) = {} /\ Range(<<>>) = {} /\ Applied(db, <<>>) = db
      BY <2>2, LocalNone, AppliedNone, SMT DEF IsOps, IsSeq, Range
    <2>8. Apart(t, <<>>)
      BY <2>7 DEF Apart
    <2>9. i.act \notin Commits
      BY DEF Begins, Commits
    <2> HIDE DEF i
    <2>10. CASE inside
      <3> DEFINE c2 == [open |-> c.open \/ auto, server |-> TRUE, auto |-> c.auto, ops |-> all]
      <3>1. /\ conn' = [conn EXCEPT ![t] = [c EXCEPT !.open = @ \/ auto, !.server = TRUE, !.ops = @ \o ops]]
            /\ db' = db
        BY <2>1, <2>10 DEF Execute
      <3>2. [c EXCEPT !.open = @ \/ auto, !.server = TRUE, !.ops = @ \o ops] = c2
        <4> HIDE DEF c
        <4>1. \A x, y, z : [c EXCEPT !.open = x, !.server = y, !.ops = z] = [open |-> x, server |-> y, auto |-> c.auto, ops |-> z]
          BY <2>2, ConnExcept
        <4> DEFINE x == c.open \/ auto
                   y == TRUE
        <4> HIDE DEF x, y, all
        <4>2. [c EXCEPT !.open = x, !.server = y, !.ops = all] = [open |-> x, server |-> y, auto |-> c.auto, ops |-> all]
          BY <4>1
        <4> QED
          BY <4>2 DEF x, y, all
      <3> HIDE DEF all
      <3>3. conn'[t] = c2 /\ conn' = [conn EXCEPT ![t] = conn'[t]]
        BY <2>2, <3>1, <3>2
      <3>4. IsConn(c2) /\ c2.ops = all
        BY <2>3, <2>4 DEF IsConn
      <3>5. Means(db, c2, n, Effect(n, a, i))
        <4> HIDE DEF c
        <4>1. SentInside(c, i, all, c2)
          BY <2>10 DEF i, SentInside
        <4>2. Inside(db, all, n, Effect(n, In(a), i)) /\ Means(db, c, n, a) /\ IsConn(c)
          BY <2>2 DEF i, all, c
        <4> HIDE DEF c2
        <4> QED
          BY <2>9, <4>1, <4>2, StatementInside
      <3> HIDE DEF c2
      <3>6. db' = Applied(db, <<>>) /\ Stays(db, db', n)
        BY <2>7, <3>1 DEF Stays
      <3>7. (\E H : Bounded(H))'
        BY <2>2, <2>5, <2>7, <3>3, <3>4, <3>6, BoundedKeeps
      <3>8. /\ IsConn(conn'[t]) /\ Local(db', conn'[t].ops, n) /\ Apart(t, conn'[t].ops)
            /\ Means(db', conn'[t], n, Effect(n, a, Now(t)))
        BY <2>4, <3>1, <3>3, <3>4, <3>5 DEF i
      <3> QED
        BY <2>1, <2>7, <2>8, <3>1, <3>3, <3>6, <3>7, <3>8, StepKeeps
    <2>11. CASE ~inside
      <3> DEFINE c2 == [open |-> c.open \/ auto, server |-> c.server, auto |-> c.auto, ops |-> <<>>]
      <3>1. conn' = [conn EXCEPT ![t].open = @ \/ auto] /\ db' = Applied(db, ops)
        BY <2>1, <2>11 DEF Execute
      <3>2. c.ops = <<>> /\ all = ops
        <4>1. c.ops = <<>>
          BY <2>3, <2>11
        <4>2. <<>> \o ops = ops
          BY SMT DEF IsOps, IsSeq
        <4> QED
          BY <4>1, <4>2
      <3>3. [c EXCEPT !.open = @ \/ auto] = c2
        BY <2>3, <3>2, SMT
      <3>4. conn'[t] = c2 /\ conn' = [conn EXCEPT ![t] = conn'[t]]
        BY <2>2, <3>1, <3>3
      <3>5. IsConn(c2) /\ c2.ops = <<>>
        BY <2>3, <2>7 DEF IsConn
      <3>6. Settled(db, Applied(db, ops), n, DropsBefore(n), c2, Effect(n, a, i))
        <4> HIDE DEF c, all
        <4>1. SentOutside(c, i, c2)
          BY <2>11 DEF i, SentOutside
        <4>2. /\ Inside(db, ops, n, Effect(n, In(a), i)) /\ Means(db, c, n, a) /\ IsConn(c)
              /\ i.act \in Begins \cup {"drop", "hook_out"} /\ (i.act = "hook_out" => ops = <<>>)
          BY <2>2, <3>2 DEF i, all, c
        <4>3. IsDb(db)
          BY <2>2
        <4> HIDE DEF c2
        <4> QED
          BY <2>2, <2>6, <4>1, <4>2, <4>3, StatementOutside
      <3> HIDE DEF c2
      <3>7. Local(db, ops, n) /\ Apart(t, ops) /\ \A op \in Range(ops) : OpIds(op) \subseteq G
        BY <2>4, <2>5, <3>2
      <3>8. Local(db', <<>>, n)
        BY LocalNone
      <3>9. (\E H : Bounded(H))'
        BY <2>2, <2>5, <2>7, <3>1, <3>4, <3>5, <3>7, BoundedKeeps
      <3> QED
        BY <2>1, <2>8, <3>1, <3>4, <3>5, <3>6, <3>7, <3>8, <3>9, StepKeeps DEF i, Settled
    <2> QED
      BY <2>10, <2>11
  <1>DropKeeps. ASSUME IInv, NEW t \in Threads, Drop(t)
                PROVE  IInv' /\ TargetsKept
    <2> USE <1>DropKeeps
    <2> DEFINE c == conn[t]
               n == worker[t].node
               i == Now(t)
               ids == Named(Seen(t), i.name)
               op == [op |-> "drop", ids |-> Cascade(Seen(t), ids)]
    <2>1. /\ worker[t].pc = "run" /\ worker[t].program # <<>> /\ i.act = "drop"
          /\ \E a, b \in AState :
               /\ Means(db, c, n, a) /\ Final(kind[n], b) /\ Runs(n, DropsBefore(n), a, worker[t].program, b)
               /\ Allowed(n, DropsBefore(n), a, i) /\ Inside(db, c.ops, n, a)
      BY AtFacts DEF Drop
    <2>2. PICK a \in AState, b \in AState :
            /\ Means(db, c, n, a) /\ Final(kind[n], b) /\ Runs(n, DropsBefore(n), a, worker[t].program, b)
            /\ Allowed(n, DropsBefore(n), a, i) /\ Inside(db, c.ops, n, a)
      BY <2>1
    <2>3. /\ Cascade(Seen(t), ids) \cap Locked(t) = {}
          /\ Statement(t, FALSE, IF ids = {} THEN <<>> ELSE <<op>>)
      BY DEF Drop
    <2>4. FALSE = (i.act \in Begins) /\ i.act \in Begins \cup {"drop", "hook_out"} /\ i.act # "hook_out"
      BY <2>1, SMT DEF Begins
    <2>5. IsConn(c) /\ IsDb(db) /\ IsOps(c.ops) /\ \E F : Bounded(F)
      BY <2>1, RunningFacts DEF IsConn
    <2>6. /\ ids = {} => Inside(db, c.ops, n, Effect(n, In(a), i))
          /\ Inside(db, Append(c.ops, op), n, Effect(n, In(a), i))
      <3>1. IsOp(op) /\ op.op = "drop" /\ op.ids = Cascade(Applied(db, c.ops), Named(Applied(db, c.ops), i.name))
        BY DEF IsOp, Seen
      <3>2. ids = Named(Applied(db, c.ops), i.name)
        BY DEF Seen
      <3> HIDE DEF c, n, i, op, ids
      <3> QED
        BY <2>1, <2>2, <2>5, <3>1, <3>2, InsideDrop
    <2>7. CASE ids = {}
      <3>1. MayAdd(t, <<>>) /\ c.ops \o <<>> = c.ops /\ IsOps(<<>>)
        BY <2>1, <1>MayAddNone, SMT DEF IsOps, IsSeq, Range
      <3>2. Statement(t, FALSE, <<>>)
        BY <2>3, <2>7
      <3> HIDE DEF ids, i
      <3> QED
        BY <2>1, <2>2, <2>4, <2>6, <2>7, <3>1, <3>2, <1>StatementKeeps DEF i
    <2>8. CASE ids # {}
      <3>1. IsOp(op) /\ Legal(db, c.ops, n, op)
        <4>1. i.name \in Own(n)
          BY <2>1, <2>2 DEF Allowed
        <4> QED
          BY <4>1 DEF IsOp, Legal, Seen
      <3>2. ASSUME NEW u \in Threads \ {t} PROVE Touched(op) \cap Mod(conn[u].ops) = {}
        <4>1. Touched(op) = Cascade(Seen(t), ids)
          BY DEF Touched
        <4>2. Mod(conn[u].ops) \subseteq Locked(t)
          BY <1>LockedFacts
        <4> HIDE DEF ids, op
        <4> QED
          BY <2>3, <4>1, <4>2
      <3>3. PICK F : Bounded(F)
        BY <2>5
      <3>4. OpIds(op) \subseteq F
        <4>1. Cascade(Seen(t), ids) \subseteq DOMAIN Seen(t)
          BY CascadeFacts DEF Named
        <4>2. DOMAIN Seen(t) \subseteq F
          BY <2>5, <3>3, <1>SeenBounded
        <4>3. OpIds(op) = Cascade(Seen(t), ids)
          BY DEF OpIds
        <4> QED
          BY <4>1, <4>2, <4>3
      <3>5. IsFiniteSet(F) /\ F \subseteq F
        BY <3>3 DEF Bounded
      <3>6. IsOps(<<op>>)
        BY <3>1, SMT DEF IsOps, IsSeq, Range
      <3>7. Statement(t, FALSE, <<op>>)
        BY <2>3, <2>8
      <3> HIDE DEF op, ids, i
      <3>8. MayAdd(t, <<op>>) /\ c.ops \o <<op>> = Append(c.ops, op)
        BY <2>1, <3>1, <3>2, <3>3, <3>4, <3>5, <1>MayAddOne
      <3> QED
        BY <2>1, <2>2, <2>4, <2>6, <3>6, <3>7, <3>8, <1>StatementKeeps DEF i
    <2> QED
      BY <2>7, <2>8
  <1>HookKeeps. ASSUME IInv, NEW t \in Threads, Hook(t)
                PROVE  IInv' /\ TargetsKept
    <2> USE <1>HookKeeps
    <2> DEFINE c == conn[t]
               n == worker[t].node
               i == Now(t)
               auto == i.act = "hook_in"
    <2>1. /\ worker[t].pc = "run" /\ worker[t].program # <<>> /\ i.act \in {"hook_in", "hook_out"}
          /\ \E a, b \in AState :
               /\ Means(db, c, n, a) /\ Final(kind[n], b) /\ Runs(n, DropsBefore(n), a, worker[t].program, b)
               /\ Allowed(n, DropsBefore(n), a, i) /\ Inside(db, c.ops, n, a)
      BY AtFacts DEF Hook
    <2>2. PICK a \in AState, b \in AState :
            /\ Means(db, c, n, a) /\ Final(kind[n], b) /\ Runs(n, DropsBefore(n), a, worker[t].program, b)
            /\ Allowed(n, DropsBefore(n), a, i) /\ Inside(db, c.ops, n, a)
      BY <2>1
    <2>3. Statement(t, auto, <<>>)
      BY DEF Hook
    <2>4. auto = (i.act \in Begins) /\ i.act \in Begins \cup {"drop", "hook_out"}
      BY <2>1, SMT DEF Begins
    <2>5. Inside(db, c.ops, n, Effect(n, In(a), i))
      <3>1. i.act \in Silent
        BY <2>1 DEF Silent
      <3> QED
        BY <2>2, <3>1, InsideSilent
    <2>6. MayAdd(t, <<>>) /\ c.ops \o <<>> = c.ops /\ IsOps(<<>>)
      BY <2>1, <1>MayAddNone, SMT DEF IsOps, IsSeq, Range
    <2> HIDE DEF i, auto
    <2> QED
      BY <2>1, <2>2, <2>3, <2>4, <2>5, <2>6, <1>StatementKeeps DEF i
  \* What a step that is not refused has found
  <1>RefusalFacts. ASSUME NEW t, Refusal(t) = None
                   PROVE  /\ Now(t).act \in {"create", "create_empty"} => Named(Seen(t), Now(t).name) = {}
                          /\ Now(t).act = "rename" => Named(Seen(t), Now(t).to) = {}
                          /\ Now(t).act # "raise"
    BY <1>RefusalFacts, ExecuteAssumption, SMT DEF Refusal, Errors
  <1>ObjectExcept. ASSUME NEW o, IsObject(o), NEW x
                   PROVE  Changed(o, [o EXCEPT !.name = x], x, o.rows) /\ Changed(o, [o EXCEPT !.rows = x], o.name, x)
    <2> USE <1>ObjectExcept
    <2>0. o = [name |-> o.name, type |-> o.type, uses |-> o.uses, rows |-> o.rows]
      BY DEF IsObject
    <2>1. [o EXCEPT !.name = x] = [name |-> x, type |-> o.type, uses |-> o.uses, rows |-> o.rows]
      BY <2>0, SMT
    <2>2. [o EXCEPT !.rows = x] = [name |-> o.name, type |-> o.type, uses |-> o.uses, rows |-> x]
      BY <2>0, SMT
    <2> QED
      BY <2>1, <2>2 DEF IsObject, Changed
  <1>CreateKeeps. ASSUME IInv, NEW t \in Threads, Create(t)
                  PROVE  IInv' /\ TargetsKept
    <2> USE <1>CreateKeeps
    <2> DEFINE c == conn[t]
               n == worker[t].node
               i == Now(t)
               full == i.act = "create"
               ids == IF full THEN UNION {Named(Seen(t), x) : x \in Reads(n)} ELSE {}
               object == [name |-> i.name, type |-> i.type, uses |-> IF i.type = "view" THEN ids ELSE {},
                          rows |-> IF full THEN run.no ELSE 0]
               op == [op |-> "set", id |-> NewId, object |-> object]
    <2>1. /\ worker[t].pc = "run" /\ worker[t].program # <<>> /\ i.act \in {"create", "create_empty"}
          /\ \E a, b \in AState :
               /\ Means(db, c, n, a) /\ Final(kind[n], b) /\ Runs(n, DropsBefore(n), a, worker[t].program, b)
               /\ Allowed(n, DropsBefore(n), a, i) /\ Inside(db, c.ops, n, a)
      BY AtFacts DEF Create
    <2>2. PICK a \in AState, b \in AState :
            /\ Means(db, c, n, a) /\ Final(kind[n], b) /\ Runs(n, DropsBefore(n), a, worker[t].program, b)
            /\ Allowed(n, DropsBefore(n), a, i) /\ Inside(db, c.ops, n, a)
      BY <2>1
    <2>3. Statement(t, TRUE, <<op>>) /\ Refusal(t) = None
      BY DEF Create
    <2>4. TRUE = (i.act \in Begins) /\ i.act \in Begins \cup {"drop", "hook_out"} /\ i.act # "hook_out"
      BY <2>1 DEF Begins
    <2>5. IsConn(c) /\ IsDb(db) /\ IsOps(c.ops) /\ run.no \in Nat /\ run.no > 0 /\ \E F : Bounded(F)
      BY <2>1, RunningFacts DEF IsConn
    <2>6. PICK F : Bounded(F)
      BY <2>5
    <2>7. /\ NewId \notin DOMAIN db /\ IsFiniteSet(F \cup {NewId})
          /\ \A u \in Threads : \A x \in Range(conn[u].ops) : NewId \notin OpIds(x)
      BY <2>6, <1>NewIdFacts
    <2>8. ASSUME NEW u \in Threads PROVE NewId \notin Mod(conn[u].ops)
      <3>1. ASSUME NEW x \in Range(conn[u].ops) PROVE NewId \notin Touched(x)
        BY <2>7, <3>1 DEF Touched, OpIds
      <3> QED
        BY <3>1 DEF Mod
    <2>9. /\ IsOp(op) /\ op.op = "set" /\ op.id = NewId /\ op.object = object /\ object.name = i.name
          /\ i.act = "create" => object.rows # 0
      <3>1. IsObject(object)
        BY DEF IsObject
      <3> QED
        BY <2>5, <3>1, SMT DEF IsOp
    <2>10. ids \subseteq DOMAIN Seen(t)
      BY DEF Named
    <2>11. OpIds(op) \subseteq F \cup {NewId}
      <3>1. DOMAIN Seen(t) \subseteq F
        BY <2>5, <2>6, <1>SeenBounded
      <3>2. OpIds(op) = {NewId} \cup object.uses /\ object.uses \subseteq ids
        BY DEF OpIds
      <3> QED
        BY <2>10, <3>1, <3>2
    <2> HIDE DEF object, ids, full
    <2>12. IsOps(<<op>>)
      BY <2>9, SMT DEF IsOps, IsSeq, Range
    <2> HIDE DEF op, i
    <2>13. Legal(db, c.ops, n, op)
      <3>1. i.name \in Own(n)
        BY <2>1, <2>2 DEF Allowed, Own
      <3> QED
        BY <2>7, <2>8, <2>9, <3>1 DEF Legal
    <2>14. ASSUME NEW u \in Threads \ {t} PROVE Touched(op) \cap Mod(conn[u].ops) = {}
      BY <2>8, <2>9 DEF Touched
    <2>15. MayAdd(t, <<op>>) /\ c.ops \o <<op>> = Append(c.ops, op)
      <3>1. F \subseteq F \cup {NewId}
        OBVIOUS
      <3> QED
        BY <2>1, <2>6, <2>7, <2>9, <2>11, <2>13, <2>14, <3>1, <1>MayAddOne
    <2>16. Inside(db, Append(c.ops, op), n, Effect(n, In(a), i))
      <3>1. Named(Applied(db, c.ops), i.name) = {}
        BY <2>1, <2>3, <1>RefusalFacts DEF Seen, i
      <3>2. NewId \notin Mod(c.ops) \cup DOMAIN Applied(db, c.ops)
        <4>1. Same(db, Applied(db, c.ops), Mod(c.ops))
          BY <2>5, AppliedFacts
        <4> QED
          BY <2>7, <2>8, <4>1 DEF Same
      <3>3. op.object.name = i.name /\ op.id \notin Mod(c.ops) \cup DOMAIN Applied(db, c.ops)
            /\ (i.act = "create" => op.object.rows # 0)
        BY <2>9, <3>2
      <3> HIDE DEF c, n
      <3> QED
        BY <2>1, <2>2, <2>5, <2>9, <3>1, <3>3, InsideCreate, SMT
    <2> QED
      BY <2>1, <2>2, <2>3, <2>4, <2>12, <2>15, <2>16, <1>StatementKeeps DEF i
  <1>ChangeKeeps. ASSUME IInv, NEW t \in Threads, Change(t)
                  PROVE  IInv' /\ TargetsKept
    <2> USE <1>ChangeKeeps
    <2> DEFINE c == conn[t]
               n == worker[t].node
               i == Now(t)
               e == Applied(db, c.ops)
               object(x) == CASE i.act = "rename" -> [e[x] EXCEPT !.name = i.to]
                              [] i.act = "truncate" -> [e[x] EXCEPT !.rows = 0]
                              [] OTHER -> [e[x] EXCEPT !.rows = run.no]
    <2>1. /\ worker[t].pc = "run" /\ worker[t].program # <<>> /\ i.act \in {"rename", "truncate", "insert", "upsert"}
          /\ \E a, b \in AState :
               /\ Means(db, c, n, a) /\ Final(kind[n], b) /\ Runs(n, DropsBefore(n), a, worker[t].program, b)
               /\ Allowed(n, DropsBefore(n), a, i) /\ Inside(db, c.ops, n, a)
      BY AtFacts DEF Change
    <2>2. PICK a \in AState, b \in AState :
            /\ Means(db, c, n, a) /\ Final(kind[n], b) /\ Runs(n, DropsBefore(n), a, worker[t].program, b)
            /\ Allowed(n, DropsBefore(n), a, i) /\ Inside(db, c.ops, n, a)
      BY <2>1
    <2>3. PICK x \in Named(e, i.name) : /\ x \notin Locked(t)
                                        /\ Statement(t, TRUE, <<[op |-> "set", id |-> x, object |-> object(x)]>>)
      BY DEF Change, Seen
    <2> DEFINE op == [op |-> "set", id |-> x, object |-> object(x)]
    <2>4. TRUE = (i.act \in Begins) /\ i.act \in Begins \cup {"drop", "hook_out"} /\ i.act # "hook_out"
      BY <2>1 DEF Begins
    <2>5. /\ IsConn(c) /\ IsDb(db) /\ IsOps(c.ops) /\ run.no \in Nat /\ run.no > 0 /\ \E F : Bounded(F)
          /\ Refusal(t) = None
      BY <2>1, RunningFacts DEF IsConn, Change
    <2>6. PICK F : Bounded(F)
      BY <2>5
    <2>7. x \in DOMAIN e /\ e[x].name = i.name /\ IsObject(e[x]) /\ x \in F /\ e[x].uses \subseteq F
      <3>1. IsDb(e)
        BY <2>5, AppliedFacts
      <3>2. DOMAIN e \subseteq F /\ \A y \in DOMAIN e : e[y].uses \subseteq F
        BY <2>5, <2>6, <1>SeenBounded DEF Seen
      <3> HIDE DEF e
      <3> QED
        BY <2>3, <3>1, <3>2 DEF Named, IsDb
    <2> HIDE DEF e
    <2>8. /\ IsObject(object(x)) /\ object(x).uses = e[x].uses
          /\ i.act = "rename" => object(x).name = i.to /\ object(x).rows = e[x].rows
          /\ i.act # "rename" => object(x).name = i.name /\ (i.act # "truncate" => object(x).rows # 0)
      <3>1. CASE i.act = "rename"
        <4>1. object(x) = [e[x] EXCEPT !.name = i.to]
          BY <3>1
        <4>2. Changed(e[x], object(x), i.to, e[x].rows)
          BY <2>7, <4>1, <1>ObjectExcept
        <4> HIDE DEF object, i
        <4> QED
          BY <2>7, <3>1, <4>2 DEF Changed
      <3>2. CASE i.act = "truncate"
        <4>1. object(x) = [e[x] EXCEPT !.rows = 0]
          BY <3>2
        <4>2. Changed(e[x], object(x), e[x].name, 0)
          BY <2>7, <4>1, <1>ObjectExcept
        <4> HIDE DEF object, i
        <4> QED
          BY <2>7, <3>2, <4>2 DEF Changed
      <3>3. CASE i.act \notin {"rename", "truncate"}
        <4>1. object(x) = [e[x] EXCEPT !.rows = run.no]
          BY <3>3
        <4>2. Changed(e[x], object(x), e[x].name, run.no)
          BY <2>7, <4>1, <1>ObjectExcept
        <4> HIDE DEF object, i
        <4> QED
          BY <2>5, <2>7, <3>3, <4>2, SMT DEF Changed
      <3> QED
        BY <3>1, <3>2, <3>3
    <2> HIDE DEF object
    <2>9. IsOp(op) /\ op.op = "set" /\ op.id = x /\ op.object = object(x)
      BY <2>8 DEF IsOp
    <2>10. OpIds(op) \subseteq F
      BY <2>7, <2>8, <2>9 DEF OpIds
    <2>11. Statement(t, TRUE, <<op>>)
      BY <2>3
    <2> HIDE DEF op, i
    <2>16. IsOps(<<op>>)
      BY <2>9, SMT DEF IsOps, IsSeq, Range
    <2>12. Legal(db, c.ops, n, op)
      <3>1. i.name \in Own(n) /\ object(x).name \in Own(n)
        BY <2>1, <2>2, <2>8 DEF Allowed, Own
      <3> QED
        BY <2>7, <2>9, <3>1 DEF Legal, e
    <2>13. ASSUME NEW u \in Threads \ {t} PROVE Touched(op) \cap Mod(conn[u].ops) = {}
      <3>1. Mod(conn[u].ops) \subseteq Locked(t)
        BY <1>LockedFacts
      <3> QED
        BY <2>3, <2>9, <3>1 DEF Touched
    <2>14. MayAdd(t, <<op>>) /\ c.ops \o <<op>> = Append(c.ops, op)
      <3>1. F \subseteq F /\ IsFiniteSet(F)
        BY <2>6 DEF Bounded
      <3> QED
        BY <2>1, <2>6, <2>9, <2>10, <2>12, <2>13, <3>1, <1>MayAddOne
    <2>15. Inside(db, Append(c.ops, op), n, Effect(n, In(a), i))
      <3>1. op.id \in Named(Applied(db, c.ops), i.name)
        BY <2>3, <2>9 DEF e
      <3>2. CASE i.act = "rename"
        <4>1. Named(Applied(db, c.ops), i.to) = {}
          BY <2>5, <3>2, <1>RefusalFacts DEF Seen, i
        <4>2. op.object.name = i.to /\ op.object.rows = Applied(db, c.ops)[op.id].rows
          BY <2>8, <2>9, <3>2 DEF e
        <4> HIDE DEF c, n
        <4> QED
          BY <2>2, <2>5, <2>9, <3>1, <3>2, <4>1, <4>2, InsideRename
      <3>3. CASE i.act \in {"truncate", "insert", "upsert"}
        <4>1. op.object.name = i.name /\ (i.act # "truncate" => op.object.rows # 0)
          BY <2>8, <2>9, <3>3
        <4> HIDE DEF c, n
        <4> QED
          BY <2>2, <2>5, <2>9, <3>1, <3>3, <4>1, InsideWrite, SMT
      <3> QED
        BY <2>1, <3>2, <3>3
    <2> QED
      BY <2>1, <2>2, <2>4, <2>11, <2>14, <2>15, <2>16, <1>StatementKeeps DEF i
  <1> QED
    BY <1>DropKeeps, <1>HookKeeps, <1>CreateKeeps, <1>ChangeKeeps

LEMMA CacheKeeps ==
    ASSUME IInv, NEW t \in Threads, CacheStep(t)
    PROVE  IInv' /\ TargetsKept
  <1> DEFINE c == conn[t]
             n == worker[t].node
             i == Now(t)
  <1>1. /\ worker[t].pc = "run" /\ worker[t].program # <<>> /\ i.act \in {"cache_drop", "cache_rename", "added"}
        /\ \E a, b \in AState :
             /\ Means(db, c, n, a) /\ Final(kind[n], b) /\ Runs(n, DropsBefore(n), a, worker[t].program, b)
             /\ Allowed(n, DropsBefore(n), a, i) /\ Inside(db, c.ops, n, a)
    BY AtFacts DEF CacheStep
  <1>2. PICK a \in AState, b \in AState :
          /\ Means(db, c, n, a) /\ Final(kind[n], b) /\ Runs(n, DropsBefore(n), a, worker[t].program, b)
          /\ Allowed(n, DropsBefore(n), a, i) /\ Inside(db, c.ops, n, a)
    BY <1>1
  <1>3. Advance(t) /\ UNCHANGED <<run, kind, result, frames>> /\ conn' = conn /\ db' = db
    BY DEF CacheStep
  <1>4. Means(db, c, n, Effect(n, a, i))
    <2> DEFINE e == Effect(n, a, i)
    <2>1. i.act \in Silent /\ i.act \notin Commits \cup Begins
      BY <1>1 DEF Silent, Commits, Begins
    <2>2. e.tgt = a.tgt /\ e.tmp = a.tmp /\ e.bak = a.bak
      BY <2>1, SilentFacts, SMT
    <2>0. e \in AState
      BY EffectType
    <2>3. ByStatement(n, a, i, e, Effect(n, In(a), i))
      BY <2>1, EffectTx
    <2>4. a.open \in BOOLEAN
      BY DEF AState
    <2> HIDE DEF e, i
    <2>5. e.tx = a.tx /\ e.open = a.open
      BY <2>1, <2>3, <2>4 DEF ByStatement
    <2>6. Means(db, c, n, e)
      BY <1>2, <2>0, <2>2, <2>5 DEF Means
    <2> QED
      BY <2>6 DEF e
  <1>5. /\ IsConn(c) /\ IsDb(db) /\ Local(db, c.ops, n) /\ Apart(t, c.ops) /\ \E F : Bounded(F)
        /\ conn = [u \in Threads |-> conn[u]]
    BY <1>1, RunningFacts DEF IInv, ConnInv
  <1>6. IsOps(<<>>) /\ Local(db, <<>>, n) /\ Applied(db, <<>>) = db /\ Apart(t, <<>>)
    BY <1>5, LocalNone, AppliedNone, SMT DEF IsOps, IsSeq, Range, Apart
  <1>7. conn' = [conn EXCEPT ![t] = conn'[t]] /\ conn'[t] = c /\ db' = Applied(db, <<>>)
    BY <1>3, <1>5, <1>6
  <1>8. (\E F : Bounded(F))'
    BY <1>3, <1>5 DEF Bounded
  <1>9. Stays(db, db, n)
    BY DEF Stays
  <1>10. /\ IsConn(conn'[t]) /\ Local(db', conn'[t].ops, n) /\ Apart(t, conn'[t].ops)
         /\ Means(db', conn'[t], n, Effect(n, a, i)) /\ Stays(db, db', n)
    BY <1>3, <1>4, <1>5, <1>7, <1>9
  <1> QED
    BY <1>1, <1>2, <1>3, <1>6, <1>7, <1>8, <1>10, StepKeeps

LEMMA SeenFacts ==
    ASSUME IInv, NEW t \in Threads, worker[t].pc = "run"
    PROVE  IsOps(conn[t].ops) /\ IsDb(Seen(t)) /\ Seen(t) = Applied(db, conn[t].ops)
  <1>1. IsOps(conn[t].ops) /\ IsDb(db)
    BY RunningFacts DEF IsConn
  <1> QED
    BY <1>1, AppliedFacts DEF Seen

LEMMA CommitKeeps ==
    ASSUME IInv, NEW t \in Threads, CommitStep(t)
    PROVE  IInv' /\ TargetsKept
  <1> DEFINE c == conn[t]
             n == worker[t].node
             i == Now(t)
             c2 == [open |-> c.open /\ i.act = "sql_commit", server |-> FALSE, auto |-> TRUE, ops |-> <<>>]
  <1>1. /\ worker[t].pc = "run" /\ worker[t].program # <<>> /\ i.act \in {"commit", "sql_commit"}
        /\ \E a, b \in AState :
             /\ Means(db, c, n, a) /\ Final(kind[n], b) /\ Runs(n, DropsBefore(n), a, worker[t].program, b)
             /\ Allowed(n, DropsBefore(n), a, i) /\ Inside(db, c.ops, n, a)
    BY AtFacts DEF CommitStep
  <1>2. PICK a \in AState, b \in AState :
          /\ Means(db, c, n, a) /\ Final(kind[n], b) /\ Runs(n, DropsBefore(n), a, worker[t].program, b)
          /\ Allowed(n, DropsBefore(n), a, i) /\ Inside(db, c.ops, n, a)
    BY <1>1
  <1>3. /\ Advance(t) /\ UNCHANGED <<run, kind, result, frames>>
        /\ conn' = [conn EXCEPT ![t] = c2] /\ db' = Seen(t)
    BY DEF CommitStep, Commit
  <1>4. /\ IsConn(c) /\ IsDb(db) /\ Local(db, c.ops, n) /\ Apart(t, c.ops) /\ conn = [u \in Threads |-> conn[u]]
        /\ IsOps(c.ops) /\ db' = Applied(db, c.ops)
    BY <1>1, <1>3, RunningFacts, SeenFacts DEF IInv, ConnInv
  <1>5. IsOps(<<>>) /\ Mod(<<>>) = {} /\ Range(<<>>) = {}
    BY LocalNone, SMT DEF IsOps, IsSeq, Range
  <1>6. Local(db', <<>>, n) /\ Apart(t, <<>>)
    BY <1>5, LocalNone DEF Apart
  <1>7. IsConn(c2) /\ c2.ops = <<>> /\ SentCommit(c, i, c2)
    BY <1>5 DEF IsConn, SentCommit
  <1> HIDE DEF c2
  <1>8. conn'[t] = c2 /\ conn' = [conn EXCEPT ![t] = conn'[t]]
    BY <1>3, <1>4
  <1>9. Settled(db, Applied(db, c.ops), n, DropsBefore(n), c2, Effect(n, a, i))
    <2>1. i.act \in Commits
      BY <1>1 DEF Commits
    <2> HIDE DEF c, n, i
    <2> QED
      BY <1>2, <1>4, <1>7, <2>1, CommitMeans
  <1>10. PICK F : Bounded(F)
    BY <1>1, RunningFacts
  <1>11. (\E H : Bounded(H))'
    <2>1. IsFiniteSet(F) /\ F \subseteq F /\ \A op \in Range(c.ops) : OpIds(op) \subseteq F
      BY <1>10, BoundedOps DEF Bounded
    <2>2. \A op \in Range(conn'[t].ops) : OpIds(op) \subseteq F
      BY <1>5, <1>7, <1>8
    <2> QED
      BY <1>4, <1>8, <1>10, <2>1, <2>2, BoundedKeeps
  <1>12. /\ IsConn(conn'[t]) /\ Local(db', conn'[t].ops, n) /\ Apart(t, conn'[t].ops)
         /\ Means(db', conn'[t], n, Effect(n, a, i)) /\ Effect(n, a, i).tx = "out"
         /\ Stays(db, db', n) \/ DropsBefore(n) \/ NeverBegins(n)
    BY <1>4, <1>6, <1>7, <1>8, <1>9 DEF Settled
  <1> QED
    BY <1>1, <1>2, <1>3, <1>4, <1>8, <1>11, <1>12, StepKeeps
-----------------------------------------------------------------------------
(* The end of a node *)

LEMMA FinishFacts ==
    ASSUME IInv, FramesInv, NEW t \in Threads, worker[t] # Idle, NEW status, Finish(t, status), status # "running",
           UNCHANGED <<run, kind>>
    PROVE  /\ WorkerInv' /\ worker' = [worker EXCEPT ![t] = worker'[t]] /\ worker'[t] = Idle
           /\ \A x \in Nodes : result'[x] = "success" => result[x] = "success" \/ (x = worker[t].node /\ status = "success")
           /\ result'[worker[t].node] = status
  <1> DEFINE n == worker[t].node
  <1>1. /\ WorkerInv /\ worker = [u \in Threads |-> worker[u]] /\ result = [x \in Nodes |-> result[x]]
        /\ n \in Nodes /\ result[n] = "running" /\ run.phase = "nodes"
    BY DEF IInv, WorkerInv
  <1>2. /\ worker' = [worker EXCEPT ![t] = Idle] /\ frames' = [frames EXCEPT ![t] = <<>>]
        /\ result' = [x \in Nodes |-> CASE x = n -> status
                                        [] status \in Errors /\ result[x] = "waiting" /\ n \in Ancestors(x) -> "skipped"
                                        [] OTHER -> result[x]]
    BY DEF Finish
  <1>3. /\ worker' = [u \in Threads |-> worker'[u]] /\ worker'[t] = Idle /\ worker' = [worker EXCEPT ![t] = worker'[t]]
        /\ \A u \in Threads \ {t} : worker'[u] = worker[u]
    BY <1>1, <1>2
  <1>4. ASSUME NEW x \in Nodes
        PROVE  /\ x = n => result'[x] = status
               /\ x # n => result'[x] = result[x] \/ (result[x] = "waiting" /\ result'[x] = "skipped")
    <2> DEFINE skips == status \in Errors /\ result[x] = "waiting" /\ n \in Ancestors(x)
    <2>1. result'[x] = CASE x = n -> status [] skips -> "skipped" [] OTHER -> result[x]
      BY <1>2
    <2>2. x = n => ~skips
      BY <1>1
    <2>3. skips => result[x] = "waiting"
      OBVIOUS
    <2> HIDE DEF skips, n
    <2> QED
      BY <2>1, <2>2, <2>3
  <1>5. result' = [x \in Nodes |-> result'[x]]
    BY <1>2, SMT
  <1> HIDE DEF n
  <1>6. ASSUME NEW u \in Threads
        PROVE  frames'[u] = <<>> \/ (u # t /\ frames'[u] = frames[u])
    <2>1. frames \in [Threads -> Seq(FrameType)] /\ frames' = [frames EXCEPT ![t] = <<>>]
      BY <1>2 DEF FramesInv
    <2> QED
      BY <2>1
  <1>7. WorkerInv'
    <2>1. ASSUME NEW u \in Threads, u # t, worker[u] # Idle
          PROVE  worker[u].node \in Nodes /\ worker[u].node # n /\ result[worker[u].node] = "running"
      BY <1>1, <2>1 DEF WorkerInv, n
    <2>2. ASSUME NEW u \in Threads, worker'[u] # Idle
          PROVE  /\ run.phase = "nodes" /\ run.no > 0
                 /\ worker'[u].node \in Nodes /\ result'[worker'[u].node] = "running"
                 /\ worker'[u].pc \in {"compile", "look", "run"}
      <3>1. u # t /\ worker'[u] = worker[u] /\ worker[u] # Idle
        BY <1>3, <2>2
      <3>2. result'[worker[u].node] = "running"
        BY <1>4, <2>1, <3>1
      <3> QED
        BY <1>1, <3>1, <3>2 DEF WorkerInv
    <2>3. ASSUME NEW u \in Threads
          PROVE  /\ WorkerType(worker'[u])
                 /\ frames'[u] # <<>> => worker'[u].pc = "compile" /\ frames'[u][1].node = worker'[u].node
                 /\ worker'[u].pc \in {"look", "run"} => worker'[u].node \in Models
      <3>1. CASE u = t
        BY <1>3, <1>6, <3>1, SMT DEF WorkerType, Idle
      <3>2. CASE u # t
        BY <1>1, <1>3, <1>6, <3>2, SMT DEF WorkerInv
      <3> QED
        BY <3>1, <3>2
    <2>4. ASSUME NEW u \in Threads, NEW v \in Threads, worker'[u].node = worker'[v].node PROVE u = v \/ worker'[u] = Idle
      <3>1. CASE u = t
        BY <1>3, <3>1
      <3>2. CASE u # t /\ v # t
        BY <1>1, <1>3, <2>4, <3>2, SMT DEF WorkerInv
      <3>3. CASE u # t /\ v = t
        <4>1. worker'[u].node = None
          BY <1>3, <2>4, <3>3, SMT DEF Idle
        <4>2. worker[u] # Idle => worker[u].node # None
          BY <2>1, <3>3, ExecuteAssumption DEF Nodes
        <4> QED
          BY <1>3, <3>3, <4>1, <4>2
      <3> QED
        BY <3>1, <3>2, <3>3
    <2>5. /\ kind' \in [Models -> {"table", "view", "incremental", "seed"}]
          /\ run' = [no |-> run.no, command |-> run.command, phase |-> run.phase, full |-> run.full]
          /\ run' = run /\ run.no \in Nat /\ run.phase = "nodes"
      BY <1>1 DEF WorkerInv
    <2> QED
      BY <1>3, <1>5, <2>2, <2>3, <2>4, <2>5 DEF WorkerInv
  <1>8. ASSUME NEW x \in Nodes, result'[x] = "success" PROVE result[x] = "success" \/ (x = n /\ status = "success")
    BY <1>4, <1>8
  <1>9. result'[n] = status
    BY <1>1, <1>4
  <1> QED
    BY <1>3, <1>7, <1>8, <1>9 DEF n

\* A node ends, and the step commits ops: none, or what the thread had pending
LEMMA EndKeeps ==
    ASSUME IInv, FramesInv, NEW t \in Threads, worker[t] # Idle,
           NEW status, Finish(t, status), status # "running", UNCHANGED <<run, kind>>,
           conn' = [conn EXCEPT ![t] = Fresh],
           NEW n, n = worker[t].node,
           NEW ops, ops \in {<<>>, conn[t].ops}, db' = Applied(db, ops),
           n \in Models => OwnOK(db', n) /\ (Stays(db, db', n) \/ DropsBefore(n) \/ NeverBegins(n)),
           status = "success" /\ n \in Models /\ kind[n] \in {"table", "view"} => Named(db', Tmp(n)) \cup Named(db', Backup(n)) = {}
    PROVE  IInv' /\ TargetsKept
  <1>1. /\ WorkerInv' /\ worker' = [worker EXCEPT ![t] = worker'[t]] /\ worker'[t] = Idle
        /\ \A x \in Nodes : result'[x] = "success" => result[x] = "success" \/ (x = n /\ status = "success")
        /\ result'[n] = status
    BY FinishFacts
  <1>2. /\ IsConn(conn[t]) /\ Local(db, conn[t].ops, n) /\ Apart(t, conn[t].ops) /\ IsDb(db)
        /\ conn = [u \in Threads |-> conn[u]] /\ IsOps(conn[t].ops) /\ \E F : Bounded(F)
    BY DEF IInv, ConnInv, DbInv, Apart, IsConn
  <1>3. IsOps(<<>>) /\ Mod(<<>>) = {} /\ Range(<<>>) = {} /\ Apart(t, <<>>) /\ \A d, m : Local(d, <<>>, m)
    BY LocalNone, SMT DEF IsOps, IsSeq, Range, Apart
  <1>4. IsOps(ops) /\ Local(db, ops, n) /\ Apart(t, ops)
    BY <1>2, <1>3
  <1>5. conn'[t] = Fresh /\ conn' = [conn EXCEPT ![t] = conn'[t]]
    BY <1>2
  <1>6. IsConn(Fresh) /\ Fresh.ops = <<>>
    BY <1>3 DEF IsConn, Fresh
  <1>7. Makes(t, ops)
    BY <1>1, <1>4, <1>5 DEF Makes
  <1>8. PICK F : Bounded(F)
    BY <1>2
  <1>9. (\E H : Bounded(H))'
    <2>1. IsFiniteSet(F) /\ F \subseteq F /\ \A op \in Range(ops) : OpIds(op) \subseteq F
      BY <1>3, <1>8, BoundedOps DEF Bounded
    <2>2. \A op \in Range(conn'[t].ops) : OpIds(op) \subseteq F
      BY <1>3, <1>5, <1>6
    <2> QED
      BY <1>2, <1>4, <1>5, <1>8, <2>1, <2>2, BoundedKeeps
  <1>10. DbInv' /\ TargetsKept
    BY <1>7, <1>9, DbKeeps
  <1>11. ConnInv'
    <2>1. IsConn(conn'[t]) /\ Local(db', conn'[t].ops, worker'[t].node) /\ Apart(t, conn'[t].ops)
      BY <1>3, <1>5, <1>6, SMT
    <2> QED
      BY <1>5, <1>7, <2>1, ConnKeeps
  <1>12. ProgramInv'
    <2>1. worker'[t].pc # "run"
      BY <1>1, SMT DEF Idle
    <2> QED
      BY <1>7, <2>1, ProgramKeeps
  <1>13. NoLeftovers'
    <2>1. ASSUME NEW m \in Models, result'[m] = "success"
          PROVE  \/ m # worker[t].node /\ result[m] = "success"
                 \/ kind[m] \in {"table", "view"} => Named(db', Tmp(m)) \cup Named(db', Backup(m)) = {}
      <3>1. CASE m = n
        BY <1>1, <2>1, <3>1
      <3>2. CASE m # n
        BY <1>1, <2>1, <3>2 DEF Nodes
      <3> QED
        BY <3>1, <3>2
    <2> QED
      BY <1>7, <2>1, LeftoversKeep
  <1> QED
    BY <1>1, <1>10, <1>11, <1>12, <1>13 DEF IInv

\* A node ends, and what its thread had pending is lost
LEMMA RollbackKeeps ==
    ASSUME IInv, FramesInv, NEW t \in Threads, worker[t] # Idle, NEW status, Finish(t, status), status \notin {"running", "success"},
           UNCHANGED <<run, kind, db>>, conn' = [conn EXCEPT ![t] = Fresh]
    PROVE  IInv' /\ TargetsKept
  <1> DEFINE n == worker[t].node
  <1>1. IsDb(db) /\ (n \in Models => OwnOK(db, n))
    BY DEF IInv, DbInv, OwnOK
  <1>2. Stays(db, db, n)
    BY DEF Stays
  <1>3. db' = Applied(db, <<>>) /\ db' = db /\ <<>> \in {<<>>, conn[t].ops}
    BY <1>1, AppliedNone
  <1>4. n \in Models => OwnOK(db', n) /\ (Stays(db, db', n) \/ DropsBefore(n) \/ NeverBegins(n))
    BY <1>1, <1>2, <1>3
  <1>5. UNCHANGED <<run, kind>> /\ status # "running" /\ status # "success"
    OBVIOUS
  <1> QED
    BY <1>3, <1>4, <1>5, EndKeeps

LEMMA ReturnKeeps ==
    ASSUME IInv, FramesInv, NEW t \in Threads, Return(t)
    PROVE  IInv' /\ TargetsKept
  <1> DEFINE n == worker[t].node
  <1>1. /\ worker[t].pc = "run" /\ worker[t].program = <<>> /\ Finish(t, "success")
        /\ conn' = [conn EXCEPT ![t] = Fresh] /\ UNCHANGED <<run, kind>> /\ db' = db
    BY DEF Return
  <1>2. /\ worker[t] # Idle /\ n \in Models /\ IsDb(db)
        /\ Running(db, conn[t], worker[t], kind[n], DropsBefore(n))
    BY <1>1, RunningFacts
  <1>3. PICK a \in AState, b \in AState : Means(db, conn[t], n, a) /\ Final(kind[n], b) /\ Runs(n, DropsBefore(n), a, <<>>, b)
    BY <1>1, <1>2 DEF Running
  <1>4. Final(kind[n], a)
    BY <1>3, RunsNone
  <1>5. OwnOK(db, n) /\ (kind[n] \in {"table", "view"} => Named(db, Tmp(n)) \cup Named(db, Backup(n)) = {})
    <2>1. a.tx = "out" /\ (kind[n] \in {"table", "view"} => a.tmp = "none" /\ a.bak = "none")
      BY <1>4 DEF Final
    <2>2. /\ OwnOK(db, n)
          /\ a.tmp = "none" => Named(db, Tmp(n)) = {}
          /\ a.bak = "none" => Named(db, Backup(n)) = {}
      BY <1>2, <1>3, <2>1, OutsideOK
    <2> QED
      BY <2>1, <2>2
  <1>6. Stays(db, db, n)
    BY DEF Stays
  <1>7. db' = Applied(db, <<>>) /\ <<>> \in {<<>>, conn[t].ops} /\ "success" # "running"
    BY <1>1, <1>2, AppliedNone
  <1>8. /\ n \in Models => OwnOK(db', n) /\ (Stays(db, db', n) \/ DropsBefore(n) \/ NeverBegins(n))
        /\ kind[n] \in {"table", "view"} => Named(db', Tmp(n)) \cup Named(db', Backup(n)) = {}
    BY <1>1, <1>5, <1>6
  <1> QED
    BY <1>1, <1>2, <1>7, <1>8, EndKeeps

LEMMA RefusedKeeps ==
    ASSUME IInv, FramesInv, NEW t \in Threads, Refused(t)
    PROVE  IInv' /\ TargetsKept
  <1>1. /\ worker[t].pc = "run" /\ Finish(t, Refusal(t)) /\ Refusal(t) # None
        /\ conn' = [conn EXCEPT ![t] = Fresh] /\ UNCHANGED <<run, kind, db>>
    BY DEF Refused, Fail
  <1>2. worker[t] # Idle
    BY <1>1, SMT DEF Idle
  <1>3. Refusal(t) \notin {"running", "success"}
    BY <1>1 DEF Refusal
  <1> QED
    BY <1>1, <1>2, <1>3, RollbackKeeps

\* Of a COMMIT that failed nobody knows whether it was done
LEMMA FaultKeeps ==
    ASSUME IInv, FramesInv, NEW t \in Threads, Fault(t)
    PROVE  IInv' /\ TargetsKept
  <1> DEFINE n == worker[t].node
             i == Now(t)
             c == conn[t]
  <1>1. /\ worker[t].node # None /\ Finish(t, "fault") /\ conn' = [conn EXCEPT ![t] = Fresh] /\ UNCHANGED <<run, kind>>
        /\ db' = db \/ (At(t, {"commit"}) /\ conn[t].open /\ db' = Seen(t))
    BY DEF Fault
  <1>2. worker[t] # Idle
    BY <1>1, SMT DEF Idle
  <1>3. CASE db' = db
    BY <1>1, <1>2, <1>3, RollbackKeeps
  <1>4. CASE At(t, {"commit"}) /\ db' = Seen(t)
    <2>1. /\ worker[t].pc = "run" /\ worker[t].program # <<>> /\ i.act \in {"commit"}
          /\ \E a, b \in AState :
               /\ Means(db, c, n, a) /\ Final(kind[n], b) /\ Runs(n, DropsBefore(n), a, worker[t].program, b)
               /\ Allowed(n, DropsBefore(n), a, i) /\ Inside(db, c.ops, n, a)
      BY <1>4, AtFacts
    <2>2. PICK a \in AState, b \in AState : Means(db, c, n, a) /\ Allowed(n, DropsBefore(n), a, i)
      BY <2>1
    <2> DEFINE c2 == [open |-> FALSE, server |-> FALSE, auto |-> TRUE, ops |-> <<>>]
    <2>3. SentCommit(c, i, c2) /\ i.act \in Commits
      BY <2>1 DEF SentCommit, Commits
    <2>4. IsConn(c) /\ IsDb(db) /\ IsDb(Seen(t)) /\ Seen(t) = Applied(db, c.ops)
      BY <2>1, RunningFacts, SeenFacts
    <2>5. Settled(db, Applied(db, c.ops), n, DropsBefore(n), c2, Effect(n, a, i))
      <3> HIDE DEF c, n, i, c2
      <3> QED
        BY <2>2, <2>3, <2>4, CommitMeans
    <2> HIDE DEF c2
    <2>6. OwnOK(db', n) /\ (Stays(db, db', n) \/ DropsBefore(n) \/ NeverBegins(n))
      <3>1. /\ Means(db', c2, n, Effect(n, a, i)) /\ Effect(n, a, i).tx = "out"
            /\ Stays(db, db', n) \/ DropsBefore(n) \/ NeverBegins(n)
        BY <1>4, <2>4, <2>5 DEF Settled
      <3>2. IsDb(db')
        BY <1>4, <2>4
      <3> QED
        BY <3>1, <3>2, OutsideOK
    <2>7. db' = Applied(db, c.ops) /\ c.ops \in {<<>>, c.ops} /\ "fault" \notin {"running", "success"}
      BY <1>4, <2>4
    <2> QED
      BY <1>1, <1>2, <2>6, <2>7, EndKeeps
  <1> QED
    BY <1>1, <1>3, <1>4
-----------------------------------------------------------------------------
(* The beginning of a node *)

LEMMA WorkerKeeps ==
    ASSUME IInv, NEW t \in Threads, worker[t] # Idle, worker[t].node \in Models,
           NEW pc, pc \in {"look", "run"}, NEW program,
           worker' = [worker EXCEPT ![t] = [node |-> worker[t].node, pc |-> pc, program |-> program]],
           \A u \in Threads : frames'[u] = <<>> \/ (u # t /\ frames'[u] = frames[u]),
           UNCHANGED <<run, kind, result>>
    PROVE  WorkerInv'
  <1> DEFINE n == worker[t].node
             w == [node |-> n, pc |-> pc, program |-> program]
  <1>1. /\ WorkerInv /\ worker = [u \in Threads |-> worker[u]]
    BY DEF IInv, WorkerInv
  <1>2. w # Idle /\ WorkerType(w) /\ w.node = n /\ w.pc = pc
    BY DEF Idle, WorkerType
  <1> HIDE DEF w
  <1>3. /\ worker' = [u \in Threads |-> worker'[u]] /\ worker'[t] = w
        /\ \A u \in Threads \ {t} : worker'[u] = worker[u]
    BY <1>1 DEF w
  <1>4. ASSUME NEW u \in Threads
        PROVE  /\ WorkerType(worker'[u]) /\ worker'[u].node = worker[u].node
               /\ worker'[u] = Idle <=> worker[u] = Idle
               /\ worker'[u] # Idle => worker'[u].pc \in {"compile", "look", "run"}
               /\ worker'[u].pc \in {"look", "run"} => worker'[u].node \in Models
               /\ frames'[u] # <<>> => worker'[u].pc = "compile" /\ frames'[u][1].node = worker'[u].node
    <2>1. CASE u = t
      BY <1>2, <1>3, <2>1
    <2>2. CASE u # t
      BY <1>1, <1>3, <2>2, SMT DEF WorkerInv
    <2> QED
      BY <2>1, <2>2
  <1>5. ASSUME NEW u \in Threads, worker'[u] # Idle
        PROVE  run.phase = "nodes" /\ run.no > 0 /\ worker'[u].node \in Nodes /\ result[worker'[u].node] = "running"
    BY <1>1, <1>4, <1>5 DEF WorkerInv
  <1>6. ASSUME NEW u \in Threads, NEW v \in Threads, worker'[u].node = worker'[v].node PROVE u = v \/ worker'[u] = Idle
    BY <1>1, <1>4, <1>6, SMT DEF WorkerInv
  <1>7. /\ result = [x \in Nodes |-> result[x]]
        /\ kind \in [Models -> {"table", "view", "incremental", "seed"}]
        /\ run = [no |-> run.no, command |-> run.command, phase |-> run.phase, full |-> run.full]
        /\ run.no \in Nat /\ run.phase \in {"over", "before", "nodes"}
        /\ run.phase = "before" => \A x \in Nodes : result[x] # "success"
    BY <1>1 DEF WorkerInv
  <1> QED
    BY <1>3, <1>4, <1>5, <1>6, <1>7 DEF WorkerInv

\* What is true of a new connection
LEMMA FreshMeans ==
    ASSUME NEW d, IsDb(d), NEW n, OwnOK(d, n), NEW c, c.ops = <<>>, c.server \/ ~c.auto, NEW open \in BOOLEAN, c.open = open
    PROVE  Means(d, c, n, [tx |-> "in", open |-> open, tgt |-> "same", tmp |-> "any", bak |-> "any"])
  <1> DEFINE a == [tx |-> "in", open |-> open, tgt |-> "same", tmp |-> "any", bak |-> "any"]
  <1>1. /\ a \in AState /\ a.open = c.open /\ a.tx = "in" /\ a.tgt = "same" /\ a.tmp # "none" /\ a.bak # "none"
    BY DEF AState
  <1>2. Applied(d, c.ops) = d /\ Mod(c.ops) = {}
    BY AppliedNone, LocalNone
  <1>3. /\ \A x \in Own(n) : AtMostOne(d, x)
        /\ \A i \in DOMAIN d : d[i].name \in Own(n) => d[i].rows # 0 \/ NeverBegins(n)
    BY DEF OwnOK
  <1>4. NeverBegins(n) \/ TargetIs(d, c.ops, n, "same")
    BY <1>2, <1>3 DEF TargetIs
  <1> HIDE DEF a
  <1>5. Means(d, c, n, a)
    BY <1>1, <1>2, <1>3, <1>4 DEF Means
  <1> QED
    BY <1>5 DEF a

\* The connection after the query for the relation
Queried == [open |-> TRUE, server |-> TRUE, auto |-> FALSE, ops |-> <<>>]

LEMMA FreshFacts ==
    /\ IsConn(Fresh) /\ Fresh.ops = <<>> /\ Fresh.server = FALSE /\ Fresh.auto = FALSE /\ Fresh.open = FALSE
    /\ IsConn(Queried) /\ Queried.ops = <<>> /\ Queried.server = TRUE /\ Queried.auto = FALSE /\ Queried.open = TRUE
    /\ [Fresh EXCEPT !.open = @ \/ TRUE, !.server = TRUE, !.ops = @ \o <<>>] = Queried
  <1>1. IsOps(<<>>)
    BY SMT DEF IsOps, IsSeq, Range
  <1>2. IsConn(Fresh) /\ Fresh.ops = <<>> /\ Fresh.server = FALSE /\ Fresh.auto = FALSE /\ Fresh.open = FALSE
    BY <1>1 DEF Fresh, IsConn
  <1>3. IsConn(Queried) /\ Queried.ops = <<>> /\ Queried.server = TRUE /\ Queried.auto = FALSE /\ Queried.open = TRUE
    BY <1>1 DEF Queried, IsConn
  <1>4. [Fresh EXCEPT !.open = @ \/ TRUE, !.server = TRUE, !.ops = @ \o <<>>] = Queried
    <2>1. [Fresh EXCEPT !.open = @ \/ TRUE, !.server = TRUE, !.ops = @ \o <<>>]
            = [open |-> Fresh.open \/ TRUE, server |-> TRUE, auto |-> Fresh.auto, ops |-> Fresh.ops \o <<>>]
      <3>1. \A x, y, z : [Fresh EXCEPT !.open = x, !.server = y, !.ops = z]
                           = [open |-> x, server |-> y, auto |-> Fresh.auto, ops |-> z]
        BY <1>2, ConnExcept
      <3> QED
        BY <3>1
    <2>2. (Fresh.open \/ TRUE) = TRUE /\ Fresh.ops \o <<>> = <<>> /\ Fresh.auto = FALSE
      BY <1>2, SMT
    <2> QED
      BY <2>1, <2>2 DEF Queried
  <1> QED
    BY <1>2, <1>3, <1>4

LEMMA GetRelationKeeps ==
    ASSUME IInv, FramesInv, NEW t \in Threads, GetRelation(t)
    PROVE  IInv' /\ TargetsKept
  <1> DEFINE n == worker[t].node
             c == conn'[t]
             open == IF UseCache THEN FALSE ELSE TRUE
             a == [tx |-> "in", open |-> open, tgt |-> "same", tmp |-> "any", bak |-> "any"]
  <1>1. /\ worker[t].pc = "look" /\ UNCHANGED <<run, kind, result, frames>>
        /\ IF UseCache THEN conn' = conn /\ db' = db ELSE Execute(t, TRUE, <<>>)
        /\ \E old : worker' = [worker EXCEPT ![t].pc = "run", ![t].program = Program(n, old, run.full)]
    BY DEF GetRelation
  <1>2. PICK old : worker' = [worker EXCEPT ![t].pc = "run", ![t].program = Program(n, old, run.full)]
    BY <1>1
  <1> DEFINE program == Program(n, old, run.full)
  <1>3. /\ worker[t] # Idle /\ WorkerType(worker[t]) /\ n \in Models /\ frames[t] = <<>> /\ conn[t] = Fresh
        /\ worker = [u \in Threads |-> worker[u]] /\ conn = [u \in Threads |-> conn[u]] /\ IsDb(db) /\ \E F : Bounded(F)
        /\ result[n] = "running" /\ kind[n] \in {"table", "view", "incremental", "seed"}
    <2>1. worker[t] # Idle
      BY <1>1, SMT DEF Idle
    <2> QED
      BY <1>1, <2>1 DEF IInv, WorkerInv, ConnInv, DbInv
  <1> HIDE DEF program
  <1>4. worker' = [worker EXCEPT ![t] = [node |-> n, pc |-> "run", program |-> program]]
    <2>1. worker[t] = [node |-> worker[t].node, pc |-> worker[t].pc, program |-> worker[t].program]
      BY <1>3 DEF WorkerType
    <2>2. [worker[t] EXCEPT !.pc = "run"] = [node |-> n, pc |-> "run", program |-> worker[t].program]
      BY <2>1, SMT
    <2>3. [[node |-> n, pc |-> "run", program |-> worker[t].program] EXCEPT !.program = program]
            = [node |-> n, pc |-> "run", program |-> program]
      BY SMT
    <2>4. worker' = [worker EXCEPT ![t] = [[worker[t] EXCEPT !.pc = "run"] EXCEPT !.program = program]]
      BY <1>2, <1>3 DEF program
    <2> QED
      BY <2>2, <2>3, <2>4
  <1>5. /\ worker'[t].node = n /\ worker'[t].pc = "run" /\ worker'[t].program = program
        /\ worker' = [worker EXCEPT ![t] = worker'[t]]
    BY <1>3, <1>4
  <1>6. /\ db' = db /\ conn' = [conn EXCEPT ![t] = c] /\ c.ops = <<>> /\ (c.server \/ ~c.auto) /\ c.open = open /\ IsConn(c)
    <2>1. CASE UseCache
      <3>1. db' = db /\ c = Fresh /\ conn' = [conn EXCEPT ![t] = c]
        BY <1>1, <1>3, <2>1
      <3> HIDE DEF c
      <3> QED
        BY <2>1, <3>1, FreshFacts
    <2>2. CASE ~UseCache
      <3>1. Fresh.auto = FALSE
        BY FreshFacts
      <3>2. /\ conn' = [conn EXCEPT ![t] = [Fresh EXCEPT !.open = @ \/ TRUE, !.server = TRUE, !.ops = @ \o <<>>]]
            /\ db' = db
        BY <1>1, <1>3, <2>2, <3>1 DEF Execute
      <3>3. [Fresh EXCEPT !.open = @ \/ TRUE, !.server = TRUE, !.ops = @ \o <<>>] = Queried
        BY FreshFacts
      <3>4. c = Queried /\ conn' = [conn EXCEPT ![t] = c]
        BY <1>3, <3>2, <3>3
      <3> HIDE DEF c
      <3> QED
        BY <2>2, <3>2, <3>4, FreshFacts
    <2> QED
      BY <2>1, <2>2
  <1>7. IsOps(<<>>) /\ Apart(t, <<>>) /\ \A d, m : Local(d, <<>>, m)
    BY LocalNone, SMT DEF IsOps, IsSeq, Range, Apart
  <1>8. db' = Applied(db, <<>>) /\ OwnOK(db, n) /\ Stays(db, db, n)
    BY <1>3, <1>6, AppliedNone DEF IInv, DbInv, OwnOK, Stays
  <1>9. Makes(t, <<>>)
    BY <1>3, <1>1, <1>5, <1>6, <1>7, <1>8 DEF Makes
  <1>10. WorkerInv'
    <2>1. \A u \in Threads : frames'[u] = <<>> \/ (u # t /\ frames'[u] = frames[u])
      BY <1>1, <1>3
    <2> QED
      BY <1>1, <1>3, <1>4, <2>1, WorkerKeeps
  <1>11. PICK F : Bounded(F)
    BY <1>3
  <1>12. (\E H : Bounded(H))'
    <2>1. IsFiniteSet(F) /\ F \subseteq F /\ Range(<<>>) = {}
      BY <1>11, SMT DEF Bounded, Range
    <2>2. (\A op \in Range(<<>>) : OpIds(op) \subseteq F) /\ (\A op \in Range(conn'[t].ops) : OpIds(op) \subseteq F)
      BY <1>6, <2>1
    <2> QED
      BY <1>3, <1>6, <1>7, <1>8, <1>11, <2>1, <2>2, BoundedKeeps
  <1>13. DbInv' /\ TargetsKept
    BY <1>6, <1>8, <1>9, <1>12, DbKeeps
  <1>14. ConnInv'
    BY <1>5, <1>6, <1>7, <1>9, ConnKeeps, SMT
  <1>15. ProgramInv'
    <2>1. Means(db', c, n, a)
      <3>1. open \in BOOLEAN
        OBVIOUS
      <3> HIDE DEF open, c
      <3> QED
        BY <1>3, <1>6, <1>8, <3>1, FreshMeans
    <2>2. Begun(n, a) /\ a.tx = "in" /\ a \in AState
      BY DEF Begun, Stage, AState
    <2> HIDE DEF a
    <2>3. Safe(n, DropsBefore(n), a, program, kind[n])
      BY <1>3, <2>2, ProgramSafe, SMT DEF program
    <2>4. Running(db', conn'[t], worker'[t], kind[n], DropsBefore(n))
      BY <1>5, <2>1, <2>2, <2>3 DEF Running, Safe
    <2> QED
      BY <1>5, <1>9, <2>4, ProgramKeeps
  <1>16. NoLeftovers'
    <2>1. \A m \in Models : result'[m] = "success" => m # worker[t].node /\ result[m] = "success"
      BY <1>1, <1>3
    <2> QED
      BY <1>9, <2>1, LeftoversKeep
  <1> QED
    BY <1>10, <1>13, <1>14, <1>15, <1>16 DEF IInv
-----------------------------------------------------------------------------
(* Steps that leave the database and the connections alone *)

LEMMA QuietKeeps ==
    ASSUME IInv, WorkerInv', UNCHANGED <<conn, db>>,
           \A t \in Threads : worker'[t] = worker[t] \/ (conn[t] = Fresh /\ worker'[t].pc # "run"),
           \A t \in Threads : worker'[t].pc = "run" => run' = run /\ kind' = kind,
           \A m \in Models : result'[m] = "success" /\ run'.phase = "nodes" =>
             result[m] = "success" /\ run.phase = "nodes" /\ kind' = kind
    PROVE  IInv' /\ TargetsKept
  <1>1. DbInv'
    <2>1. DbInv /\ db' = db /\ conn' = conn
      BY DEF IInv
    <2>2. (\E F : Bounded(F))'
      BY <2>1 DEF DbInv, Bounded
    <2>3. \A m : NeverBegins(m)' = NeverBegins(m)
      BY DEF NeverBegins
    <2> QED
      BY <2>1, <2>2, <2>3 DEF DbInv
  <1>2. ConnInv'
    <2>1. ConnInv /\ db' = db /\ conn' = conn
      BY DEF IInv
    <2>2. ASSUME NEW t \in Threads
          PROVE  /\ IsConn(conn[t]) /\ Local(db, conn[t].ops, worker'[t].node)
                 /\ worker'[t].pc # "run" => conn[t] = Fresh
      <3>1. CASE worker'[t] = worker[t]
        BY <2>1, <3>1 DEF ConnInv
      <3>2. CASE conn[t] = Fresh
        BY <3>2, FreshFacts, LocalNone, SMT
      <3> QED
        BY <3>1, <3>2
    <2> QED
      BY <2>1, <2>2 DEF ConnInv
  <1>3. ProgramInv'
    <2>1. ASSUME NEW t \in Threads, worker'[t].pc = "run"
          PROVE  /\ worker'[t] = worker[t] /\ run' = run /\ kind' = kind
                 /\ Running(db, conn[t], worker[t], kind[worker[t].node], DropsBefore(worker[t].node))
      BY <2>1 DEF IInv, ProgramInv, Running
    <2>2. ASSUME run' = run, kind' = kind PROVE \A n : DropsBefore(n)' = DropsBefore(n)
      BY <2>2 DEF DropsBefore
    <2>3. ASSUME NEW t \in Threads, worker'[t].pc = "run"
          PROVE  (LET n == worker[t].node
                  IN \E a, b \in AState : /\ Means(db, conn[t], n, a) /\ Final(kind[n], b)
                                          /\ Runs(n, DropsBefore(n), a, worker[t].program, b))'
      <3>1. /\ worker'[t] = worker[t] /\ run' = run /\ kind' = kind
            /\ Running(db, conn[t], worker[t], kind[worker[t].node], DropsBefore(worker[t].node))
        BY <2>1, <2>3
      <3>2. \A n : DropsBefore(n)' = DropsBefore(n)
        BY <2>2, <3>1
      <3> QED
        BY <3>1, <3>2 DEF Running
    <2> QED
      BY <2>3 DEF ProgramInv
  <1>4. NoLeftovers'
    BY DEF IInv, NoLeftovers
  <1>5. TargetsKept
    BY DEF TargetsKept, Stays
  <1> QED
    BY <1>1, <1>2, <1>3, <1>4, <1>5 DEF IInv

\* Between invocations, and before the nodes, no thread has one
LEMMA NobodyRuns ==
    ASSUME IInv, run.phase # "nodes", NEW t \in Threads PROVE worker[t] = Idle /\ worker[t].pc = "idle"
  BY SMT DEF IInv, WorkerInv, Idle

LEMMA InvokeKeeps ==
    ASSUME IInv, Invoke
    PROVE  IInv' /\ TargetsKept
  <1>1. /\ run.phase = "over" /\ UNCHANGED <<kind, worker, frames, conn, db>>
        /\ \E command, full : run' = [no |-> run.no + 1, command |-> command, phase |-> "before", full |-> full]
        /\ \E S : result' = [n \in Nodes |-> IF n \in S THEN "waiting" ELSE "none"]
    BY DEF Invoke
  <1>2. \A t \in Threads : worker[t] = Idle /\ worker[t].pc = "idle"
    BY <1>1, NobodyRuns
  <1>3. /\ run' = [no |-> run'.no, command |-> run'.command, phase |-> run'.phase, full |-> run'.full]
        /\ run'.no \in Nat /\ run'.phase = "before"
    BY <1>1, SMT DEF IInv, WorkerInv
  <1>4. result' = [n \in Nodes |-> result'[n]] /\ \A n \in Nodes : result'[n] # "success"
    BY <1>1
  <1>5. WorkerInv'
    BY <1>1, <1>2, <1>3, <1>4 DEF IInv, WorkerInv
  <1> QED
    BY <1>1, <1>2, <1>3, <1>5, QuietKeeps

LEMMA BeforeRunKeeps ==
    ASSUME IInv, BeforeRun
    PROVE  IInv' /\ TargetsKept
  <1>1. run.phase = "before" /\ run' = [run EXCEPT !.phase = "nodes"] /\ UNCHANGED <<kind, result, worker, frames, conn, db>>
    BY DEF BeforeRun
  <1>2. \A t \in Threads : worker[t] = Idle /\ worker[t].pc = "idle"
    BY <1>1, NobodyRuns
  <1>3. /\ run' = [no |-> run'.no, command |-> run'.command, phase |-> run'.phase, full |-> run'.full]
        /\ run'.no \in Nat /\ run'.phase = "nodes"
    BY <1>1 DEF IInv, WorkerInv
  <1>4. WorkerInv'
    BY <1>1, <1>2, <1>3 DEF IInv, WorkerInv
  <1>5. \A m \in Models : result'[m] # "success"
    BY <1>1 DEF IInv, WorkerInv, Nodes
  <1> QED
    BY <1>1, <1>2, <1>4, <1>5, QuietKeeps

LEMMA EndRunKeeps ==
    ASSUME IInv, EndRun
    PROVE  IInv' /\ TargetsKept
  <1>1. /\ run.phase = "nodes" /\ run' = [run EXCEPT !.phase = "over"]
        /\ \A n \in Nodes : result[n] # "running"
        /\ UNCHANGED <<kind, result, worker, frames, conn, db>>
    BY DEF EndRun
  <1>2. \A t \in Threads : worker[t] = Idle /\ worker[t].pc = "idle"
    BY <1>1, SMT DEF IInv, WorkerInv, Idle
  <1>3. /\ run' = [no |-> run'.no, command |-> run'.command, phase |-> run'.phase, full |-> run'.full]
        /\ run'.no \in Nat /\ run'.phase = "over"
    BY <1>1 DEF IInv, WorkerInv
  <1>4. WorkerInv'
    BY <1>1, <1>2, <1>3 DEF IInv, WorkerInv
  <1> QED
    BY <1>1, <1>2, <1>3, <1>4, QuietKeeps

LEMMA EditKeeps ==
    ASSUME IInv, Edit
    PROVE  IInv' /\ TargetsKept
  <1>1. /\ run.phase = "over" /\ UNCHANGED <<run, result, worker, frames, conn, db>>
        /\ \E m \in Models, k \in EditKinds : kind' = [kind EXCEPT ![m] = k]
    BY DEF Edit
  <1>2. \A t \in Threads : worker[t] = Idle /\ worker[t].pc = "idle"
    BY <1>1, NobodyRuns
  <1>3. kind' \in [Models -> {"table", "view", "incremental", "seed"}]
    BY <1>1, ExecuteAssumption, SMT DEF IInv, WorkerInv
  <1>4. WorkerInv'
    BY <1>1, <1>2, <1>3 DEF IInv, WorkerInv
  <1> QED
    BY <1>1, <1>2, <1>4, QuietKeeps

LEMMA DieKeeps ==
    ASSUME IInv, Die
    PROVE  IInv' /\ TargetsKept
  <1>1. /\ run' = [run EXCEPT !.phase = "over"] /\ UNCHANGED <<kind, db>>
        /\ result' = [n \in Nodes |-> IF result[n] = "success" THEN "success" ELSE "none"]
        /\ worker' = [t \in Threads |-> Idle] /\ frames' = [t \in Threads |-> <<>>] /\ conn' = [t \in Threads |-> Fresh]
    BY DEF Die
  <1>2. \A t \in Threads : worker'[t] = Idle /\ Idle.pc = "idle" /\ WorkerType(Idle) /\ frames'[t] = <<>> /\ conn'[t] = Fresh
    BY <1>1 DEF Idle, WorkerType
  <1>3. /\ run' = [no |-> run'.no, command |-> run'.command, phase |-> run'.phase, full |-> run'.full]
        /\ run'.no \in Nat /\ run'.phase = "over"
    BY <1>1 DEF IInv, WorkerInv
  <1>4. WorkerInv'
    BY <1>1, <1>2, <1>3 DEF IInv, WorkerInv
  <1>5. ConnInv'
    <2>1. /\ IsConn(Fresh) /\ Mod(Fresh.ops) = {} /\ \A d, n : Local(d, Fresh.ops, n)
      BY FreshFacts, LocalNone
    <2>2. (conn = [t \in Threads |-> conn[t]])'
      BY <1>1
    <2> QED
      BY <1>2, <2>1, <2>2 DEF ConnInv
  <1>6. DbInv'
    <2>1. PICK F : Bounded(F)
      BY DEF IInv, DbInv
    <2>2. DOMAIN Fresh.ops = {}
      BY FreshFacts, SMT
    <2>3. Bounded(F)'
      BY <1>1, <1>2, <2>1, <2>2 DEF Bounded
    <2> QED
      BY <1>1, <2>3 DEF IInv, DbInv, NeverBegins
  <1>7. ProgramInv'
    BY <1>2 DEF ProgramInv
  <1>8. NoLeftovers'
    BY <1>3 DEF NoLeftovers
  <1>9. TargetsKept
    BY <1>1 DEF TargetsKept, Stays
  <1> QED
    BY <1>4, <1>5, <1>6, <1>7, <1>8, <1>9 DEF IInv

LEMMA StartKeeps ==
    ASSUME IInv, CountInv, FramesInv, NEW t \in Threads, NEW n \in Nodes, Start(t, n)
    PROVE  IInv' /\ TargetsKept
  <1> DEFINE w == [node |-> n, pc |-> "compile", program |-> <<>>]
  <1>1. /\ run.phase = "nodes" /\ worker[t] = Idle /\ result[n] = "waiting"
        /\ result' = [result EXCEPT ![n] = "running"] /\ worker' = [worker EXCEPT ![t] = w]
        /\ frames' = [frames EXCEPT ![t] = <<Frame(n)>>] /\ UNCHANGED <<run, kind, conn, db>>
    BY DEF Start
  <1>2. /\ WorkerInv /\ worker = [u \in Threads |-> worker[u]] /\ result = [x \in Nodes |-> result[x]]
        /\ frames \in [Threads -> Seq(FrameType)] /\ conn[t] = Fresh
    BY <1>1, SMT DEF IInv, WorkerInv, FramesInv, ConnInv, Idle
  <1>3. w # Idle /\ WorkerType(w) /\ w.node = n /\ w.pc = "compile" /\ <<Frame(n)>>[1].node = n
    BY DEF Idle, WorkerType, Frame
  <1> HIDE DEF w
  <1>4. /\ worker' = [u \in Threads |-> worker'[u]] /\ worker'[t] = w /\ frames'[t] = <<Frame(n)>>
        /\ \A u \in Threads \ {t} : worker'[u] = worker[u] /\ frames'[u] = frames[u]
        /\ result' = [x \in Nodes |-> result'[x]] /\ result'[n] = "running" /\ \A x \in Nodes \ {n} : result'[x] = result[x]
    BY <1>1, <1>2
  <1>5. run.no \in Nat /\ run.no > 0
    BY <1>1, <1>2 DEF WorkerInv, CountInv
  <1>6. ASSUME NEW u \in Threads \ {t}, worker[u] # Idle PROVE worker[u].node # n
    BY <1>1, <1>2, <1>6 DEF WorkerInv
  <1>7. ASSUME NEW u \in Threads
        PROVE  /\ WorkerType(worker'[u])
               /\ worker'[u] # Idle => /\ run.phase = "nodes" /\ run.no > 0
                                       /\ worker'[u].node \in Nodes /\ result'[worker'[u].node] = "running"
                                       /\ worker'[u].pc \in {"compile", "look", "run"}
               /\ frames'[u] # <<>> => worker'[u].pc = "compile" /\ frames'[u][1].node = worker'[u].node
               /\ worker'[u].pc \in {"look", "run"} => worker'[u].node \in Models
    <2>1. CASE u = t
      BY <1>1, <1>3, <1>4, <1>5, <2>1, SMT
    <2>2. CASE u # t
      BY <1>2, <1>4, <1>6, <2>2, SMT DEF WorkerInv
    <2> QED
      BY <2>1, <2>2
  <1>8. ASSUME NEW u \in Threads, NEW v \in Threads, worker'[u].node = worker'[v].node PROVE u = v \/ worker'[u] = Idle
    <2>1. CASE u # t /\ v # t
      BY <1>2, <1>4, <1>8, <2>1, SMT DEF WorkerInv
    <2>2. CASE u # t /\ v = t
      BY <1>3, <1>4, <1>6, <1>8, <2>2, SMT
    <2>3. CASE u = t /\ v # t
      <3>1. worker[v].node = n
        BY <1>3, <1>4, <1>8, <2>3
      <3>2. worker[v] # Idle
        BY <3>1, ExecuteAssumption, SMT DEF Idle
      <3> QED
        BY <1>6, <2>3, <3>1, <3>2
    <2> QED
      BY <2>1, <2>2, <2>3
  <1>9. WorkerInv'
    <2>1. /\ kind \in [Models -> {"table", "view", "incremental", "seed"}]
          /\ run = [no |-> run.no, command |-> run.command, phase |-> run.phase, full |-> run.full]
      BY <1>2 DEF WorkerInv
    <2> QED
      BY <1>1, <1>4, <1>5, <1>7, <1>8, <2>1 DEF WorkerInv
  <1>10. \A m \in Models : result'[m] = "success" => result[m] = "success"
    BY <1>4 DEF Nodes
  <1>11. \A u \in Threads : worker'[u] = worker[u] \/ (conn[u] = Fresh /\ worker'[u].pc # "run")
    BY <1>2, <1>3, <1>4
  <1> QED
    BY <1>1, <1>9, <1>10, <1>11, QuietKeeps

\* Compiling goes on with the nodes that it has in the frames
LEMMA FramesKeep ==
    ASSUME IInv, FramesInv, NEW t \in Threads, frames[t] # <<>>, NEW s, frames' = [frames EXCEPT ![t] = s],
           s[1].node = frames[t][1].node, UNCHANGED <<run, kind, result, worker, conn, db>>
    PROVE  IInv' /\ TargetsKept
  <1>1. frames \in [Threads -> Seq(FrameType)]
    BY DEF FramesInv
  <1>2. frames'[t] = s /\ \A u \in Threads \ {t} : frames'[u] = frames[u]
    BY <1>1
  <1>3. ASSUME NEW u \in Threads, frames'[u] # <<>>
        PROVE  worker[u].pc = "compile" /\ frames'[u][1].node = worker[u].node
    BY <1>2, <1>3, SMT DEF IInv, WorkerInv
  <1>4. WorkerInv'
    BY <1>3 DEF IInv, WorkerInv
  <1> QED
    BY <1>4, QuietKeeps

LEMMA PrependKeeps ==
    ASSUME IInv, FramesInv, NEW t \in Threads, PrependCte(t)
    PROVE  IInv' /\ TargetsKept
  <1> DEFINE s == frames[t]
             e == Head(Top(t).todo)
             r == [s EXCEPT ![Len(s)] = Prepended(Top(t), compiled[e])]
  <1>1. /\ s # <<>> /\ UNCHANGED <<run, kind, result, worker, conn, db>>
        /\ frames' = [frames EXCEPT ![t] = IF compiled[e] # None THEN r ELSE Append(s, Frame(e))]
    BY DEF PrependCte
  <1>2. s \in Seq(FrameType) /\ Len(s) \in Nat \ {0} /\ Top(t) = s[Len(s)] /\ \A i \in 1..Len(s) : s[i] \in FrameType
    BY <1>1, SMT DEF FramesInv, Top
  <1>3. Append(s, Frame(e))[1] = s[1]
    BY <1>2, SMT
  <1>4. \A f \in FrameType : \A more : Prepended(f, more).node = f.node
    BY DEF Prepended, FrameType
  <1>5. r[1].node = s[1].node
    <2>1. Prepended(Top(t), compiled[e]).node = s[Len(s)].node
      BY <1>2, <1>4, SMT
    <2> HIDE DEF e, s
    <2>2. CASE Len(s) = 1
      BY <1>2, <2>1, <2>2, SMT
    <2>3. CASE Len(s) # 1
      BY <1>2, <2>3, SMT
    <2> QED
      BY <2>2, <2>3
  <1> HIDE DEF r, e
  <1>6. (IF compiled[e] # None THEN r ELSE Append(s, Frame(e)))[1].node = s[1].node
    BY <1>3, <1>5
  <1> QED
    BY <1>1, <1>6, FramesKeep

LEMMA InjectKeeps ==
    ASSUME IInv, FramesInv, NEW t \in Threads, InjectCtes(t)
    PROVE  IInv' /\ TargetsKept
  <1> DEFINE s == frames[t]
             n == Top(t).node
             k == Len(s) - 1
             r == [SubSeq(s, 1, k) EXCEPT ![k] = Prepended(s[k], Top(t).ctes)]
  <1>1. s # <<>> /\ UNCHANGED <<run, kind, conn, db>>
    BY DEF InjectCtes
  <1>2. s \in Seq(FrameType) /\ Len(s) \in Nat \ {0} /\ Top(t) = s[Len(s)] /\ \A i \in 1..Len(s) : s[i] \in FrameType
    BY <1>1, SMT DEF FramesInv, Top
  <1>3. /\ worker[t].pc = "compile" /\ worker[t].node = s[1].node /\ worker[t] # Idle /\ WorkerType(worker[t])
        /\ worker = [u \in Threads |-> worker[u]] /\ conn = [u \in Threads |-> conn[u]] /\ worker[t].node \in Nodes
        /\ IsDb(db) /\ conn[t] = Fresh /\ frames \in [Threads -> Seq(FrameType)]
    <2>1. worker[t].pc = "compile" /\ worker[t].node = s[1].node
      BY <1>1 DEF IInv, WorkerInv
    <2>2. worker[t] # Idle
      BY <2>1, SMT DEF Idle
    <2> QED
      BY <2>1, <2>2 DEF IInv, WorkerInv, ConnInv, DbInv, FramesInv
  <1>4. CASE k > 0
    <2>1. frames' = [frames EXCEPT ![t] = r] /\ UNCHANGED <<worker, result>>
      BY <1>4 DEF InjectCtes
    <2>2. r[1].node = s[1].node
      <3>1. \A f \in FrameType : \A more : Prepended(f, more).node = f.node
        BY DEF Prepended, FrameType
      <3>2. s[k] \in FrameType /\ k \in Nat
        BY <1>2, <1>4, SMT
      <3>3. Prepended(s[k], Top(t).ctes).node = s[k].node
        BY <3>1, <3>2
      <3>4. SubSeq(s, 1, k)[1] = s[1] /\ DOMAIN SubSeq(s, 1, k) = 1..k
        BY <1>2, <1>4, SMT
      <3> HIDE DEF s, k
      <3>5. CASE k = 1
        BY <3>3, <3>4, <3>5, SMT
      <3>6. CASE k # 1
        <4> HIDE DEF r
        <4>1. r = [SubSeq(s, 1, k) EXCEPT ![k] = Prepended(s[k], Top(t).ctes)]
          BY DEF r
        <4> DEFINE q == SubSeq(s, 1, k)
        <4>2. 1 \in DOMAIN q /\ q[1] = s[1]
          BY <1>4, <3>2, <3>4, SMT
        <4> HIDE DEF q
        <4>3. [q EXCEPT ![k] = Prepended(s[k], Top(t).ctes)][1] = q[1]
          BY <3>6, <4>2
        <4> QED
          BY <4>1, <4>2, <4>3 DEF q
      <3> QED
        BY <3>5, <3>6
    <2> HIDE DEF r
    <2> QED
      BY <1>1, <2>1, <2>2, FramesKeep
  <1>5. CASE ~(k > 0)
    <2>1. n = worker[t].node
      BY <1>2, <1>3, <1>5, SMT
    <2>2. CASE n \in Ephemerals
      <3>1. Finish(t, "success")
        BY <1>5, <2>2 DEF InjectCtes
      <3>2. conn' = [conn EXCEPT ![t] = Fresh]
        BY <1>1, <1>3
      <3>3. db' = Applied(db, <<>>) /\ <<>> \in {<<>>, conn[t].ops}
        BY <1>1, <1>3, AppliedNone
      <3>4. n \notin Models /\ UNCHANGED <<run, kind>> /\ "success" # "running"
        BY <1>1, <2>2, ExecuteAssumption
      <3> HIDE DEF n
      <3> QED
        BY <1>3, <2>1, <3>1, <3>2, <3>3, <3>4, EndKeeps
    <2>3. CASE n \notin Ephemerals
      <3>1. /\ worker' = [worker EXCEPT ![t].pc = "look"] /\ frames' = [frames EXCEPT ![t] = <<>>] /\ UNCHANGED result
        BY <1>5, <2>3 DEF InjectCtes
      <3>2. worker[t].node \in Models
        BY <1>3, <2>1, <2>3 DEF Nodes
      <3>3. worker' = [worker EXCEPT ![t] = [node |-> worker[t].node, pc |-> "look", program |-> worker[t].program]]
        <4>1. worker[t] = [node |-> worker[t].node, pc |-> worker[t].pc, program |-> worker[t].program]
          BY <1>3 DEF WorkerType
        <4>2. [worker[t] EXCEPT !.pc = "look"] = [node |-> worker[t].node, pc |-> "look", program |-> worker[t].program]
          BY <4>1, SMT
        <4>3. worker' = [worker EXCEPT ![t] = [worker[t] EXCEPT !.pc = "look"]]
          BY <3>1
        <4> QED
          BY <4>2, <4>3
      <3>4. \A u \in Threads : frames'[u] = <<>> \/ (u # t /\ frames'[u] = frames[u])
        BY <1>3, <3>1
      <3>5. UNCHANGED <<run, kind, result>> /\ "look" \in {"look", "run"}
        BY <1>1, <3>1
      <3>6. WorkerInv'
        BY <1>3, <3>2, <3>3, <3>4, <3>5, WorkerKeeps
      <3>7. \A u \in Threads : worker'[u] = worker[u] \/ (conn[u] = Fresh /\ worker'[u].pc # "run")
        BY <1>3, <3>3
      <3> QED
        BY <1>1, <3>5, <3>6, <3>7, QuietKeeps
    <2> QED
      BY <2>2, <2>3
  <1> QED
    BY <1>4, <1>5

LEMMA CountKeeps == IInv /\ CountInv /\ [Next]_vars => CountInv'
  <1> SUFFICES ASSUME IInv, CountInv, [Next]_vars PROVE CountInv'
    OBVIOUS
  <1>1. run = [no |-> run.no, command |-> run.command, phase |-> run.phase, full |-> run.full] /\ run.no \in Nat
    BY DEF IInv, WorkerInv
  <1>2. ASSUME run' = run PROVE CountInv'
    BY <1>2 DEF CountInv
  <1>3. ASSUME Invoke PROVE CountInv'
    <2>1. PICK command, full : run' = [no |-> run.no + 1, command |-> command, phase |-> "before", full |-> full]
      BY <1>3 DEF Invoke
    <2> QED
      BY <1>1, <2>1, SMT DEF CountInv
  <1>4. ASSUME BeforeRun PROVE CountInv'
    BY <1>1, <1>4 DEF BeforeRun, CountInv
  <1>5. ASSUME EndRun \/ Die PROVE CountInv'
    BY <1>1, <1>5 DEF EndRun, Die, CountInv
  <1>6. ASSUME Edit \/ Done \/ UNCHANGED vars PROVE run' = run
    BY <1>6 DEF Edit, Done, vars
  <1>7. ASSUME NEW t \in Threads, NEW n \in Nodes, Start(t, n) PROVE run' = run
    BY <1>7 DEF Start
  <1>8. ASSUME NEW t \in Threads,
               \/ PrependCte(t) \/ InjectCtes(t) \/ GetRelation(t)
               \/ CacheStep(t) \/ Drop(t) \/ Create(t) \/ Change(t) \/ Hook(t) \/ CommitStep(t) \/ Return(t)
               \/ Refused(t) \/ Fault(t)
        PROVE  run' = run
    BY <1>8 DEF PrependCte, InjectCtes, GetRelation, CacheStep, Drop, Create, Change, Hook, CommitStep, Return,
                       Refused, Fail, Fault, Statement
  <1> QED
    BY <1>2, <1>3, <1>4, <1>5, <1>6, <1>7, <1>8 DEF Next

LEMMA NextKeeps == IInv /\ CountInv /\ FramesInv /\ [Next]_vars => IInv' /\ TargetsKept
  <1> SUFFICES ASSUME IInv, CountInv, FramesInv, [Next]_vars PROVE IInv' /\ TargetsKept
    OBVIOUS
  <1>1. ASSUME Invoke \/ BeforeRun \/ EndRun \/ Edit \/ Die PROVE IInv' /\ TargetsKept
    BY <1>1, InvokeKeeps, BeforeRunKeeps, EndRunKeeps, EditKeeps, DieKeeps
  <1>2. ASSUME Done \/ UNCHANGED vars PROVE IInv' /\ TargetsKept
    <2>1. UNCHANGED <<run, kind, result, worker, frames, conn, db>>
      BY <1>2 DEF Done, vars
    <2>2. WorkerInv'
      BY <2>1 DEF IInv, WorkerInv
    <2> QED
      BY <2>1, <2>2, QuietKeeps
  <1>3. ASSUME NEW t \in Threads, NEW n \in Nodes, Start(t, n) PROVE IInv' /\ TargetsKept
    BY <1>3, StartKeeps
  <1>4. ASSUME NEW t \in Threads, PrependCte(t) \/ InjectCtes(t) \/ GetRelation(t) PROVE IInv' /\ TargetsKept
    BY <1>4, PrependKeeps, InjectKeeps, GetRelationKeeps
  <1>5. ASSUME NEW t \in Threads, CacheStep(t) \/ Drop(t) \/ Create(t) \/ Change(t) \/ Hook(t) \/ CommitStep(t)
        PROVE  IInv' /\ TargetsKept
    BY <1>5, CacheKeeps, StatementsKeep, CommitKeeps
  <1>6. ASSUME NEW t \in Threads, Return(t) \/ Refused(t) \/ Fault(t) PROVE IInv' /\ TargetsKept
    BY <1>6, ReturnKeeps, RefusedKeeps, FaultKeeps
  <1> QED
    BY <1>1, <1>2, <1>3, <1>4, <1>5, <1>6 DEF Next

LEMMA InitKeeps == Init => IInv /\ CountInv
  <1> SUFFICES ASSUME Init PROVE IInv /\ CountInv
    OBVIOUS
  <1>1. /\ run = [no |-> 0, command |-> None, phase |-> "over", full |-> FALSE] /\ kind = Kinds
        /\ result = [n \in Nodes |-> "none"] /\ worker = [t \in Threads |-> Idle] /\ frames = [t \in Threads |-> <<>>]
        /\ conn = [t \in Threads |-> Fresh] /\ db = Empty
    BY DEF Init
  <1>2. \A t \in Threads : worker[t] = Idle /\ Idle.pc = "idle" /\ WorkerType(Idle) /\ frames[t] = <<>> /\ conn[t] = Fresh
    BY <1>1 DEF Idle, WorkerType
  <1>3. /\ run = [no |-> run.no, command |-> run.command, phase |-> run.phase, full |-> run.full]
        /\ run.no \in Nat /\ run.phase = "over"
    BY <1>1
  <1>4. WorkerInv
    BY <1>1, <1>2, <1>3, ExecuteAssumption DEF WorkerInv
  <1>5. ConnInv
    <2>1. /\ IsConn(Fresh) /\ Mod(Fresh.ops) = {} /\ \A d, n : Local(d, Fresh.ops, n)
      BY FreshFacts, LocalNone
    <2> QED
      BY <1>1, <1>2, <2>1 DEF ConnInv
  <1>6. DOMAIN db = {} /\ DOMAIN Fresh.ops = {}
    BY <1>1, FreshFacts, SMT DEF Empty
  <1>7. DbInv
    <2>1. Bounded({})
      BY <1>1, <1>2, <1>6, FS_EmptySet DEF Bounded
    <2>2. IsDb(db)
      BY <1>1, <1>6 DEF IsDb, Empty
    <2> QED
      BY <1>6, <2>1, <2>2 DEF DbInv, AtMostOne, Named
  <1>8. ProgramInv
    BY <1>2 DEF ProgramInv
  <1>9. NoLeftovers
    BY <1>3 DEF NoLeftovers
  <1> QED
    BY <1>3, <1>4, <1>5, <1>7, <1>8, <1>9 DEF IInv, CountInv

\* What a step keeps, and what is committed after it, are what the property says
LEMMA KeptMeans ==
    ASSUME DbInv', TargetsKept
    PROVE  /\ \A m \in Models : \A i \in Named(db, Target(m)) :
                \/ Named(db', Target(m)) # {}
                \/ \E u \in db[i].uses : u \notin DOMAIN db'
                \/ DropsBefore(m) \/ NeverBegins(m)
           /\ \A m \in Models : \A i \in Named(db', Target(m)) : db'[i].rows # 0 \/ NeverBegins(m)
  <1>1. ASSUME NEW m \in Models, NEW i \in Named(db, Target(m))
        PROVE  \/ Named(db', Target(m)) # {}
               \/ \E u \in db[i].uses : u \notin DOMAIN db'
               \/ DropsBefore(m) \/ NeverBegins(m)
    BY <1>1 DEF TargetsKept, Stays
  <1>2. ASSUME NEW m \in Models, NEW i \in Named(db', Target(m)) PROVE db'[i].rows # 0 \/ NeverBegins(m)
    <2>1. i \in DOMAIN db' /\ db'[i].name = Target(m) /\ Target(m) \in Own(m)
      BY <1>2 DEF Named, Own
    <2>2. \A x \in Models : \A j \in DOMAIN db' : db'[j].name \in Own(x) => db'[j].rows # 0 \/ NeverBegins(x)
      BY DEF DbInv, NeverBegins
    <2> QED
      BY <1>2, <2>1, <2>2
  <1> QED
    BY <1>1, <1>2

\* The inductive invariant of the execution: what is by the names that a node
\* owns is what the statements that its materialization still has to send need
\* for the transaction to end with the node's relation complete and alone.
THEOREM Invariance == Spec => [](IInv /\ CountInv)
  <1>1. Init => IInv /\ CountInv
    BY InitKeeps
  <1>2. IInv /\ CountInv /\ CompileInv /\ [Next]_vars => (IInv /\ CountInv)'
    BY NextKeeps, CountKeeps DEF CompileInv
  <1> QED
    BY <1>1, <1>2, CompileInvariance, PTL DEF Spec

\* A table or a view that succeeds leaves no temporary and no backup relation:
\* the materialization drops those that it finds, and its own before it returns
\* the node as successful; no other thread makes one.
THEOREM NoLeftoversCorrect == Spec => []NoLeftovers
  <1>1. IInv => NoLeftovers
    BY DEF IInv
  <1> QED
    BY <1>1, Invariance, PTL

\* No step of any thread, no failure and no death of the process takes the
\* relation of a model away without the transaction that has its successor, and
\* none commits an incomplete one, but for the models whose hooks end the
\* transaction before the materialization has sent its statements.
THEOREM TargetsStayCorrect == Spec => TargetsStay
  <1> DEFINE StepKept ==
        /\ \A m \in Models : \A i \in Named(db, Target(m)) :
             \/ Named(db', Target(m)) # {}
             \/ \E u \in db[i].uses : u \notin DOMAIN db'
             \/ DropsBefore(m) \/ NeverBegins(m)
        /\ \A m \in Models : \A i \in Named(db', Target(m)) : db'[i].rows # 0 \/ NeverBegins(m)
  <1>1. IInv /\ CountInv /\ CompileInv /\ [Next]_vars => StepKept
    <2>1. IInv' => DbInv'
      BY DEF IInv
    <2> QED
      BY <2>1, NextKeeps, KeptMeans DEF CompileInv
  <1>2. Spec => [][StepKept]_vars
    BY <1>1, Invariance, CompileInvariance, PTL DEF Spec
  <1> QED
    BY <1>2 DEF TargetsStay
=============================================================================
