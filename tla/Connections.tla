----------------------------- MODULE Connections -----------------------------
(***************************************************************************)
(* The connection manager of the SQL adapters: BaseConnectionManager and   *)
(* SQLConnectionManager (core/dbt/adapters/base/connections.py,            *)
(* sql/connections.py), the lazy handle of a Connection                    *)
(* (core/dbt/contracts/connection.py), and PostgresConnectionManager       *)
(* (plugins/postgres), as the threads of a run use them.                   *)
(*                                                                         *)
(* Every thread has at most one Connection in thread_connections.  Its     *)
(* owner opens, uses and closes it without a lock.  The main thread visits *)
(* all of them, with the lock held, in cancel_open and in cleanup_all.     *)
(***************************************************************************)
EXTENDS Integers, Sequences, FiniteSets

CONSTANTS
    Main, Worker,   \* the main thread, the pool's threads
    Nodes,          \* how many nodes the pool is given to run
    Endings         \* how execute_nodes may end: subset of AllEndings

AllEndings == {"finish", "cancel", "raise"}
Thread == Worker \cup {Main}

ASSUME ConnAssumption ==
    Main \notin Worker /\ IsFiniteSet(Worker) /\ Nodes \in Nat /\ Endings \subseteq AllEndings

VARIABLES
    conn,       \* [Thread -> the Connection last made for the thread]
    pc,         \* [Thread -> where it is in the life of its connection]
    todo,       \* [Thread -> the queries of the call it is in]
    opening,    \* [Thread -> the threads inside open() of its connection]
    orphans,    \* sessions that are open and that no Connection refers to
    stage,      \* where the main thread is in execute_with_hooks
    failed,     \* whether an exception is on its way up in the main thread
    work,       \* nodes that the pool has and no worker has taken yet
    lock,       \* whether the main thread is in a loop that holds the lock
    visit,      \* the connections that loop has still to visit
    grown,      \* whether thread_connections grew since the loop began
    due         \* history: open when cancel_open began, and still not cancelled

loopVars == <<lock, visit, grown, due>>
mainVars == <<stage, failed, work>>
vars == <<conn, pc, todo, opening, orphans, mainVars, loopVars>>

-----------------------------------------------------------------------------
\* A Connection, whether thread_connections holds it, and the session behind
\* its handle: "tx" if the server is in a transaction; begun if the driver
\* takes it that it is (it sends its own BEGIN before a query when not).
Connection == [known : BOOLEAN,
               state : {"init", "open", "closed", "fail"},
               transaction_open : BOOLEAN,
               handle : {"none", "lazy", "live", "dead", "closed"},
               server : {"idle", "tx"},
               begun : BOOLEAN]

Fresh == [known |-> FALSE, state |-> "init", transaction_open |-> FALSE,
          handle |-> "none", server |-> "idle", begun |-> FALSE]

Init ==
    /\ conn = [t \in Thread |-> Fresh]
    /\ pc = [t \in Thread |-> "out"]
    /\ todo = [t \in Thread |-> <<>>]
    /\ opening = [t \in Thread |-> {}]
    /\ orphans = 0
    /\ stage = "before" /\ failed = FALSE /\ work = 0
    /\ lock = FALSE /\ visit = {} /\ grown = FALSE /\ due = {}

\* The lock is an RLock, and only the main thread keeps it over several steps
CanLock(t) == lock => t = Main
-----------------------------------------------------------------------------
(* The driver and the server *)

\* psycopg2's cursor.execute on a live handle: an implicit BEGIN, then q
Executed(c, q) ==
    [c EXCEPT !.begun = TRUE,
              !.server = CASE q = "BEGIN" -> "tx"
                           [] q = "COMMIT" -> "idle"
                           [] OTHER -> IF c.begun THEN @ ELSE "tx"]

\* handle.rollback(); on a dead session it raises, and _rollback_handle logs
\* that (base/connections.py:217-226)
RolledBack(c) ==
    IF c.handle = "live" THEN [c EXCEPT !.server = "idle", !.begun = FALSE] ELSE c

Opened(c) ==
    [c EXCEPT !.state = "open", !.handle = "live", !.server = "idle", !.begun = FALSE]

\* _rollback, in rollback_if_open (base/connections.py:92-95, 238-256)
rollback_if_open(c) ==
    IF c.known /\ c.handle \notin {"none", "lazy"} /\ c.transaction_open
    THEN [RolledBack(c) EXCEPT !.transaction_open = FALSE]
    ELSE c

\* Mutant: a connection whose transaction is not open is left open
CloseInTransaction(c) ==
    IF c.state \in {"closed", "init"} \/ ~c.transaction_open THEN c
    ELSE [c EXCEPT !.transaction_open = FALSE, !.state = "closed", !.server = "idle",
                   !.handle = IF @ = "none" THEN @ ELSE "closed"]

\* close (base/connections.py:228-236, 258-278).  The server ends what the
\* session leaves unfinished.
close(c) ==
    IF c.state \in {"closed", "init"} THEN c
    ELSE [c EXCEPT !.transaction_open = FALSE, !.state = "closed", !.server = "idle",
                   !.handle = IF @ = "none" THEN @ ELSE "closed"]
-----------------------------------------------------------------------------
(* Taking a connection: connection_named, set_connection_name *)

\* The main thread wants "master" before and after the nodes, and to cancel;
\* a worker wants a connection for every node that the pool gives it
Wants(t) == IF t = Main THEN stage \in {"before", "cancel", "after"}
                        ELSE work > 0

\* A reused Connection that is not open gets a new lazy handle
Named(c) == IF c.state = "open" THEN c ELSE [c EXCEPT !.handle = "lazy"]

\* connection_named, set_connection_name, get_if_exists
\* (base/impl.py:192-201; base/connections.py:72-75, 110-124, 136-151)
set_connection_name(t) ==
    /\ pc[t] = "out" /\ Wants(t) /\ CanLock(t)
    /\ pc' = [pc EXCEPT ![t] = IF conn[t].known THEN "in" ELSE "insert"]
    /\ conn' = [conn EXCEPT ![t] = IF @.known THEN Named(@) ELSE @]
    /\ work' = IF t = Main THEN work ELSE work - 1
    /\ UNCHANGED <<todo, opening, orphans, stage, failed, loopVars>>

\* set_thread_connection, which does not take the lock
\* (base/connections.py:64-70, 125-151)
set_thread_connection(t) ==
    /\ pc[t] = "insert"
    /\ pc' = [pc EXCEPT ![t] = "in"]
    /\ conn' = [conn EXCEPT ![t] = [Named(Fresh) EXCEPT !.known = TRUE]]
    /\ orphans' = IF conn[t].handle = "live" THEN orphans + 1 ELSE orphans
    /\ grown' = (grown \/ lock)
    /\ UNCHANGED <<todo, opening, mainVars, lock, visit, due>>
-----------------------------------------------------------------------------
(* Queries *)

\* An exception leaves the with block of connection_named
Raises(t) ==
    /\ pc' = [pc EXCEPT ![t] = "leave"]
    /\ todo' = [todo EXCEPT ![t] = <<>>]
    /\ failed' = (failed \/ t = Main)

Idle(t) == pc[t] = "in" /\ todo[t] = <<>> /\ CanLock(t) /\ (t = Main => stage # "cancel")

\* The queries of add_query: begin() first if auto_begin asks for it
\* (sql/connections.py:52-62, 139-162)
Queries(c, auto_begin) ==
    IF auto_begin /\ ~c.transaction_open THEN <<"BEGIN", "SQL">> ELSE <<"SQL">>

\* execute -> add_query -> get_thread_connection, which raises if the
\* connection was cleaned up (sql/connections.py:127-137; base/connections.py:55-62)
execute(t, auto_begin) ==
    /\ Idle(t)
    /\ IF conn[t].known
       THEN /\ todo' = [todo EXCEPT ![t] = Queries(conn[t], auto_begin)]
            /\ UNCHANGED <<pc, failed>>
       ELSE Raises(t)
    /\ UNCHANGED <<conn, opening, orphans, stage, work, loopVars>>

\* commit raises if no transaction is open (sql/connections.py:164-182)
commit(t) ==
    /\ Idle(t)
    /\ IF conn[t].known /\ conn[t].transaction_open
       THEN todo' = [todo EXCEPT ![t] = <<"COMMIT">>] /\ UNCHANGED <<pc, failed>>
       ELSE Raises(t)
    /\ UNCHANGED <<conn, opening, orphans, stage, work, loopVars>>

\* clear_transaction, before the on-run hooks (base/connections.py:83-90;
\* task/run.py:299-305)
clear_transaction ==
    /\ Idle(Main)
    /\ conn' = [conn EXCEPT ![Main] = rollback_if_open(@)]
    /\ todo' = [todo EXCEPT ![Main] = <<"BEGIN", "COMMIT">>]
    /\ UNCHANGED <<pc, opening, orphans, mainVars, loopVars>>

\* cursor.execute returns, and begin and commit set the flag
\* (sql/connections.py:66-87, 161, 180)
QueryReturns(t) ==
    /\ todo[t] # <<>> /\ conn[t].handle = "live" /\ t \notin opening[t]
    /\ LET q == Head(todo[t])
       IN conn' = [conn EXCEPT ![t] =
                     [Executed(@, q) EXCEPT !.transaction_open =
                        CASE q = "BEGIN" -> TRUE [] q = "COMMIT" -> FALSE [] OTHER -> conn[t].transaction_open]]
    /\ todo' = [todo EXCEPT ![t] = Tail(@)]
    /\ UNCHANGED <<pc, opening, orphans, mainVars, loopVars>>

\* cursor.execute raises: the statement fails, or the session is gone.
\* exception_handler rolls back (plugins/postgres connections.py:45-71)
QueryFails(t) ==
    /\ todo[t] # <<>> /\ conn[t].handle # "lazy" /\ t \notin opening[t]
    /\ conn' = [conn EXCEPT ![t] = rollback_if_open(@)]
    /\ Raises(t)
    /\ lock' = (lock /\ t # Main)
    /\ UNCHANGED <<opening, orphans, stage, work, visit, grown, due>>
-----------------------------------------------------------------------------
(* Connection.handle opens a lazy handle: contracts/connection.py:76-107 *)

\* Which connection a thread is about to use: its own for a query, and in
\* cancel_open whichever it visits (sql/connections.py:43-46)
Resolves(t, o) ==
    /\ conn[o].handle = "lazy" /\ \A p \in Thread : t \notin opening[p]
    /\ \/ t = o /\ todo[t] # <<>>
       \/ t = Main /\ o \in visit \ {Main} /\ stage = "cancel" /\ lock /\ todo[t] = <<>> /\ ~grown

\* The handle is lazy, and open begins to connect
StartOpen(t, o) ==
    /\ Resolves(t, o)
    /\ opening' = [opening EXCEPT ![o] = @ \cup {t}]
    /\ UNCHANGED <<conn, pc, todo, orphans, mainVars, loopVars>>

\* open succeeds (plugins/postgres connections.py:73-114)
FinishOpen(t, o) ==
    /\ t \in opening[o]
    /\ opening' = [opening EXCEPT ![o] = @ \ {t}]
    /\ conn' = [conn EXCEPT ![o] = Opened(@)]
    /\ orphans' = IF conn[o].handle = "live" THEN orphans + 1 ELSE orphans
    /\ UNCHANGED <<pc, todo, mainVars, loopVars>>

\* open fails, and raises in the thread that called it
\* (plugins/postgres connections.py:115-123)
FailOpen(t, o) ==
    /\ t \in opening[o]
    /\ opening' = [opening EXCEPT ![o] = @ \ {t}]
    /\ conn' = [conn EXCEPT ![o] = [@ EXCEPT !.state = "fail", !.handle = "none"]]
    /\ orphans' = IF conn[o].handle = "live" THEN orphans + 1 ELSE orphans
    /\ Raises(t)
    /\ lock' = (lock /\ t # Main)
    /\ UNCHANGED <<stage, work, visit, grown, due>>
-----------------------------------------------------------------------------
(* Giving the connection back: release *)

\* The with block of connection_named ends
Leave(t) ==
    /\ Idle(t)
    /\ pc' = [pc EXCEPT ![t] = "leave"]
    /\ UNCHANGED <<conn, todo, opening, orphans, mainVars, loopVars>>

\* A worker releases twice: connection_named, then _safe_release_connection
\* (base/impl.py:201-202; task/base.py:349, 368-381)
AfterRelease(t) == IF t # Main /\ pc[t] = "leave" THEN "again" ELSE "out"

\* Where the main thread goes after its connection_named block
NextStage ==
    CASE ~failed /\ stage = "before" -> "nodes"
      [] ~failed /\ stage = "cancel" -> "join"
      [] OTHER -> "cleanup"

\* release (base/connections.py:174-187)
release(t) ==
    /\ pc[t] \in {"leave", "again"} /\ CanLock(t)
    /\ pc' = [pc EXCEPT ![t] = AfterRelease(t)]
    /\ conn' = [conn EXCEPT ![t] = IF @.known THEN close(@) ELSE @]
    /\ due' = due \ {t}
    /\ stage' = IF t = Main THEN NextStage ELSE stage
    /\ work' = IF stage = "before" /\ stage' = "nodes" THEN Nodes ELSE work
    /\ UNCHANGED <<todo, opening, orphans, failed, lock, visit, grown>>

\* close raises: the connection is forgotten, and its session is broken
\* (base/connections.py:77-81, 184-187)
ReleaseFails(t) ==
    /\ pc[t] \in {"leave", "again"} /\ CanLock(t)
    /\ conn[t].known /\ conn[t].handle \in {"live", "dead"}
    /\ pc' = [pc EXCEPT ![t] = AfterRelease(t)]
    /\ conn' = [conn EXCEPT ![t] = Fresh]
    /\ due' = due \ {t}
    /\ failed' = (failed \/ t = Main)
    /\ stage' = IF t = Main THEN "cleanup" ELSE stage
    /\ UNCHANGED <<todo, opening, orphans, work, lock, visit, grown>>
-----------------------------------------------------------------------------
(* The main thread: execute_nodes, cancel_open, cleanup_all *)

Quiet == \A w \in Worker : pc[w] = "out"

\* Mutant: the pool is not joined
FinishUnjoined ==
    /\ stage = "nodes" /\ "finish" \in Endings
    /\ work = 0
    /\ stage' = "after"
    /\ UNCHANGED <<conn, pc, todo, opening, orphans, failed, work, loopVars>>

\* pool.close(); pool.join()   (task/runnable.py:352-353)
Finish ==
    /\ stage = "nodes" /\ "finish" \in Endings
    /\ Quiet /\ work = 0
    /\ stage' = "after"
    /\ UNCHANGED <<conn, pc, todo, opening, orphans, failed, work, loopVars>>

\* --fail-fast or Ctrl-C: pool.terminate() (task/runnable.py:299-304, 340-350)
Terminate ==
    /\ stage = "nodes" /\ "cancel" \in Endings
    /\ stage' = "cancel" /\ work' = 0
    /\ UNCHANGED <<conn, pc, todo, opening, orphans, failed, loopVars>>

\* Any other exception out of run_queue: the pool goes on while
\* execute_with_hooks cleans up (task/runnable.py:338-350, 389-390)
RunQueueRaises ==
    /\ stage = "nodes" /\ "raise" \in Endings
    /\ stage' = "cleanup" /\ failed' = TRUE
    /\ UNCHANGED <<conn, pc, todo, opening, orphans, work, loopVars>>

KnownThreads == {t \in Thread : conn[t].known}

\* cancel_open takes the lock and iterates (sql/connections.py:33-37)
cancel_open ==
    /\ stage = "cancel" /\ pc[Main] = "in" /\ ~lock
    /\ lock' = TRUE /\ visit' = KnownThreads /\ grown' = FALSE
    /\ due' = {t \in KnownThreads \ {Main} : conn[t].state = "open"}
    /\ UNCHANGED <<conn, pc, todo, opening, orphans, mainVars>>

InCancel == stage = "cancel" /\ pc[Main] = "in" /\ lock /\ todo[Main] = <<>>
            /\ \A t \in Thread : Main \notin opening[t]

\* Mutant: a connection that is not in a transaction is not cancelled
CancelSkipsIdle(o) ==
    /\ InCancel /\ ~grown /\ o \in visit
    /\ o = Main \/ (conn[o].handle # "lazy" /\ ~conn[o].transaction_open)
    /\ visit' = visit \ {o}
    /\ UNCHANGED <<conn, pc, todo, opening, orphans, mainVars, lock, grown, due>>

\* Its own connection, or one that failed or is not open: nothing to cancel
\* (sql/connections.py:38-49)
CancelSkips(o) ==
    /\ InCancel /\ ~grown /\ o \in visit
    /\ o = Main \/ (conn[o].handle # "lazy" /\ conn[o].state # "open")
    /\ visit' = visit \ {o}
    /\ UNCHANGED <<conn, pc, todo, opening, orphans, mainVars, lock, grown, due>>

\* cancel: pg_terminate_backend, sent on the main thread's own connection
\* (plugins/postgres connections.py:127-148).  The session dies when the
\* query reaches the server; here it dies as the query is sent.
Cancels(o) ==
    /\ InCancel /\ ~grown /\ o \in visit \ {Main}
    /\ conn[o].handle # "lazy" /\ conn[o].state = "open"
    /\ todo' = [todo EXCEPT ![Main] = Queries(conn[Main], TRUE)]
    /\ visit' = visit \ {o}
    /\ conn' = [conn EXCEPT ![o].handle = IF @ = "live" THEN "dead" ELSE @]
    /\ due' = due \ {o}
    /\ UNCHANGED <<pc, opening, orphans, mainVars, lock, grown>>

\* The end of the loop; a dict that grew raises RuntimeError there or before
CancelEnds ==
    /\ InCancel /\ (visit = {} \/ grown)
    /\ lock' = FALSE
    /\ IF grown THEN Raises(Main)
                ELSE pc' = [pc EXCEPT ![Main] = "leave"] /\ UNCHANGED <<todo, failed>>
    /\ UNCHANGED <<conn, opening, orphans, stage, work, visit, grown, due>>

\* pool.join()   (task/runnable.py:324)
Join ==
    /\ stage = "join" /\ Quiet
    /\ stage' = "cleanup"
    /\ UNCHANGED <<conn, pc, todo, opening, orphans, failed, work, loopVars>>

Cleaning == stage \in {"cleanup", "exit"}

\* cleanup_all, at the end of execute_with_hooks and again of the command
\* (base/connections.py:189-201; task/runnable.py:389-390; main.py:172-178)
cleanup_all ==
    /\ Cleaning /\ ~lock
    /\ lock' = TRUE /\ visit' = KnownThreads /\ grown' = FALSE
    /\ UNCHANGED <<conn, pc, todo, opening, orphans, mainVars, due>>

CleanupCloses(o) ==
    /\ Cleaning /\ lock /\ ~grown /\ o \in visit
    /\ conn' = [conn EXCEPT ![o] = close(@)]
    /\ visit' = visit \ {o}
    /\ UNCHANGED <<pc, todo, opening, orphans, mainVars, lock, grown, due>>

CleanupEnds ==
    /\ Cleaning /\ lock /\ (visit = {} \/ grown)
    /\ lock' = FALSE
    /\ conn' = [t \in Thread |-> IF grown THEN conn[t] ELSE [conn[t] EXCEPT !.known = FALSE]]
    /\ stage' = IF stage = "cleanup" THEN "exit" ELSE "done"
    /\ UNCHANGED <<pc, todo, opening, orphans, failed, work, visit, grown, due>>

\* The process ends, and the pool's threads, which are daemons, with it
Done == stage = "done" /\ UNCHANGED vars

ThreadStep(t) ==
    \/ set_connection_name(t) \/ set_thread_connection(t)
    \/ \E b \in BOOLEAN : execute(t, b)
    \/ commit(t) \/ QueryReturns(t) \/ QueryFails(t)
    \/ \E o \in Thread : StartOpen(t, o) \/ FinishOpen(t, o) \/ FailOpen(t, o)
    \/ Leave(t) \/ release(t) \/ ReleaseFails(t)

MainStep ==
    \/ clear_transaction
    \/ Finish \/ Terminate \/ RunQueueRaises \/ Join
    \/ cancel_open \/ CancelEnds \/ cleanup_all \/ CleanupEnds
    \/ \E o \in Thread : CancelSkips(o) \/ Cancels(o) \/ CleanupCloses(o)

Next == Done \/ MainStep \/ \E t \in Thread : stage # "done" /\ ThreadStep(t)

Spec == Init /\ [][Next]_vars
-----------------------------------------------------------------------------
(* Properties *)

\* "always close the connection" (base/connections.py:181): until the run is
\* cut short, no session outlives the block that took its connection, and a
\* connection that says between two calls that its transaction is open has a
\* session in a transaction, so what a commit acknowledges was in it.
NoLeak ==
    stage \in {"before", "nodes", "after"} =>
        /\ orphans = 0
        /\ \A t \in Thread :
             /\ pc[t] = "out" => conn[t].handle # "live"
             /\ todo[t] = <<>> /\ conn[t].transaction_open /\ conn[t].handle = "live"
                  => conn[t].server = "tx"

\* No two threads are inside open() of one connection.
OpenThreadSafe == \A t \in Thread : Cardinality(opening[t]) <= 1

\* Unless an exception is on its way up, the connections are cleaned up after
\* every worker has ended.
WaitsForRunners == (Cleaning /\ ~failed) => Quiet

\* cancel_open never ends the session that it sends the cancellations on, and when
\* it has returned every session that was open when it took the lock was cancelled,
\* or its owner has closed it.
CancelReaches ==
    /\ conn[Main].handle # "dead"
    /\ stage = "join" => due = {}
=============================================================================
