------------------------------ MODULE RunQueue ------------------------------
(***************************************************************************)
(* The scheduler: GraphQueue (core/dbt/graph/queue.py) and the code of     *)
(* GraphRunnableTask that drives it (core/dbt/task/runnable.py, with the   *)
(* runner of core/dbt/task/base.py).                                       *)
(*                                                                         *)
(* Three kinds of thread share the queue and the task object:              *)
(*   - the main thread in run_queue takes nodes off the queue and submits  *)
(*     a runner for each to the thread pool;                               *)
(*   - the pool's workers run call_runner;                                 *)
(*   - the pool's result thread runs run_queue's callback on each result:  *)
(*     _handle_result and then mark_done.                                  *)
(* What the code does while it holds GraphQueue.lock is one step; anything *)
(* between two acquisitions may be interleaved.                            *)
(***************************************************************************)
EXTENDS GraphOps, Sequences

CONSTANTS
    Workers,        \* the pool's threads (config.threads of them)
    Commands,       \* the command lines: their task class and --fail-fast
    Graphs,         \* the graphs the compiler may hand to the task
    Ephemeral,      \* the ephemeral models
    Tests           \* the test nodes

ASSUME TaskAssumption ==
    /\ Commands \subseteq [task : {"run", "test", "compile"}, fail_fast : BOOLEAN]
    /\ Graphs \subseteq SUBSET Edges
    /\ Tests \subseteq Node /\ Ephemeral \subseteq Node \ Tests
    /\ IsFiniteSet(Workers)

ASSUME GraphsAreAcyclic == \A E \in Graphs : Acyclic(E)

\* --fail-fast is an option of run and test only (main.py:471-479, 713-721)
ASSUME FailFastAssumption == \A c \in Commands : c.fail_fast => c.task # "compile"

VARIABLES
    args,               \* the command
    edges, selected,    \* task.graph and the selection
    qedges,             \* GraphQueue.graph: the edges of the subset graph
    remaining,          \* GraphQueue.graph: the nodes not yet removed from it
    inner,              \* the PriorityQueue's entries
    queued, in_progress,
    unfinished,         \* inner.unfinished_tasks
    pc,                 \* where the main thread is
    cur,                \* the node it took off the queue last
    taskq,              \* jobs submitted to the pool and not yet started
    running,            \* [Workers -> job or NoJob]
    resultq,            \* results the workers have put
    handling,           \* the result in the callback, or NoResult
    todo,               \* dependents the callback has still to mark
    node_results,       \* [Node -> the statuses recorded for it]
    skipped_children,   \* [Node -> "absent", "plain" or "ephemeral"]
    raise_next_tick,    \* "none", "failfast" or "runtime"
    outcome             \* history: what became of each node's runner

graphVars  == <<args, edges, selected, qedges>>
queueVars  == <<remaining, inner, queued, in_progress, unfinished>>
mainVars   == <<pc, cur>>
poolVars   == <<taskq, running, resultq>>
handleVars == <<handling, todo>>
taskVars   == <<node_results, skipped_children, raise_next_tick>>
vars == <<graphVars, queueVars, mainVars, poolVars, handleVars, taskVars, outcome>>

DR == INSTANCE DagRun
-----------------------------------------------------------------------------
\* A job: the node and whether its runner was told to skip (do_skip), and if
\* so whether the cause is an ephemeral model's error.
Skip == {"no", "plain", "ephemeral"}
Job == [node : Node, skip : Skip]
Status == DR!Ended
Result == [node : Node, status : Status]
NoJob == [node |-> 0, skip |-> "none"]
NoResult == [node |-> 0, status |-> "none"]

\* ResourceTypeSelector.node_is_match with the task's resource types
\* (selector.py:290-291; run.py:442-452, test.py:119-126, compile.py:46-56)
Selectable == CASE args.task = "run"     -> Node \ Tests
                [] args.task = "test"    -> Tests
                [] args.task = "compile" -> Node

raise_on_first_error == args.task = "compile"

\* GraphQueue._include_in_cost, _calculate_scores (queue.py:49-83)
IncludeInCost(n) == n \notin Tests \cup Ephemeral

Score(n) == -Cardinality({d \in selected : <<n, d>> \in qedges /\ IncludeInCost(d)})

\* The order of the tuples (score, unique id) in the PriorityQueue
Before(m, n) == Score(m) < Score(n) \/ (Score(m) = Score(n) /\ m < n)

\* GraphQueue._find_new_additions, _already_known (queue.py:122-142): the
\* nodes of in-degree 0 among rem that are neither queued nor in progress
NewAdditions(rem, known) ==
    {n \in rem \ known : \A m \in rem : <<m, n>> \notin qedges}
-----------------------------------------------------------------------------
Init ==
    /\ args \in Commands
    /\ edges \in Graphs
    /\ selected \in SUBSET Selectable \ {{}}
    /\ qedges = SubsetGraph(edges, selected)
    /\ remaining = selected
    /\ inner = NewAdditions(selected, {})
    /\ queued = inner
    /\ in_progress = {}
    /\ unfinished = Cardinality(inner)
    /\ pc = "check" /\ cur = 0
    /\ taskq = <<>> /\ resultq = <<>>
    /\ running = [w \in Workers |-> NoJob]
    /\ handling = NoResult /\ todo = {}
    /\ node_results = [n \in Node |-> <<>>]
    /\ skipped_children = [n \in Node |-> "absent"]
    /\ raise_next_tick = "none"
    /\ outcome = [n \in Node |-> "none"]

-----------------------------------------------------------------------------
(* The main thread: run_queue, execute_nodes *)

\* Mutant: empty() is that of the graph, without the nodes in progress
CheckEmptyOfGraph ==
    /\ pc = "check"
    /\ pc' = IF remaining = {} THEN (IF args.fail_fast THEN "wait" ELSE "join") ELSE "get"
    /\ UNCHANGED <<graphVars, queueVars, cur, poolVars, handleVars, taskVars, outcome>>

\* while not self.job_queue.empty()   (runnable.py:244; queue.py:104-120)
CheckEmpty ==
    /\ pc = "check"
    /\ pc' = IF Cardinality(remaining) - Cardinality(in_progress) = 0
             THEN (IF args.fail_fast THEN "wait" ELSE "join")
             ELSE "get"
    /\ UNCHANGED <<graphVars, queueVars, cur, poolVars, handleVars, taskVars, outcome>>

\* self.inner.get(): blocks while the priority queue is empty (queue.py:99)
Get ==
    /\ pc = "get"
    /\ \E n \in inner :
         /\ \A m \in inner \ {n} : Before(n, m)
         /\ inner' = inner \ {n}
         /\ cur' = n
    /\ pc' = "mark"
    /\ UNCHANGED <<graphVars, remaining, queued, in_progress, unfinished,
                   poolVars, handleVars, taskVars, outcome>>

\* Mutant: the node stays in queued
MarkInProgressKeepsQueued ==
    /\ pc = "mark"
    /\ in_progress' = in_progress \cup {cur}
    /\ pc' = "tick"
    /\ UNCHANGED <<graphVars, remaining, inner, queued, unfinished, cur,
                   poolVars, handleVars, taskVars, outcome>>

\* _mark_in_progress under the lock (queue.py:100-101, 158-166)
MarkInProgress ==
    /\ pc = "mark"
    /\ queued' = queued \ {cur}
    /\ in_progress' = in_progress \cup {cur}
    /\ pc' = "tick"
    /\ UNCHANGED <<graphVars, remaining, inner, unfinished, cur,
                   poolVars, handleVars, taskVars, outcome>>

\* where _raise_set_error takes the main thread: FailFastException is caught
\* in execute_nodes, RuntimeException is not (runnable.py:220-222, 341-349)
RaisedPc == IF raise_next_tick = "failfast" THEN "cancel" ELSE "failed"

\* Mutant: the stashed error is not looked at
RaiseSetErrorNever ==
    /\ pc = "tick"
    /\ pc' = "submit"
    /\ UNCHANGED <<graphVars, queueVars, cur, poolVars, handleVars, taskVars, outcome>>

\* self._raise_set_error() after get (runnable.py:246)
RaiseSetError ==
    /\ pc = "tick"
    /\ pc' = IF raise_next_tick = "none" THEN "submit" ELSE RaisedPc
    /\ UNCHANGED <<graphVars, queueVars, cur, poolVars, handleVars, taskVars, outcome>>

\* Mutant: _skipped_children is not consulted
SubmitNoSkip ==
    /\ pc = "submit"
    /\ taskq' = Append(taskq, [node |-> cur, skip |-> "no"])
    /\ pc' = "check"
    /\ UNCHANGED <<graphVars, queueVars, cur, running, resultq, handleVars, taskVars, outcome>>

\* get_runner, do_skip for a node in _skipped_children, _submit to the pool
\* (runnable.py:247-254; base.py:441-443)
Submit ==
    /\ pc = "submit"
    /\ LET skip == IF skipped_children[cur] = "absent" THEN "no"
                   ELSE skipped_children[cur]
       IN taskq' = Append(taskq, [node |-> cur, skip |-> skip])
    /\ skipped_children' = [skipped_children EXCEPT ![cur] = "absent"]
    /\ pc' = "check"
    /\ UNCHANGED <<graphVars, queueVars, cur, running, resultq, handleVars,
                   node_results, raise_next_tick, outcome>>

\* wait_until_something_was_done takes the lock and waits on the condition;
\* nothing is tested before the wait (queue.py:175-181)
WaitSomethingDone ==
    /\ pc = "wait"
    /\ pc' = "waiting"
    /\ UNCHANGED <<graphVars, queueVars, cur, poolVars, handleVars, taskVars, outcome>>

\* notified: re-take the lock, return unfinished_tasks; loop through
\* _raise_set_error while there are any (runnable.py:260-261)
WokenUp ==
    /\ pc = "woken"
    /\ pc' = IF unfinished = 0 THEN "final"
             ELSE IF raise_next_tick = "none" THEN "wait" ELSE RaisedPc
    /\ UNCHANGED <<graphVars, queueVars, cur, poolVars, handleVars, taskVars, outcome>>

\* self.job_queue.join()   (runnable.py:264; queue.py:168-173)
Join ==
    /\ pc = "join"
    /\ unfinished = 0
    /\ pc' = "final"
    /\ UNCHANGED <<graphVars, queueVars, cur, poolVars, handleVars, taskVars, outcome>>

\* the last _raise_set_error (runnable.py:266-269)
FinalRaise ==
    /\ pc = "final"
    /\ pc' = IF raise_next_tick = "none" THEN "close" ELSE RaisedPc
    /\ UNCHANGED <<graphVars, queueVars, cur, poolVars, handleVars, taskVars, outcome>>

PoolIdle ==
    /\ taskq = <<>> /\ resultq = <<>>
    /\ \A w \in Workers : running[w] = NoJob
    /\ handling = NoResult

\* pool.close(), pool.join(), return node_results (runnable.py:351-354)
ClosePool ==
    /\ pc = "close"
    /\ PoolIdle
    /\ pc' = "done"
    /\ UNCHANGED <<graphVars, queueVars, cur, poolVars, handleVars, taskVars, outcome>>

InRunQueue == {"check", "get", "mark", "tick", "submit", "wait", "waiting",
               "woken", "join", "final"}

\* Ctrl-C reaches the main thread: execute_nodes catches it in run_queue, not
\* in the pool.join() after it (runnable.py:346-352)
KeyboardInterrupt ==
    /\ pc \in InRunQueue \cup {"close"}
    /\ pc' = IF pc = "close" THEN "failed" ELSE "cancel"
    /\ UNCHANGED <<graphVars, queueVars, cur, poolVars, handleVars, taskVars, outcome>>

\* _cancel_connections: pool.terminate() empties the pool's queues and stops
\* its result thread; what is running goes on (runnable.py:297-322)
CancelConnections ==
    /\ pc = "cancel"
    /\ taskq' = <<>> /\ resultq' = <<>>
    /\ pc' = "joinpool"
    /\ UNCHANGED <<graphVars, queueVars, cur, running, handleVars, taskVars, outcome>>

\* pool.join() at the end of _cancel_connections
JoinPool ==
    /\ pc = "joinpool"
    /\ \A w \in Workers : running[w] = NoJob
    /\ handling = NoResult
    /\ pc' = "cancelled"
    /\ UNCHANGED <<graphVars, queueVars, cur, poolVars, handleVars, taskVars, outcome>>

-----------------------------------------------------------------------------
(* The pool's workers: call_runner *)

PoolTerminated == pc \in {"joinpool", "cancelled"}

WorkerTake(w) ==
    /\ running[w] = NoJob
    /\ taskq # <<>>
    /\ running' = [running EXCEPT ![w] = Head(taskq)]
    /\ taskq' = Tail(taskq)
    /\ outcome' = IF Head(taskq).skip = "no"
                  THEN [outcome EXCEPT ![Head(taskq).node] = "began"]
                  ELSE outcome
    /\ UNCHANGED <<graphVars, queueVars, mainVars, resultq, handleVars, taskVars>>

\* run_with_hooks: how a runner may end.  on_skip sets an error message when
\* a relational node is skipped because of an ephemeral model's error.
\* (base.py:202-215, 338-366, 395-439; test.py:92-113)
Statuses(job) ==
    IF job.skip = "no"
    THEN IF args.task = "test" THEN {"success", "warn", "fail", "error"}
                               ELSE {"success", "error"}
    ELSE IF job.skip = "ephemeral" /\ job.node \notin Ephemeral
         THEN {"errorskip"} ELSE {"skipped"}

\* call_runner's choice of what to raise on the next tick (runnable.py:190-204)
NextTick(s) ==
    IF s \in {"error", "fail"} /\ args.fail_fast THEN "failfast"
    ELSE IF s = "error" /\ raise_on_first_error THEN "runtime"
    ELSE raise_next_tick

\* call_runner returns: the pool puts its result, unless it was terminated
WorkerReturn(w) ==
    /\ running[w] # NoJob
    /\ \E s \in Statuses(running[w]) :
         /\ outcome' = [outcome EXCEPT ![running[w].node] = s]
         /\ raise_next_tick' = NextTick(s)
         /\ resultq' = IF PoolTerminated THEN resultq
                       ELSE Append(resultq, [node |-> running[w].node, status |-> s])
    /\ running' = [running EXCEPT ![w] = NoJob]
    /\ UNCHANGED <<graphVars, queueVars, mainVars, taskq, handleVars,
                   node_results, skipped_children>>

\* before_execute, after_execute or on_skip raise: the pool keeps the
\* exception to itself and the callback is never called (runnable.py:181-188)
WorkerRaise(w) ==
    /\ running[w] # NoJob
    /\ outcome' = [outcome EXCEPT ![running[w].node] = "raised"]
    /\ running' = [running EXCEPT ![w] = NoJob]
    /\ UNCHANGED <<graphVars, queueVars, mainVars, taskq, resultq, handleVars, taskVars>>

-----------------------------------------------------------------------------
(* The pool's result thread: the callback of run_queue *)

\* _handle_result: record the result of a relational node, and begin to mark
\* the dependents of a node in error (runnable.py:271-295)
HandleResult ==
    /\ handling = NoResult
    /\ resultq # <<>>
    /\ LET r == Head(resultq) IN
         /\ handling' = r
         /\ node_results' = IF r.node \in Ephemeral THEN node_results
                            ELSE [node_results EXCEPT ![r.node] = Append(@, r.status)]
         /\ todo' = IF r.status = "error" THEN Descendants(edges, r.node) ELSE {}
    /\ resultq' = Tail(resultq)
    /\ UNCHANGED <<graphVars, queueVars, mainVars, taskq, running,
                   skipped_children, raise_next_tick, outcome>>

\* _mark_dependent_errors: one dependent after the other (runnable.py:356-360)
MarkDependentError ==
    /\ \E d \in todo :
         /\ skipped_children' =
              [skipped_children EXCEPT ![d] = IF handling.node \in Ephemeral
                                              THEN "ephemeral" ELSE "plain"]
         /\ todo' = todo \ {d}
    /\ UNCHANGED <<graphVars, queueVars, mainVars, poolVars, handling,
                   node_results, raise_next_tick, outcome>>

\* mark_done under the lock; notify_all wakes a waiting main thread
\* (queue.py:144-156; runnable.py:238-242)
MarkDone ==
    /\ handling # NoResult
    /\ todo = {}
    /\ LET rem == remaining \ {handling.node}
           busy == in_progress \ {handling.node}
           new == NewAdditions(rem, queued \cup busy)
       IN /\ remaining' = rem
          /\ in_progress' = busy
          /\ inner' = inner \cup new
          /\ queued' = queued \cup new
          /\ unfinished' = unfinished + Cardinality(new) - 1
    /\ pc' = IF pc = "waiting" THEN "woken" ELSE pc
    /\ handling' = NoResult
    /\ UNCHANGED <<graphVars, cur, poolVars, todo, taskVars, outcome>>

-----------------------------------------------------------------------------
Terminal == {"done", "cancelled", "failed"}

\* The process ends; the pool's daemon threads with it
Finished ==
    /\ pc \in Terminal
    /\ UNCHANGED vars

Main ==
    \/ CheckEmpty \/ Get \/ MarkInProgress \/ RaiseSetError \/ Submit
    \/ WaitSomethingDone \/ WokenUp \/ Join \/ FinalRaise \/ ClosePool
    \/ CancelConnections \/ JoinPool

Worker(w) == WorkerTake(w) \/ WorkerReturn(w) \/ WorkerRaise(w)

Callback == HandleResult \/ MarkDependentError \/ MarkDone

Next ==
    \/ Main
    \/ KeyboardInterrupt
    \/ \E w \in Workers : Worker(w)
    \/ Callback
    \/ Finished

Spec == Init /\ [][Next]_vars

\* Every thread that can run gets to run, and a runner ends: dbt waits for
\* its queries without a time limit.  Nothing forces a Ctrl-C.
Fairness ==
    /\ WF_vars(Main)
    /\ \A w \in Workers : WF_vars(Worker(w))
    /\ WF_vars(Callback)

FairSpec == Spec /\ Fairness

-----------------------------------------------------------------------------
(* Properties *)

Pc == InRunQueue \cup {"close", "cancel", "joinpool"} \cup Terminal

\* The values the queue's, the task's and the pool's fields may hold.
TypeOK ==
    /\ edges \in SUBSET Edges
    /\ selected \in SUBSET Node
    /\ qedges \in SUBSET Edges
    /\ remaining \in SUBSET selected
    /\ inner \in SUBSET selected
    /\ queued \in SUBSET selected
    /\ in_progress \in SUBSET selected
    /\ unfinished \in Int
    /\ pc \in Pc
    /\ cur \in Node \cup {0}
    /\ taskq \in Seq(Job)
    /\ running \in [Workers -> Job \cup {NoJob}]
    /\ resultq \in Seq(Result)
    /\ handling \in Result \cup {NoResult}
    /\ todo \in SUBSET Node
    /\ node_results \in [Node -> Seq(Status)]
    /\ skipped_children \in [Node -> {"absent", "plain", "ephemeral"}]
    /\ raise_next_tick \in {"none", "failfast", "runtime"}
    /\ outcome \in [Node -> Status \cup {"none", "began", "raised"}]

\* The queue's books agree: a node is queued or in progress, not both, exactly
\* when it is still in the graph and nothing before it is; and the number of
\* unfinished tasks that join() waits for is the number of those nodes.
QueueBooks ==
    /\ inner \subseteq queued
    /\ queued \cap in_progress = {}
    /\ queued \cup in_progress = NewAdditions(remaining, {})
    /\ unfinished = Cardinality(queued) + Cardinality(in_progress)

\* Mutant: a skipped node is no failure
ExitsWithErrorUnlessSkipped ==
    \E n \in Node : \E i \in DOMAIN node_results[n] :
        node_results[n][i] \in {"error", "fail"}

\* interpret_results over the results: a failure of any kind makes dbt exit
\* with an error (runnable.py:434-446)
ExitsWithError ==
    \E n \in Node : \E i \in DOMAIN node_results[n] :
        node_results[n][i] \in {"error", "fail", "skipped", "errorskip"}

\* A run that returns tells the truth.  Every selected node has ended, each that
\* is not ephemeral with exactly one result.  The exit code tells of every failure
\* that concerns a selected relational node, its own or that of an ephemeral model
\* it needs, and of nothing else.  And a run that stops at the first failure
\* (--fail-fast, or compile's raise_on_first_error) does not return after one.
FailureReported ==
    pc = "done" =>
        /\ \A n \in selected :
             /\ outcome[n] \in Status
             /\ n \notin Ephemeral => node_results[n] = <<outcome[n]>>
        /\ ExitsWithError <=>
             \E n \in selected :
               /\ outcome[n] \in {"error", "fail"}
               /\ \/ n \notin Ephemeral
                  \/ (Descendants(edges, n) \cap selected) \ Ephemeral # {}
        /\ args.fail_fast \/ raise_on_first_error =>
             \A n \in Node : outcome[n] \notin {"error", "fail"}

\* Once an error is stashed for the next tick, run_queue submits nothing but
\* the node it was already submitting.
NoSubmitAfterError ==
    [][(raise_next_tick # "none" /\ pc # "submit") => pc' # "submit"]_vars

\* The threads together never do to a node what the abstract execution of the
\* graph rules out: begin it twice, too early, or below an error.
ImplementsDagRun == DR!DagSpec

\* execute_nodes ends when every runner returns: the main thread, the workers
\* and the callbacks never wait for one another for ever.  (With --fail-fast
\* they may: GoesOnWhenComplete.)
Terminates ==
    args.fail_fast \/ <>(pc \in Terminal \/ \E n \in Node : outcome[n] = "raised")

\* What run_queue's comment "block on completion" says of both of its waits:
\* when every node has been marked done the main thread goes on.
GoesOnWhenComplete == remaining = {} ~> pc \in Terminal
=============================================================================
