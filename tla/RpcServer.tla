------------------------------ MODULE RpcServer ------------------------------
(***************************************************************************)
(* The RPC server: TaskManager and ManifestReloader (rpc/task_manager.py), *)
(* the thread and the child process of a request (rpc/task_handler.py,     *)
(* rpc/logger.py), kill (rpc/builtins.py) and SIGHUP (task/rpc/server.py). *)
(*                                                                         *)
(* A request goes through an HTTP thread, which dispatches it and starts a *)
(* child process, and a handler thread, which reads the child's queue and  *)
(* joins it.  At most one of the reloader and the handlers may parse: the  *)
(* one whose set_parsing found the state other than Compiling.             *)
(***************************************************************************)
EXTENDS Integers, Sequences, FiniteSets

CONSTANTS
    Request,    \* the requests
    Method,     \* [Request -> "deps", "sql" or "command"]
    Kills,      \* the requests that a client may try to kill
    Timeouts,   \* the requests that may time out
    Crashes,    \* the requests whose child may die without a word
    MaxHups,    \* bound: how often SIGHUP arrives
    MaxLogs,    \* bound: how many log messages a child writes
    PipeSize    \* how many messages the pipe between the processes holds

ASSUME RpcAssumption ==
    /\ Method \in [Request -> {"deps", "sql", "command"}]
    /\ Kills \subseteq Request /\ Timeouts \subseteq Request /\ Crashes \subseteq Request
    /\ MaxHups \in Nat /\ MaxLogs \in Nat /\ PipeSize \in Nat \ {0}

VARIABLES
    last_parse,     \* TaskManager.last_parse.state
    manifest,       \* whether TaskManager.manifest is set
    reloader,       \* whether a ManifestReloader is parsing
    hups,           \* how many SIGHUPs have arrived
    pc,             \* [Request -> where its threads are]
    state, ended, result, error,    \* the attributes of its handler
    teardowns,      \* [Request -> how often its task's cleanup was called]
    got,            \* [Request -> what the handler thread read last]
    proc,           \* [Request -> its child process]
    logs,           \* [Request -> how many messages the child has logged]
    out, pipe,      \* [Request -> what the child has put; what is in the pipe]
    signals,        \* [Request -> the signals that are on their way to it]
    kill            \* [Request -> where the HTTP thread of its kill is]

managerVars == <<last_parse, manifest, reloader, hups>>
handlerVars == <<state, ended, result, error, teardowns, got>>
childVars   == <<proc, logs, out, pipe, signals>>
vars == <<managerVars, pc, handlerVars, childVars, kill>>

Finished == {"success", "failed", "error", "killed"}
States == {"not started", "initializing", "running"} \cup Finished

\* Only deps blocks the manifest's users, and reloads the manifest after
\* (task/rpc/deps.py:23-27; contracts/rpc.py:494-499)
BlocksManifestTasks(r) == Method[r] = "deps"

\* The server's constructor has started the first reload
\* (task_manager.py:81-91)
Init ==
    /\ last_parse = "compiling" /\ manifest = FALSE /\ reloader = TRUE /\ hups = 0
    /\ pc = [r \in Request |-> "new"]
    /\ state = [r \in Request |-> "not started"]
    /\ ended = [r \in Request |-> FALSE]
    /\ result = [r \in Request |-> FALSE]
    /\ error = [r \in Request |-> FALSE]
    /\ teardowns = [r \in Request |-> 0]
    /\ got = [r \in Request |-> "nothing"]
    /\ proc = [r \in Request |-> "none"]
    /\ logs = [r \in Request |-> 0]
    /\ out = [r \in Request |-> <<>>] /\ pipe = [r \in Request |-> <<>>]
    /\ signals = [r \in Request |-> {}]
    /\ kill = [r \in Request |-> "idle"]

GoTo(r, p) == pc' = [pc EXCEPT ![r] = p]
-----------------------------------------------------------------------------
(* The manager *)

\* Mutant: it is not looked at whether someone is parsing
SetParsingAnyway(done, refused) == last_parse' = "compiling" /\ done

\* set_parsing (task_manager.py:182-187)
set_parsing(done, refused) ==
    IF last_parse = "compiling" THEN refused /\ UNCHANGED last_parse
                                ELSE last_parse' = "compiling" /\ done

\* SIGHUP: reload_config, then reload_manifest (task/rpc/server.py:98-104;
\* task_manager.py:96-132)
sighup ==
    /\ hups < MaxHups
    /\ hups' = hups + 1
    /\ set_parsing(reloader' = TRUE, reloader' = reloader)
    /\ UNCHANGED <<manifest, pc, handlerVars, childVars, kill>>

\* ManifestReloader: parse_manifest, then set_ready or set_compile_exception
\* (task_manager.py:61-77, 189-207; task_handler.py:151-165)
reload_manifest ==
    /\ reloader
    /\ reloader' = FALSE
    /\ \/ manifest' = TRUE /\ last_parse' = "ready"
       \/ last_parse' = "error" /\ UNCHANGED manifest
    /\ UNCHANGED <<hups, pc, handlerVars, childVars, kill>>

-----------------------------------------------------------------------------
(* The HTTP thread of a request *)

\* get_handler, rpc_task, _get_manifest_callable: manifest methods are refused
\* while the manifest is compiling or could not be compiled
\* (task_manager.py:144-176, 223-234; response_manager.py:45-66)
get_handler(r) ==
    /\ pc[r] = "new"
    /\ GoTo(r, IF BlocksManifestTasks(r) \/ last_parse = "ready" THEN "added" ELSE "refused")
    /\ UNCHANGED <<managerVars, handlerVars, childVars, kill>>

\* add_request and handle, until set_args; the arguments may be bad
\* (task_handler.py:449-490, 508-511; task_manager.py:134-135)
handle(r) ==
    /\ pc[r] = "added"
    /\ state' = [state EXCEPT ![r] = "initializing"]
    /\ \E ok \in BOOLEAN :
         /\ GoTo(r, IF ok THEN "ready" ELSE "exit")
         /\ error' = [error EXCEPT ![r] = ~ok]
    /\ UNCHANGED <<managerVars, ended, result, teardowns, got, childVars, kill>>

\* The with block of SetArgsStateHandler ends, and __exit__ calls the task's
\* teardown; then the child is made, and the parse state is claimed if the
\* method needs it (task_handler.py:236-261, 492-498).  A refusal leaves the
\* handler initializing.
claim(r) ==
    /\ pc[r] = "ready"
    /\ teardowns' = [teardowns EXCEPT ![r] = @ + 1]
    /\ IF BlocksManifestTasks(r)
       THEN set_parsing(GoTo(r, "start"), GoTo(r, "refused"))
       ELSE GoTo(r, "start") /\ UNCHANGED last_parse
    /\ UNCHANGED <<manifest, reloader, hups, state, ended, result, error, got, childVars, kill>>

\* start: the process first (task_handler.py:432-445)
start(r) ==
    /\ pc[r] = "start"
    /\ proc' = [proc EXCEPT ![r] = "running"]
    /\ GoTo(r, "started")
    /\ UNCHANGED <<managerVars, handlerVars, logs, out, pipe, signals, kill>>

\* ... then the state and the handler thread (task_handler.py:446-447)
start_thread(r) ==
    /\ pc[r] = "started"
    /\ state' = [state EXCEPT ![r] = "running"]
    /\ GoTo(r, "wait")
    /\ UNCHANGED <<managerVars, ended, result, error, teardowns, got, childVars, kill>>

-----------------------------------------------------------------------------
(* The child process *)

\* QueueLogHandler.emit (rpc/logger.py:92-96)
child_logs(r) ==
    /\ proc[r] = "running" /\ logs[r] < MaxLogs
    /\ logs' = [logs EXCEPT ![r] = @ + 1]
    /\ out' = [out EXCEPT ![r] = Append(@, "log")]
    /\ UNCHANGED <<managerVars, pc, handlerVars, proc, pipe, signals, kill>>

\* What task_exec puts before it ends (task_handler.py:112-121;
\* rpc/logger.py:98-102)
Emits(r, msgs) ==
    /\ proc' = [proc EXCEPT ![r] = "exiting"]
    /\ out' = [out EXCEPT ![r] = @ \o msgs]

\* handle_request returns or raises (task_handler.py:79-111)
task_exec(r) ==
    /\ proc[r] = "running"
    /\ \E m \in {"result", "error"} : Emits(r, <<m>>)
    /\ UNCHANGED <<managerVars, pc, handlerVars, logs, pipe, signals, kill>>

\* A signal reaches the child.  In handle_request, SIGTERM raises
\* RPCKilledException, which task_exec reports; SIGINT raises KeyboardInterrupt,
\* which run_sql and compile_sql turn into RPCKilledException
\* (task/rpc/sql_commands.py:156-186) and which the others let through
\* task_exec, as it catches Exception.  Outside its try, while the child sets up
\* or emits, nothing is reported (task_handler.py:47-48, 79-121).  A child that
\* is exiting stops waiting for its queue to be written.
child_interrupted(r) ==
    /\ \E s \in signals[r] :
         /\ signals' = [signals EXCEPT ![r] = IF proc[r] = "running" THEN @ \ {s} ELSE {}]
         /\ \/ proc[r] = "running" /\ Emits(r, <<>>)
            \/ proc[r] = "running" /\ (s = "SIGTERM" \/ Method[r] = "sql") /\ Emits(r, <<"error">>)
            \/ /\ proc[r] = "exiting"
               /\ proc' = [proc EXCEPT ![r] = "dead"]
               /\ out' = [out EXCEPT ![r] = <<>>]
    /\ UNCHANGED <<managerVars, pc, handlerVars, logs, pipe, kill>>

\* _spawn_setup raises, outside the try, or the system ends the process
\* (task_handler.py:61-77, 87-89)
child_dies(r) ==
    /\ r \in Crashes /\ proc[r] = "running"
    /\ proc' = [proc EXCEPT ![r] = "dead"]
    /\ out' = [out EXCEPT ![r] = <<>>]
    /\ signals' = [signals EXCEPT ![r] = {}]
    /\ UNCHANGED <<managerVars, pc, handlerVars, logs, pipe, kill>>

\* The queue's feeder thread writes to the pipe while there is room, and the
\* process does not exit before all is written
feed(r) ==
    /\ out[r] # <<>> /\ Len(pipe[r]) < PipeSize
    /\ pipe' = [pipe EXCEPT ![r] = Append(@, Head(out[r]))]
    /\ out' = [out EXCEPT ![r] = Tail(@)]
    /\ UNCHANGED <<managerVars, pc, handlerVars, proc, logs, signals, kill>>

exits(r) ==
    /\ proc[r] = "exiting" /\ out[r] = <<>>
    /\ proc' = [proc EXCEPT ![r] = "dead"]
    /\ signals' = [signals EXCEPT ![r] = {}]
    /\ UNCHANGED <<managerVars, pc, handlerVars, logs, out, pipe, kill>>

\* A signal that is sent to a process that has ended is lost
Signal(r, s) ==
    signals' = IF proc[r] = "dead" THEN signals ELSE [signals EXCEPT ![r] = @ \cup {s}]
-----------------------------------------------------------------------------
(* The handler thread *)

\* Mutant: a message that ends the task is passed over
ReceiveGoesOn(r) ==
    /\ pc[r] = "wait" /\ pipe[r] # <<>>
    /\ pipe' = [pipe EXCEPT ![r] = Tail(@)]
    /\ got' = [got EXCEPT ![r] = Head(pipe[r])]
    /\ GoTo(r, IF Head(pipe[r]) = "result" THEN "join" ELSE "wait")
    /\ UNCHANGED <<managerVars, state, ended, result, error, teardowns,
                   proc, logs, out, signals, kill>>

\* dispatch_until_exit: logs are passed on, and any other message ends the
\* loop (rpc/logger.py:117-170; task_handler.py:338-374)
receive(r) ==
    /\ pc[r] = "wait" /\ pipe[r] # <<>>
    /\ pipe' = [pipe EXCEPT ![r] = Tail(@)]
    /\ got' = [got EXCEPT ![r] = Head(pipe[r])]
    /\ GoTo(r, IF Head(pipe[r]) = "log" THEN "wait" ELSE "join")
    /\ UNCHANGED <<managerVars, state, ended, result, error, teardowns,
                   proc, logs, out, signals, kill>>

\* The timeout passes: the process is terminated (task_handler.py:365-368;
\* rpc/logger.py:105-128)
times_out(r) ==
    /\ pc[r] = "wait" /\ r \in Timeouts
    /\ Signal(r, "SIGTERM")
    /\ got' = [got EXCEPT ![r] = "error"]
    /\ GoTo(r, "join")
    /\ UNCHANGED <<managerVars, state, ended, result, error, teardowns,
                   proc, logs, out, pipe, kill>>

\* Mutant: the process is not waited for
JoinsAtOnce(r) ==
    /\ pc[r] = "join"
    /\ GoTo(r, IF BlocksManifestTasks(r) THEN "parse" ELSE "assign")
    /\ UNCHANGED <<managerVars, handlerVars, childVars, kill>>

\* self.process.join()   (task_handler.py:387-393)
join(r) ==
    /\ pc[r] = "join" /\ proc[r] = "dead"
    /\ GoTo(r, IF BlocksManifestTasks(r) THEN "parse" ELSE "assign")
    /\ UNCHANGED <<managerVars, handlerVars, childVars, kill>>

\* Mutant: the parse state is given back only when there is a manifest
ParseKeepsCompiling(r) ==
    /\ pc[r] = "parse"
    /\ \/ got[r] = "result" /\ manifest' = TRUE /\ last_parse' = "ready" /\ UNCHANGED got
       \/ got' = [got EXCEPT ![r] = "error"] /\ UNCHANGED <<manifest, last_parse>>
    /\ GoTo(r, "assign")
    /\ UNCHANGED <<reloader, hups, state, ended, result, error, teardowns, childVars, kill>>

\* get_results_context: a result is followed by parse_manifest, which may
\* raise; then set_ready or set_compile_exception (task_handler.py:151-188,
\* 376-403)
parse(r) ==
    /\ pc[r] = "parse"
    /\ \/ got[r] = "result" /\ manifest' = TRUE /\ last_parse' = "ready" /\ UNCHANGED got
       \/ last_parse' = "error" /\ got' = [got EXCEPT ![r] = "error"] /\ UNCHANGED manifest
    /\ GoTo(r, "assign")
    /\ UNCHANGED <<reloader, hups, state, ended, result, error, teardowns, childVars, kill>>

\* self.result = self.get_result(), or the exception reaches StateHandler
\* (task_handler.py:220-230, 405-414)
assign(r) ==
    /\ pc[r] = "assign"
    /\ result' = [result EXCEPT ![r] = got[r] = "result"]
    /\ error' = [error EXCEPT ![r] = got[r] # "result"]
    /\ GoTo(r, "exit")
    /\ UNCHANGED <<managerVars, state, ended, teardowns, got, childVars, kill>>

\* Mutant: a killed task's state is overwritten
SetStateAnyway(r) ==
    /\ pc[r] = "exit"
    /\ \E s \in IF error[r] THEN {"error"} ELSE {"success", "failed"} :
         state' = [state EXCEPT ![r] = s]
    /\ GoTo(r, "end")
    /\ UNCHANGED <<managerVars, ended, result, error, teardowns, got, childVars, kill>>

\* handle_completed, handle_error: the state, unless the task was killed
\* (task_handler.py:203-217, 231-232)
set_state(r) ==
    /\ pc[r] = "exit"
    /\ \E s \in IF error[r] THEN {"error"} ELSE {"success", "failed"} :
         state' = IF state[r] = "killed" THEN state ELSE [state EXCEPT ![r] = s]
    /\ GoTo(r, "end")
    /\ UNCHANGED <<managerVars, ended, result, error, teardowns, got, childVars, kill>>

\* ... then set_end and the teardown (task_handler.py:200-201, 218, 233-248)
set_end(r) ==
    /\ pc[r] = "end"
    /\ ended' = [ended EXCEPT ![r] = TRUE]
    /\ teardowns' = [teardowns EXCEPT ![r] = @ + 1]
    /\ GoTo(r, "done")
    /\ UNCHANGED <<managerVars, state, result, error, got, childVars, kill>>
-----------------------------------------------------------------------------
(* kill: builtins.py:70-98 *)

\* The process is alive: the end time is set
kill_begins(r) ==
    /\ r \in Kills /\ kill[r] = "idle" /\ proc[r] \in {"running", "exiting"}
    /\ ended' = [ended EXCEPT ![r] = TRUE]
    /\ kill' = [kill EXCEPT ![r] = "signal"]
    /\ UNCHANGED <<managerVars, pc, state, result, error, teardowns, got, childVars>>

\* os.kill, which raises if the process is dead and was waited for: join may
\* or may not have seen its end already
kill_signals(r) ==
    /\ kill[r] = "signal"
    /\ \/ /\ proc[r] = "dead" /\ pc[r] \notin {"started", "wait"}
          /\ kill' = [kill EXCEPT ![r] = "idle"] /\ UNCHANGED signals
       \/ /\ proc[r] = "dead" => pc[r] \in {"started", "wait", "join"}
          /\ kill' = [kill EXCEPT ![r] = "state"]
          /\ Signal(r, "SIGINT")
    /\ UNCHANGED <<managerVars, pc, handlerVars, proc, logs, out, pipe>>

\* The state is set
kill_ends(r) ==
    /\ kill[r] = "state"
    /\ state' = [state EXCEPT ![r] = "killed"]
    /\ kill' = [kill EXCEPT ![r] = "idle"]
    /\ UNCHANGED <<managerVars, pc, ended, result, error, teardowns, got, childVars>>
-----------------------------------------------------------------------------
HttpThread(r) == get_handler(r) \/ handle(r) \/ claim(r) \/ start(r) \/ start_thread(r)

HandlerThread(r) ==
    \/ receive(r) \/ join(r) \/ parse(r) \/ assign(r) \/ set_state(r) \/ set_end(r)

Child(r) ==
    \/ child_logs(r) \/ task_exec(r) \/ child_interrupted(r) \/ child_dies(r)
    \/ feed(r) \/ exits(r)

Kill(r) == kill_begins(r) \/ kill_signals(r) \/ kill_ends(r)

Next ==
    \/ sighup \/ reload_manifest
    \/ \E r \in Request : HttpThread(r) \/ HandlerThread(r) \/ times_out(r) \/ Child(r) \/ Kill(r)

Spec == Init /\ [][Next]_vars

\* Threads and processes that can go on do; the task of a child ends.  A timeout
\* is not relied on: a request need not have one.
FairSpec ==
    /\ Spec
    /\ WF_vars(reload_manifest)
    /\ \A r \in Request :
         /\ WF_vars(HttpThread(r)) /\ WF_vars(HandlerThread(r))
         /\ WF_vars(task_exec(r) \/ child_interrupted(r))
         /\ WF_vars(feed(r)) /\ WF_vars(exits(r))
         /\ WF_vars(kill_signals(r) \/ kill_ends(r))
-----------------------------------------------------------------------------
(* Properties *)

\* The requests that have claimed the parse state and not given it back
Parsing == {r \in Request : BlocksManifestTasks(r)
                            /\ pc[r] \in {"start", "started", "wait", "join", "parse"}}

\* Only one thread parses at a time, and only while the state is Compiling, so
\* the assertions of set_ready and set_compile_exception hold
\* (task_manager.py:193, 202); and whoever finds the state Ready finds a manifest
\* (task_manager.py:153-157).
OneParser ==
    /\ last_parse = "ready" => manifest
    /\ Cardinality(Parsing) + (IF reloader THEN 1 ELSE 0) <= 1
    /\ (Parsing # {} \/ reloader) => last_parse = "compiling"

\* A task that ended by itself has left no process behind, and poll finds a result
\* for one that succeeded or failed and an error for one in error
\* (builtins.py:215-242).
NoProcessLeft ==
    \A r \in Request :
        /\ state[r] \in Finished \ {"killed"} => proc[r] \in {"none", "dead"}
        /\ state[r] \in {"success", "failed"} => result[r]
        /\ state[r] = "error" => error[r]

\* A kill that was acknowledged stays visible: once the HTTP thread has set the
\* state to Running, the handler thread does not overwrite Killed (task_handler.py:204-205, 231-232).
KilledStays ==
    [][\A r \in Request : state[r] = "killed" /\ pc[r] # "started" => state'[r] = "killed"]_vars

\* The manifest's users are not locked out for ever.
Unblocks == last_parse = "compiling" ~> last_parse # "compiling"

\* A task that was started ends, and its task's cleanup is called
\* (task_handler.py:246-248), whatever becomes of the others; a child that is
\* killed or crashes may never say that it ended.
CleanupRuns ==
    \A r \in Request \ (Kills \cup Crashes) : pc[r] = "wait" ~> pc[r] = "done"

\* A task that is shown as finished has an end time, so that ps and poll can
\* show it.
EndedKnown == \A r \in Request : state[r] \in Finished => ended[r]

Rank(s) == CASE s = "not started" -> 0 [] s = "initializing" -> 1
             [] s = "running" -> 2 [] OTHER -> 3

\* A task's state only moves forward in the order of TaskHandlerState.
StateForward == [][\A r \in Request : Rank(state'[r]) >= Rank(state[r])]_vars

\* The teardown is executed once: by the handler thread, not at set_args.
TeardownOnce == \A r \in Request : teardowns[r] <= 1
=============================================================================
