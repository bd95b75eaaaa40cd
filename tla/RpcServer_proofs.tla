-------------------------- MODULE RpcServer_proofs --------------------------
(***************************************************************************)
(* The safety of the RPC server for any number of requests, of any         *)
(* methods, with any kills, timeouts and crashes: only one thread parses,  *)
(* what poll shows of a finished task is there, and a kill stays visible.  *)
(***************************************************************************)
EXTENDS RpcServer, FiniteSetTheorems, TLAPS

\* The HTTP thread has not started the child
BeforeStart == {"new", "added", "ready", "start", "refused"}
AfterExit == {"end", "done"}
Places == BeforeStart \cup AfterExit \cup {"started", "wait", "join", "parse", "assign", "exit"}

TypeInv ==
    /\ last_parse \in {"compiling", "ready", "error"}
    /\ manifest \in BOOLEAN /\ reloader \in BOOLEAN
    /\ pc \in [Request -> Places]
    /\ state \in [Request -> States]
    /\ result \in [Request -> BOOLEAN] /\ error \in [Request -> BOOLEAN]
    /\ proc \in [Request -> {"none", "running", "exiting", "dead"}]
    /\ kill \in [Request -> {"idle", "signal", "state"}]

\* Who has the parse state: the reloader or one of the handlers, and then the
\* state is Compiling
ParserInv ==
    /\ last_parse = "ready" => manifest
    /\ \A r, s \in Parsing : r = s
    /\ reloader => Parsing = {}
    /\ (Parsing # {} \/ reloader) => last_parse = "compiling"

\* What is known of a request from where its threads are
RequestInv(r) ==
    /\ pc[r] \in BeforeStart => /\ proc[r] = "none" /\ kill[r] = "idle"
                                /\ state[r] \in {"not started", "initializing"}
    /\ pc[r] \in {"parse", "assign"} => proc[r] = "dead"
    /\ pc[r] = "parse" => BlocksManifestTasks(r)
    /\ pc[r] \in {"exit"} \cup AfterExit => proc[r] \in {"none", "dead"} /\ (error[r] \/ result[r])
    /\ state[r] \in {"success", "failed"} => pc[r] \in AfterExit /\ result[r]
    /\ state[r] = "error" => pc[r] \in AfterExit /\ error[r]

RInv == TypeInv /\ ParserInv /\ \A r \in Request : RequestInv(r)
-----------------------------------------------------------------------------
LEMMA InitRInv == Init => RInv
<1> SUFFICES ASSUME Init PROVE RInv OBVIOUS
<1>1. TypeInv BY DEF Init, TypeInv, Places, BeforeStart, AfterExit, States, Finished
<1>2. Parsing = {} BY DEF Init, Parsing
<1>3. ParserInv BY <1>2 DEF Init, ParserInv
<1>4. ASSUME NEW r \in Request PROVE RequestInv(r)
   BY DEF Init, RequestInv, BeforeStart, AfterExit
<1> QED BY <1>1, <1>3, <1>4 DEF RInv

USE DEF GoTo, managerVars, handlerVars, childVars

Threads(r) == HttpThread(r) \/ HandlerThread(r) \/ times_out(r)
Actors(r) == Threads(r) \/ Child(r) \/ Kill(r)

\* What RequestInv speaks of is the same for q after the step
Untouched(q) ==
    /\ pc'[q] = pc[q] /\ state'[q] = state[q] /\ result'[q] = result[q] /\ error'[q] = error[q]
    /\ proc'[q] = proc[q] /\ kill'[q] = kill[q]

\* A step of one request keeps the types and touches no other request
LEMMA ThreadsFrame ==
    ASSUME TypeInv, NEW r \in Request, Threads(r)
    PROVE  TypeInv' /\ \A q \in Request \ {r} : Untouched(q)
<1> USE DEF TypeInv, Untouched, Places, BeforeStart, AfterExit, States, Finished
<1>1. CASE get_handler(r) BY <1>1 DEF get_handler
<1>2. CASE handle(r) BY <1>2 DEF handle
<1>3. CASE claim(r) BY <1>3 DEF claim, set_parsing
<1>4. CASE start(r) BY <1>4 DEF start
<1>5. CASE start_thread(r) BY <1>5 DEF start_thread
<1>6. CASE receive(r) BY <1>6 DEF receive
<1>7. CASE join(r) BY <1>7 DEF join
<1>8. CASE parse(r) BY <1>8 DEF parse
<1>9. CASE assign(r) BY <1>9 DEF assign
<1>10. CASE set_state(r)
  <2>1. PICK s \in {"error", "success", "failed"} :
          state' = IF state[r] = "killed" THEN state ELSE [state EXCEPT ![r] = s]
     BY <1>10 DEF set_state
  <2> QED BY <1>10, <2>1 DEF set_state
<1>11. CASE set_end(r) BY <1>11 DEF set_end
<1>12. CASE times_out(r) BY <1>12 DEF times_out
<1> QED BY <1>1, <1>2, <1>3, <1>4, <1>5, <1>6, <1>7, <1>8, <1>9, <1>10, <1>11, <1>12
        DEF Threads, HttpThread, HandlerThread

LEMMA OthersFrame ==
    ASSUME TypeInv, NEW r \in Request, Child(r) \/ Kill(r)
    PROVE  TypeInv' /\ \A q \in Request \ {r} : Untouched(q)
<1> USE DEF TypeInv, Untouched, States, Finished
<1>1. CASE child_logs(r) BY <1>1 DEF child_logs
<1>2. CASE task_exec(r) BY <1>2 DEF task_exec, Emits
<1>3. CASE child_interrupted(r) BY <1>3 DEF child_interrupted, Emits
<1>4. CASE child_dies(r) BY <1>4 DEF child_dies
<1>5. CASE feed(r) BY <1>5 DEF feed
<1>6. CASE exits(r) BY <1>6 DEF exits
<1>7. CASE kill_begins(r) BY <1>7 DEF kill_begins
<1>8. CASE kill_signals(r) BY <1>8 DEF kill_signals
<1>9. CASE kill_ends(r) BY <1>9 DEF kill_ends
<1> QED BY <1>1, <1>2, <1>3, <1>4, <1>5, <1>6, <1>7, <1>8, <1>9 DEF Child, Kill

\* ... and keeps what is known of the request itself
LEMMA ThreadsStep ==
    ASSUME TypeInv, NEW r \in Request, RequestInv(r), Threads(r)
    PROVE  RequestInv(r)'
<1> USE DEF TypeInv, RequestInv, BeforeStart, AfterExit, BlocksManifestTasks
<1>1. CASE get_handler(r) BY <1>1 DEF get_handler
<1>2. CASE handle(r) BY <1>2 DEF handle
<1>3. CASE claim(r) BY <1>3 DEF claim, set_parsing
<1>4. CASE start(r) BY <1>4 DEF start
<1>5. CASE start_thread(r) BY <1>5 DEF start_thread
<1>6. CASE receive(r) BY <1>6 DEF receive
<1>7. CASE join(r) BY <1>7 DEF join
<1>8. CASE parse(r) BY <1>8 DEF parse
<1>9. CASE assign(r) BY <1>9 DEF assign
<1>10. CASE set_state(r) BY <1>10 DEF set_state
<1>11. CASE set_end(r) BY <1>11 DEF set_end
<1>12. CASE times_out(r) BY <1>12 DEF times_out
<1> QED BY <1>1, <1>2, <1>3, <1>4, <1>5, <1>6, <1>7, <1>8, <1>9, <1>10, <1>11, <1>12
        DEF Threads, HttpThread, HandlerThread

LEMMA OthersStep ==
    ASSUME TypeInv, NEW r \in Request, RequestInv(r), Child(r) \/ Kill(r)
    PROVE  RequestInv(r)'
<1> USE DEF TypeInv, RequestInv, BeforeStart, AfterExit, BlocksManifestTasks
<1>1. CASE child_logs(r) BY <1>1 DEF child_logs
<1>2. CASE task_exec(r) BY <1>2 DEF task_exec, Emits
<1>3. CASE child_interrupted(r) BY <1>3 DEF child_interrupted, Emits
<1>4. CASE child_dies(r) BY <1>4 DEF child_dies
<1>5. CASE feed(r) BY <1>5 DEF feed
<1>6. CASE exits(r) BY <1>6 DEF exits
<1>7. CASE kill_begins(r) BY <1>7 DEF kill_begins
<1>8. CASE kill_signals(r) BY <1>8 DEF kill_signals
<1>9. CASE kill_ends(r) BY <1>9 DEF kill_ends
<1> QED BY <1>1, <1>2, <1>3, <1>4, <1>5, <1>6, <1>7, <1>8, <1>9 DEF Child, Kill

-----------------------------------------------------------------------------
\* No thread but claim, parse, the reloader and SIGHUP takes or gives back the
\* parse state
LEMMA ParserKept ==
    ASSUME TypeInv, ParserInv, NEW r \in Request, Actors(r), ~claim(r), ~parse(r)
    PROVE  ParserInv'
<1>1. UNCHANGED <<last_parse, manifest, reloader>> /\ (r \in Parsing' => r \in Parsing)
  <2> USE DEF TypeInv, Parsing
  <2>1. CASE Threads(r)
     BY <2>1 DEF Threads, HttpThread, HandlerThread, get_handler, handle, start, start_thread,
                 receive, join, assign, set_state, set_end, times_out
  <2>2. CASE Child(r) \/ Kill(r)
     BY <2>2 DEF Child, Kill, child_logs, task_exec, child_interrupted, child_dies, feed, exits,
                 kill_begins, kill_signals, kill_ends
  <2> QED BY <2>1, <2>2 DEF Actors
<1>2. \A q \in Request \ {r} : Untouched(q) BY ThreadsFrame, OthersFrame DEF Actors
<1>3. Parsing' \subseteq Parsing BY <1>1, <1>2 DEF Parsing, Untouched
<1> QED BY <1>1, <1>3 DEF ParserInv

\* Who claims the parse state finds nobody parsing; who has it is alone
LEMMA ParserMoves ==
    ASSUME TypeInv, ParserInv, NEW r \in Request, RequestInv(r), claim(r) \/ parse(r)
    PROVE  ParserInv'
<1>2. \A q \in Request \ {r} : Untouched(q)
   BY ThreadsFrame DEF Threads, HttpThread, HandlerThread
<1>3. CASE claim(r)
  <2>1. CASE BlocksManifestTasks(r) /\ last_parse # "compiling"
    <3>1. Parsing = {} /\ ~reloader BY <2>1 DEF ParserInv
    <3>2. last_parse' = "compiling" /\ UNCHANGED <<manifest, reloader>>
       BY <1>3, <2>1 DEF claim, set_parsing
    <3>3. Parsing' \subseteq {r} BY <1>2, <3>1 DEF Parsing, Untouched
    <3> QED BY <3>1, <3>2, <3>3 DEF ParserInv
  <2>2. CASE ~(BlocksManifestTasks(r) /\ last_parse # "compiling")
    <3>1. UNCHANGED <<last_parse, manifest, reloader>> /\ r \notin Parsing'
       BY <1>3, <2>2 DEF claim, set_parsing, TypeInv, Parsing, BlocksManifestTasks
    <3>2. Parsing' \subseteq Parsing BY <1>2, <3>1 DEF Parsing, Untouched
    <3> QED BY <3>1, <3>2 DEF ParserInv
  <2> QED BY <2>1, <2>2
<1>4. CASE parse(r)
  <2>1. BlocksManifestTasks(r) BY <1>4 DEF parse, RequestInv
  <2>2. Parsing \subseteq {r} /\ ~reloader BY <1>4, <2>1 DEF ParserInv, parse, Parsing
  <2>3. /\ r \notin Parsing' /\ reloader' = reloader
        /\ last_parse' = "ready" => manifest'
     BY <1>4 DEF parse, TypeInv, Parsing
  <2>4. Parsing' = {} BY <1>2, <2>2, <2>3 DEF Parsing, Untouched
  <2> QED BY <2>2, <2>3, <2>4 DEF ParserInv
<1> QED BY <1>3, <1>4

\* SIGHUP and the end of a reload
LEMMA ReloaderStep == ASSUME RInv, sighup \/ reload_manifest PROVE RInv'
<1>1. UNCHANGED <<pc, state, result, error, proc, kill>> BY DEF sighup, reload_manifest
<1>2. TypeInv' BY <1>1 DEF RInv, TypeInv, sighup, reload_manifest, set_parsing
<1>3. Parsing' = Parsing BY <1>1 DEF Parsing
<1>4. ASSUME sighup PROVE ParserInv' BY <1>3, <1>4 DEF RInv, ParserInv, TypeInv, sighup, set_parsing
<1>5. ASSUME reload_manifest PROVE ParserInv' BY <1>3, <1>5 DEF RInv, ParserInv, TypeInv, reload_manifest
<1>6. ParserInv' BY <1>4, <1>5
<1>7. \A q \in Request : RequestInv(q)' BY <1>1 DEF RInv, RequestInv
<1> QED BY <1>2, <1>6, <1>7 DEF RInv

LEMMA ActorsStep == ASSUME RInv, NEW r \in Request, Actors(r) PROVE RInv'
<1>1. TypeInv' /\ \A q \in Request \ {r} : Untouched(q)
   BY ThreadsFrame, OthersFrame DEF Actors, RInv
<1>2. RequestInv(r)' BY ThreadsStep, OthersStep DEF Actors, RInv
<1>3. ASSUME NEW q \in Request \ {r} PROVE RequestInv(q)'
   BY <1>1 DEF RInv, RequestInv, Untouched
<1>4. ParserInv' BY ParserKept, ParserMoves DEF RInv
<1> QED BY <1>1, <1>2, <1>3, <1>4 DEF RInv

LEMMA StepRInv == RInv /\ [Next]_vars => RInv'
<1> SUFFICES ASSUME RInv, [Next]_vars PROVE RInv' OBVIOUS
<1>1. CASE UNCHANGED vars
  <2>1. TypeInv' BY <1>1 DEF vars, RInv, TypeInv
  <2>2. Parsing' = Parsing BY <1>1 DEF vars, Parsing
  <2>3. ParserInv' BY <1>1, <2>2 DEF vars, RInv, ParserInv
  <2>4. \A q \in Request : RequestInv(q)' BY <1>1 DEF vars, RInv, RequestInv
  <2> QED BY <2>1, <2>3, <2>4 DEF RInv
<1>2. CASE sighup \/ reload_manifest BY <1>2, ReloaderStep
<1>3. CASE \E r \in Request : HttpThread(r) \/ HandlerThread(r) \/ times_out(r) \/ Child(r) \/ Kill(r)
   BY <1>3, ActorsStep DEF Actors, Threads
<1> QED BY <1>1, <1>2, <1>3 DEF Next

\* RInv is an invariant of the server.
THEOREM ServerInvariance == Spec => []RInv
<1> QED BY InitRInv, StepRInv, PTL DEF Spec

\* At most one of the reloader and the handlers parses, while the state is
\* Compiling, and Ready means that there is a manifest (set_parsing, set_ready,
\* set_compile_exception), for any number of requests and reloads.
THEOREM OneParserCorrect == Spec => []OneParser
<1>1. ASSUME ParserInv, TypeInv PROVE OneParser
  <2>1. CASE Parsing = {}
    <3>1. Cardinality(Parsing) = 0 BY <2>1, FS_EmptySet
    <3> QED BY <1>1, <2>1, <3>1 DEF ParserInv, OneParser
  <2>2. CASE Parsing # {}
    <3>1. PICK r \in Parsing : Parsing = {r} BY <1>1, <2>2 DEF ParserInv
    <3>2. Cardinality(Parsing) = 1 BY <3>1, FS_Singleton
    <3> QED BY <1>1, <2>2, <3>2 DEF ParserInv, OneParser
  <2> QED BY <2>1, <2>2
<1>2. RInv => OneParser BY <1>1 DEF RInv
<1> QED BY <1>2, ServerInvariance, PTL

\* A task that ended by itself left no process, and poll finds the result or the
\* error that the state promises (poll, handle_completed, handle_error).
THEOREM NoProcessLeftCorrect == Spec => []NoProcessLeft
<1>1. RInv => NoProcessLeft
   BY DEF RInv, TypeInv, RequestInv, NoProcessLeft, Finished, AfterExit
<1> QED BY <1>1, ServerInvariance, PTL

\* No step but start_thread takes back that a task was killed.
THEOREM KilledStaysCorrect == Spec => KilledStays
<1> DEFINE Kept == \A r \in Request : state[r] = "killed" /\ pc[r] # "started" => state'[r] = "killed"
<1>1. ASSUME RInv, [Next]_vars PROVE [Kept]_vars
  <2>1. CASE UNCHANGED vars BY <2>1
  <2>2. CASE sighup \/ reload_manifest BY <2>2 DEF sighup, reload_manifest
  <2>3. ASSUME NEW r \in Request, Actors(r) PROVE Kept
    <3>1. \A q \in Request \ {r} : state'[q] = state[q]
       BY <1>1, <2>3, ThreadsFrame, OthersFrame DEF Actors, RInv, Untouched
    <3>2. ASSUME state[r] = "killed", pc[r] # "started" PROVE state'[r] = "killed"
      <4>1. pc[r] \notin BeforeStart BY <1>1, <3>2 DEF RInv, RequestInv
      <4>2. CASE Threads(r)
         BY <1>1, <3>2, <4>1, <4>2
            DEF RInv, TypeInv, BeforeStart, Threads, HttpThread, HandlerThread, get_handler, handle,
                claim, start, start_thread, receive, join, parse, assign, set_state, set_end, times_out
      <4>3. CASE Child(r) \/ Kill(r)
         BY <1>1, <3>2, <4>3
            DEF RInv, TypeInv, Child, Kill, child_logs, task_exec, child_interrupted, child_dies, feed,
                exits, kill_begins, kill_signals, kill_ends
      <4> QED BY <2>3, <4>2, <4>3 DEF Actors
    <3> QED BY <3>1, <3>2
  <2> QED BY <1>1, <2>1, <2>2, <2>3 DEF Next, Actors, Threads
<1> QED BY <1>1, ServerInvariance, PTL DEF Spec, KilledStays
=============================================================================
