-------------------------------- MODULE RpcGC --------------------------------
(***************************************************************************)
(* The table of the RPC server's tasks and its GarbageCollector            *)
(* (rpc/gc.py).  Every request first collects what the settings require    *)
(* (task_manager.py:223-227), then may add a task, or be the gc method,    *)
(* which collects what it is told to and may change the settings.          *)
(* Collections hold the manager's lock; tasks end without it.              *)
(***************************************************************************)
EXTENDS Integers, Sequences, FiniteSets, SequencesExt

CONSTANTS
    Task,       \* the tasks
    Settings,   \* the settings: records of maxsize, reapsize, auto_reap_age
    Default,    \* the settings at the start
    MaxTime,    \* bound: how far the clock goes
    MaxRequests \* bound: how many requests are served at a time

VARIABLES
    active_tasks,   \* the tasks in the table
    finished,       \* the tasks whose state is finished
    ended,          \* [Task -> when it ended; 0 stands for None]
    settings,       \* the collector's settings
    now,            \* the clock
    requests,       \* how many requests have collected and not yet gone on
    last            \* what happened last: "required", "selected" or "other"

vars == <<active_tasks, finished, ended, settings, now, requests, last>>

Init ==
    /\ active_tasks = {} /\ finished = {} /\ ended = [t \in Task |-> 0]
    /\ settings = Default /\ now = 1 /\ requests = 0 /\ last = "other"

\* The tasks that the two lists of candidates look at (gc.py:50-54, 62-66)
Ended == {t \in active_tasks \cap finished : ended[t] # 0}

\* _get_before_list (gc.py:48-58)
_get_before_list(when) == {t \in Ended : ended[t] < when}

\* Python's s[:num], for which a negative num counts from the end
UpTo(s, num) == SubSeq(s, 1, IF num < 0 THEN Len(s) + num ELSE IF num > Len(s) THEN Len(s) ELSE num)

\* _get_oldest_ended_list (gc.py:60-70)
_get_oldest_ended_list(num) ==
    ToSet(UpTo(SetToSortSeq(Ended, LAMBDA a, b : ended[a] < ended[b]), num))

\* What collect_as_required removes (gc.py:99-110)
ToRemove ==
    LET num_tasks == Cardinality(active_tasks) IN
    IF num_tasks > settings.maxsize
    THEN _get_oldest_ended_list(settings.maxsize - num_tasks)
    ELSE IF num_tasks > settings.reapsize
    THEN _get_before_list(now - settings.auto_reap_age)
    ELSE {}

\* collect_multiple_task_ids, collect_task_id, _remove_task_if_finished: a
\* task that runs stays (gc.py:34-46, 72-97)
collect_multiple_task_ids(task_ids) == active_tasks' = active_tasks \ (task_ids \cap finished)

\* gc_as_required, at every request (task_manager.py:226-227, 244-246)
collect_as_required ==
    /\ requests < MaxRequests
    /\ requests' = requests + 1
    /\ collect_multiple_task_ids(ToRemove)
    /\ last' = "required"
    /\ UNCHANGED <<finished, ended, settings, now>>

\* gc_safe, collect_selected: the gc method (gc.py:112-127;
\* task_manager.py:248-257; builtins.py:54-61)
collect_selected ==
    /\ requests > 0 /\ requests' = requests - 1
    /\ \E task_ids \in SUBSET Task, before \in 0..now :
         collect_multiple_task_ids(task_ids \cup _get_before_list(before))
    /\ settings' \in Settings
    /\ last' = "selected"
    /\ UNCHANGED <<finished, ended, now>>

\* add_request (task_manager.py:134-135)
add_request(t) ==
    /\ requests > 0 /\ requests' = requests - 1
    /\ t \notin active_tasks \cup finished
    /\ active_tasks' = active_tasks \cup {t}
    /\ last' = "other"
    /\ UNCHANGED <<finished, ended, settings, now>>

\* A request that leaves the table as it is: ps, poll, kill, status, or one that
\* is refused (response_manager.py:51-55)
answer ==
    /\ requests > 0 /\ requests' = requests - 1
    /\ last' = "other"
    /\ UNCHANGED <<active_tasks, finished, ended, settings, now>>

\* The task's handler sets the state (task_handler.py:203-217, 231-232)
set_state(t) ==
    /\ t \in active_tasks \ finished
    /\ finished' = finished \cup {t}
    /\ last' = "other"
    /\ UNCHANGED <<active_tasks, ended, settings, now, requests>>

\* ... and then the end (task_handler.py:200-201, 218, 233), which kill sets
\* first (builtins.py:89-93); no two tasks end at the same time
set_end(t) ==
    /\ t \in active_tasks \cup finished /\ ended[t] = 0 /\ now < MaxTime
    /\ ended' = [ended EXCEPT ![t] = now]
    /\ now' = now + 1
    /\ last' = "other"
    /\ UNCHANGED <<active_tasks, finished, settings, requests>>

Next ==
    \/ collect_as_required \/ collect_selected \/ answer
    \/ \E t \in Task : add_request(t) \/ set_state(t) \/ set_end(t)

Spec == Init /\ [][Next]_vars
-----------------------------------------------------------------------------
\* After a collection as required the table is within maxsize, unless all that is
\* left is running or is just ending.
TableBounded ==
    [][last' = "required" => \/ Cardinality(active_tasks') <= settings.maxsize
                             \/ Ended \cap active_tasks' = {}]_vars
=============================================================================
