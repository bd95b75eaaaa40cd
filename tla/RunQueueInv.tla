---------------------------- MODULE RunQueueInv -----------------------------
(***************************************************************************)
(* The inductive invariant behind the safety properties of RunQueue.  It   *)
(* says where a node that was handed out is, and what is known of it       *)
(* there.                                                                  *)
(***************************************************************************)
EXTENDS RunQueue

\* The nodes at each place between get() and mark_done()
AtMain == IF pc \in {"tick", "submit"} THEN {cur} ELSE {}
AtTaskq == {taskq[i].node : i \in 1..Len(taskq)}
Busy == {w \in Workers : running[w] # NoJob}
AtWorker == {running[w].node : w \in Busy}
AtResultq == {resultq[i].node : i \in 1..Len(resultq)}
AtCallback == IF handling = NoResult THEN {} ELSE {handling.node}

GraphInv ==
    /\ edges \in Graphs
    /\ qedges = SubsetGraph(edges, selected)

\* Only the main thread, between get() and _mark_in_progress, holds a node that
\* is queued and no longer in the priority queue
MainInv ==
    /\ pc = "mark" => cur \notin inner /\ queued = inner \cup {cur}
    /\ pc \in {"check", "get", "tick", "submit", "wait", "waiting", "woken",
               "join", "final", "close", "done"} => inner = queued

\* A node that was handed out is in progress, and at one place, once
PlaceIn ==
    AtMain \cup AtTaskq \cup AtWorker \cup AtResultq \cup AtCallback \subseteq in_progress

PlaceDisjoint ==
    /\ AtMain \cap (AtTaskq \cup AtWorker \cup AtResultq \cup AtCallback) = {}
    /\ AtTaskq \cap (AtWorker \cup AtResultq \cup AtCallback) = {}
    /\ AtWorker \cap (AtResultq \cup AtCallback) = {}
    /\ AtResultq \cap AtCallback = {}

PlaceOnce ==
    /\ \A i, j \in 1..Len(taskq) : i # j => taskq[i].node # taskq[j].node
    /\ \A v, w \in Busy : v # w => running[v].node # running[w].node
    /\ \A i, j \in 1..Len(resultq) : i # j => resultq[i].node # resultq[j].node

\* The nodes that no runner was submitted for yet
Unsubmitted == (remaining \ in_progress) \cup AtMain

\* What is known of a node from where it is: before its runner starts, while
\* it runs, when its result is under way, and when it was marked done
OutcomeBefore == \A n \in Unsubmitted \cup AtTaskq : outcome[n] = "none"

OutcomeBusy ==
    \A w \in Busy :
        outcome[running[w].node] = IF running[w].skip = "no" THEN "began" ELSE "none"

OutcomeResult ==
    /\ \A i \in 1..Len(resultq) : outcome[resultq[i].node] = resultq[i].status
    /\ handling # NoResult => outcome[handling.node] = handling.status

OutcomeDone ==
    /\ \A n \in selected \ remaining : outcome[n] \in Status
    /\ \A n \in Node \ selected : outcome[n] = "none"

\* The nodes that depend on a selected node that ended in an error
BelowError ==
    {n \in Node : \E m \in selected : outcome[m] = "error" /\ n \in Descendants(edges, m)}

\* The callback marks the dependents of the error it handles, and only those
TodoInv ==
    todo # {} => /\ handling # NoResult
                 /\ handling.status = "error"
                 /\ todo \subseteq Descendants(edges, handling.node)

\* Only nodes below an error are marked to be skipped ...
SkipCause == \A n \in Node : skipped_children[n] # "absent" => n \in BelowError

\* ... and every node below an error is, before it is submitted: at once for
\* an error marked done, one by one for the error in the callback
Unmarked == {n \in Unsubmitted : skipped_children[n] = "absent"}

SkipDone ==
    \A m \in selected \ remaining :
        outcome[m] = "error" => Descendants(edges, m) \cap Unmarked = {}

SkipHandling ==
    (handling # NoResult /\ handling.status = "error") =>
        (Descendants(edges, handling.node) \ todo) \cap Unmarked = {}

\* A runner was told to skip exactly when its node is below an error
SkipJobs ==
    /\ \A i \in 1..Len(taskq) : (taskq[i].skip # "no") <=> taskq[i].node \in BelowError
    /\ \A w \in Busy : (running[w].skip # "no") <=> running[w].node \in BelowError

\* Every conjunct is preserved by every step of the three kinds of thread.
IInv ==
    /\ TypeOK /\ QueueBooks /\ GraphInv /\ MainInv
    /\ PlaceIn /\ PlaceDisjoint /\ PlaceOnce
    /\ OutcomeBefore /\ OutcomeBusy /\ OutcomeResult /\ OutcomeDone
    /\ TodoInv /\ SkipCause /\ SkipDone /\ SkipHandling /\ SkipJobs
-----------------------------------------------------------------------------
(* What a run that returns will report *)

TaskInv ==
    /\ args \in Commands
    /\ selected \subseteq Selectable
    /\ \A n \in Node : outcome[n] = "fail" => args.task = "test"

\* When run_queue returns nothing is unfinished, and no error is stashed
EndInv ==
    /\ pc \in {"final", "close", "done"} => unfinished = 0
    /\ pc \in {"close", "done"} => raise_next_tick = "none"

\* A run that stops at the first failure has it stashed as soon as it happens
StashInv ==
    raise_next_tick = "none" /\ (args.fail_fast \/ raise_on_first_error) =>
        \A n \in Node : outcome[n] \notin {"error", "fail"}

\* The callback records the result of a relational node once, before it is
\* marked done
RecordInv ==
    \A n \in Node : node_results[n] = IF n \in ((selected \ remaining) \cup AtCallback) \ Ephemeral
                                      THEN <<outcome[n]>> ELSE <<>>

\* A node was skipped because of an error above it, and what began has none
CauseInv ==
    \A n \in Node :
        /\ outcome[n] \in {"skipped", "errorskip"} => n \in BelowError
        /\ outcome[n] \in {"began", "success", "warn", "fail", "error"} => n \notin BelowError

\* A node is not marked done before what it depends on
OrderInv == \A n \in remaining : Descendants(edges, n) \cap selected \subseteq remaining

ReportInv == OrderInv /\ TaskInv /\ EndInv /\ StashInv /\ RecordInv /\ CauseInv
=============================================================================
