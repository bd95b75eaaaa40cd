-------------------------- MODULE RunQueue_proofs ---------------------------
(***************************************************************************)
(* IInv is an inductive invariant of RunQueue, for any graphs, selection   *)
(* and number of threads; the scheduler's properties follow from it.       *)
(*                                                                         *)
(* First each action preserves IInv, the queue's books apart: the actions  *)
(* that change the books (MarkInProgress, MarkDone) have them as an        *)
(* assumption there, which the second part discharges.  Each action's      *)
(* lemma first states what the action does to each variable, then what     *)
(* that does to the places a node may be at, and then takes the conjuncts  *)
(* of IInv in turn.                                                        *)
(***************************************************************************)
EXTENDS RunQueueInv, FiniteSetTheorems, TLAPS

\* The prover of every leaf that names no other
USE ZenonT(40)

\* Sequence facts in the form the steps use them
LEMMA AppendFacts ==
    ASSUME NEW S, NEW s \in Seq(S), NEW x \in S
    PROVE  /\ Append(s, x) \in Seq(S)
           /\ Len(Append(s, x)) = Len(s) + 1
           /\ Append(s, x)[Len(s) + 1] = x
           /\ \A i \in 1..Len(s) : Append(s, x)[i] = s[i]
           /\ Len(s) \in Nat
BY SMT

LEMMA SelectableNodes == ASSUME args \in Commands PROVE Selectable \subseteq Node
<1>1. args.task \in {"run", "test", "compile"} BY TaskAssumption
<1> QED BY <1>1, TaskAssumption DEF Selectable

LEMMA TailFacts ==
    ASSUME NEW S, NEW s \in Seq(S), s # <<>>
    PROVE  /\ Head(s) \in S /\ Head(s) = s[1]
           /\ Tail(s) \in Seq(S)
           /\ Len(s) \in Nat \ {0} /\ Len(Tail(s)) = Len(s) - 1
           /\ \A i \in 1..Len(Tail(s)) : Tail(s)[i] = s[i + 1]
BY SMT

\* Taking the first of a sequence of jobs or results for different nodes
LEMMA TailNodes ==
    ASSUME NEW S, NEW s \in Seq(S), s # <<>>,
           \A i, j \in 1..Len(s) : i # j => s[i].node # s[j].node
    PROVE  /\ Head(s).node \in {s[i].node : i \in 1..Len(s)}
           /\ {Tail(s)[i].node : i \in 1..Len(Tail(s))}
                 \subseteq {s[i].node : i \in 1..Len(s)} \ {Head(s).node}
           /\ \A i, j \in 1..Len(Tail(s)) : i # j => Tail(s)[i].node # Tail(s)[j].node
<1>1. /\ Head(s) = s[1] /\ Len(s) \in Nat \ {0} /\ Len(Tail(s)) = Len(s) - 1
      /\ \A i \in 1..Len(Tail(s)) : Tail(s)[i] = s[i + 1]
   BY TailFacts
<1>2. 1 \in 1..Len(s) BY <1>1, SMT
<1>3. ASSUME NEW i \in 1..Len(Tail(s)) PROVE i + 1 \in 1..Len(s) /\ i + 1 # 1 BY <1>1, SMT
<1>4. ASSUME NEW i \in 1..Len(Tail(s))
      PROVE  /\ Tail(s)[i].node \in {s[k].node : k \in 1..Len(s)}
             /\ Tail(s)[i].node # Head(s).node
   BY <1>1, <1>2, <1>3
<1>5. ASSUME NEW i \in 1..Len(Tail(s)), NEW j \in 1..Len(Tail(s)), i # j
      PROVE  Tail(s)[i].node # Tail(s)[j].node
   <2>1. i + 1 # j + 1 BY <1>5, SMT
   <2> QED BY <1>1, <1>3, <1>5, <2>1, SMT
<1> QED BY <1>1, <1>2, <1>4, <1>5, SMT

\* NoJob and NoResult are no job and no result.
LEMMA NoneIsNone == NoJob \notin Job /\ NoResult \notin Result
BY DEF NoJob, NoResult, Job, Result, Skip, Status, DR!Ended, DR!EndedWell, DR!SkipOutcome

LEMMA StatusFacts ==
    Status = {"success", "warn", "fail", "error", "skipped", "errorskip"}
BY DEF Status, DR!Ended, DR!EndedWell, DR!SkipOutcome

\* A node of the queue's books is selected, still in the graph, and none of
\* the nodes still in the graph is above it.
LEMMA RootFacts ==
    ASSUME IInv, NEW n \in queued \cup in_progress
    PROVE  /\ n \in remaining /\ n \in selected /\ n \in Node
           /\ \A m \in remaining : n \notin Descendants(edges, m)
<1>1. n \in remaining /\ \A m \in remaining : <<m, n>> \notin qedges
   BY DEF IInv, QueueBooks, NewAdditions
<1>2. remaining \subseteq selected /\ selected \subseteq Node BY DEF IInv, TypeOK
<1>3. qedges = {e \in selected \X selected : e[2] \in Descendants(edges, e[1])}
   BY DEF IInv, GraphInv, SubsetGraph
<1>4. ASSUME NEW m \in remaining PROVE n \notin Descendants(edges, m)
   <2>1. <<m, n>> \in selected \X selected /\ <<m, n>>[1] = m /\ <<m, n>>[2] = n
      BY <1>1, <1>2
   <2> QED BY <1>1, <1>3, <2>1
<1> QED BY <1>1, <1>2, <1>4

\* The nodes at the places are nodes.
LEMMA PlaceFacts ==
    ASSUME IInv
    PROVE  /\ \A n \in AtMain \cup AtTaskq \cup AtWorker \cup AtResultq \cup AtCallback :
                n \in in_progress /\ n \in remaining /\ n \in selected /\ n \in Node
           /\ Unsubmitted \subseteq Node
<1>1. AtMain \cup AtTaskq \cup AtWorker \cup AtResultq \cup AtCallback \subseteq in_progress
   BY DEF IInv, PlaceIn
<1>2. remaining \subseteq Node BY DEF IInv, TypeOK
<1> QED BY <1>1, <1>2, RootFacts DEF Unsubmitted
-----------------------------------------------------------------------------
(* Steps of the main thread that leave the pool and the results alone *)

MainFrame ==
    /\ edges' = edges /\ selected' = selected /\ qedges' = qedges
    /\ remaining' = remaining
    /\ taskq' = taskq /\ running' = running /\ resultq' = resultq
    /\ handling' = handling /\ todo' = todo
    /\ node_results' = node_results /\ skipped_children' = skipped_children
    /\ raise_next_tick' = raise_next_tick /\ outcome' = outcome

LEMMA FramePlaces ==
    ASSUME MainFrame
    PROVE  /\ AtTaskq' = AtTaskq /\ Busy' = Busy /\ AtWorker' = AtWorker
           /\ AtResultq' = AtResultq /\ AtCallback' = AtCallback
           /\ BelowError' = BelowError
BY DEF MainFrame, AtTaskq, Busy, AtWorker, AtResultq, AtCallback, BelowError

LEMMA FrameOutcomeSkip ==
    ASSUME IInv, MainFrame, Unsubmitted' \subseteq Unsubmitted
    PROVE  /\ OutcomeBefore' /\ OutcomeBusy' /\ OutcomeResult' /\ OutcomeDone'
           /\ TodoInv' /\ SkipCause' /\ SkipDone' /\ SkipHandling' /\ SkipJobs'
           /\ PlaceOnce'
<1>0. /\ AtTaskq' = AtTaskq /\ Busy' = Busy /\ BelowError' = BelowError BY FramePlaces
<1>1. OutcomeBefore' BY <1>0 DEF IInv, MainFrame, OutcomeBefore
<1>2. OutcomeBusy' BY <1>0 DEF IInv, MainFrame, OutcomeBusy
<1>3. OutcomeResult' BY DEF IInv, MainFrame, OutcomeResult
<1>4. OutcomeDone' BY DEF IInv, MainFrame, OutcomeDone
<1>5. TodoInv' BY DEF IInv, MainFrame, TodoInv
<1>6. SkipCause' BY <1>0 DEF IInv, MainFrame, SkipCause
<1>u. Unmarked' \subseteq Unmarked BY DEF MainFrame, Unmarked
<1>7. SkipDone' BY <1>u DEF IInv, MainFrame, SkipDone
<1>8. SkipHandling' BY <1>u DEF IInv, MainFrame, SkipHandling
<1>9. SkipJobs' BY <1>0 DEF IInv, MainFrame, SkipJobs
<1>10. PlaceOnce' BY <1>0 DEF IInv, MainFrame, PlaceOnce
<1> QED BY <1>1, <1>2, <1>3, <1>4, <1>5, <1>6, <1>7, <1>8, <1>9, <1>10

Moving == {"check", "get", "tick", "submit", "wait", "waiting", "woken",
           "join", "final", "close", "done"}

\* Only the main thread's place changes, to one at which it holds no node or
\* from the check for a stashed error to the submission.
ControlOnly ==
    /\ MainFrame
    /\ inner' = inner /\ queued' = queued /\ in_progress' = in_progress
    /\ unfinished' = unfinished /\ cur' = cur
    /\ pc' \in Pc /\ pc' # "mark" /\ pc' # "tick"
    /\ pc' = "submit" => pc = "tick"
    /\ pc' \in Moving => pc \in Moving

LEMMA ControlSteps ==
    ASSUME IInv,
           \/ CheckEmpty \/ RaiseSetError \/ WaitSomethingDone \/ WokenUp \/ Join
           \/ FinalRaise \/ ClosePool \/ KeyboardInterrupt \/ JoinPool
    PROVE  ControlOnly
<1>1. /\ MainFrame /\ inner' = inner /\ queued' = queued
      /\ in_progress' = in_progress /\ unfinished' = unfinished /\ cur' = cur
   BY DEF MainFrame, graphVars, queueVars, poolVars, handleVars, taskVars,
      CheckEmpty, RaiseSetError, WaitSomethingDone, WokenUp, Join,
      FinalRaise, ClosePool, KeyboardInterrupt, JoinPool
<1>2. /\ pc' \in Pc /\ pc' # "mark" /\ pc' # "tick"
      /\ pc' = "submit" => pc = "tick"
      /\ pc' \in Moving => pc \in Moving
   BY DEF CheckEmpty, RaiseSetError, RaisedPc, WaitSomethingDone, WokenUp, Join,
      FinalRaise, ClosePool, KeyboardInterrupt, JoinPool, InRunQueue, Terminal,
      Pc, Moving
<1> QED BY <1>1, <1>2 DEF ControlOnly

LEMMA ControlInv == ASSUME IInv, ControlOnly PROVE IInv'
<1>0. MainFrame /\ in_progress' = in_progress BY DEF ControlOnly
<1>1. AtMain' \subseteq AtMain BY DEF AtMain, ControlOnly
<1>2. Unsubmitted' \subseteq Unsubmitted BY <1>0, <1>1 DEF Unsubmitted, MainFrame
<1>3. TypeOK' BY DEF IInv, TypeOK, ControlOnly, MainFrame
<1>4. QueueBooks' BY DEF IInv, QueueBooks, NewAdditions, ControlOnly, MainFrame
<1>5. GraphInv' BY DEF IInv, GraphInv, ControlOnly, MainFrame
<1>6. MainInv' BY DEF IInv, MainInv, ControlOnly, MainFrame, Moving
<1>7. PlaceIn' BY <1>0, <1>1, FramePlaces DEF IInv, PlaceIn
<1>8. PlaceDisjoint' BY <1>0, <1>1, FramePlaces DEF IInv, PlaceDisjoint
<1> QED BY <1>0, <1>2, <1>3, <1>4, <1>5, <1>6, <1>7, <1>8, FrameOutcomeSkip DEF IInv

LEMMA GetInv == ASSUME IInv, Get PROVE IInv'
<1>0. PICK n \in inner : inner' = inner \ {n} /\ cur' = n BY DEF Get
<1>1. /\ MainFrame /\ queued' = queued /\ in_progress' = in_progress
      /\ unfinished' = unfinished /\ pc = "get" /\ pc' = "mark"
   BY DEF Get, MainFrame, graphVars, poolVars, handleVars, taskVars
<1>2. n \in queued /\ n \in Node BY RootFacts DEF IInv, QueueBooks
<1>3. AtMain' = {} /\ AtMain = {} BY <1>1 DEF AtMain
<1>4. Unsubmitted' \subseteq Unsubmitted BY <1>1, <1>3 DEF Unsubmitted, MainFrame
<1>5. TypeOK' BY <1>0, <1>1, <1>2 DEF IInv, TypeOK, MainFrame, Pc, InRunQueue
<1>6. QueueBooks' BY <1>0, <1>1 DEF IInv, QueueBooks, NewAdditions, MainFrame
<1>7. GraphInv' BY <1>1 DEF IInv, GraphInv, MainFrame
<1>8. MainInv' BY <1>0, <1>1, <1>2 DEF IInv, MainInv
<1>9. PlaceIn' BY <1>1, <1>3, FramePlaces DEF IInv, PlaceIn
<1>10. PlaceDisjoint' BY <1>1, <1>3, FramePlaces DEF IInv, PlaceDisjoint
<1> QED BY <1>1, <1>4, <1>5, <1>6, <1>7, <1>8, <1>9, <1>10, FrameOutcomeSkip DEF IInv

LEMMA MarkInProgressInv == ASSUME IInv, MarkInProgress, QueueBooks' PROVE IInv'
<1>1. /\ MainFrame /\ inner' = inner /\ unfinished' = unfinished /\ cur' = cur
      /\ pc = "mark" /\ pc' = "tick"
      /\ queued' = queued \ {cur} /\ in_progress' = in_progress \cup {cur}
   BY DEF MarkInProgress, MainFrame, graphVars, poolVars, handleVars, taskVars
<1>2. cur \in queued /\ cur \notin inner /\ queued = inner \cup {cur}
   BY <1>1 DEF IInv, MainInv
<1>3. cur \in remaining /\ cur \in selected /\ cur \in Node BY <1>2, RootFacts
<1>4. cur \notin in_progress BY <1>2 DEF IInv, QueueBooks
<1>5. AtMain' = {cur} /\ AtMain = {} BY <1>1 DEF AtMain
<1>6. Unsubmitted' \subseteq Unsubmitted BY <1>1, <1>3, <1>4, <1>5 DEF Unsubmitted, MainFrame
<1>7. TypeOK' BY <1>1, <1>3 DEF IInv, TypeOK, MainFrame, Pc, InRunQueue
<1>9. GraphInv' BY <1>1 DEF IInv, GraphInv, MainFrame
<1>10. MainInv' BY <1>1, <1>2 DEF MainInv
<1>11. PlaceIn' BY <1>1, <1>5, FramePlaces DEF IInv, PlaceIn
<1>12. PlaceDisjoint' BY <1>1, <1>4, <1>5, FramePlaces DEF IInv, PlaceIn, PlaceDisjoint
<1> QED BY <1>1, <1>6, <1>7, <1>9, <1>10, <1>11, <1>12, FrameOutcomeSkip DEF IInv

LEMMA StutterInv == ASSUME IInv, UNCHANGED vars PROVE IInv'
<1>1. /\ MainFrame /\ inner' = inner /\ queued' = queued /\ in_progress' = in_progress
      /\ unfinished' = unfinished /\ pc' = pc /\ cur' = cur
   BY DEF vars, MainFrame, graphVars, queueVars, mainVars, poolVars, handleVars, taskVars
<1>2. AtMain' = AtMain /\ Unsubmitted' \subseteq Unsubmitted
   BY <1>1 DEF AtMain, Unsubmitted, MainFrame
<1>3. TypeOK' BY <1>1 DEF IInv, TypeOK, MainFrame
<1>4. QueueBooks' BY <1>1 DEF IInv, QueueBooks, NewAdditions, MainFrame
<1>5. GraphInv' /\ MainInv' BY <1>1 DEF IInv, GraphInv, MainInv, MainFrame
<1>6. PlaceIn' BY <1>1, <1>2, FramePlaces DEF IInv, PlaceIn
<1>7. PlaceDisjoint' BY <1>1, <1>2, FramePlaces DEF IInv, PlaceDisjoint
<1> QED BY <1>1, <1>2, <1>3, <1>4, <1>5, <1>6, <1>7, FrameOutcomeSkip DEF IInv

LEMMA CancelInv == ASSUME IInv, CancelConnections PROVE IInv'
<1>1. /\ edges' = edges /\ selected' = selected /\ qedges' = qedges
      /\ remaining' = remaining /\ inner' = inner /\ queued' = queued
      /\ in_progress' = in_progress /\ unfinished' = unfinished
      /\ running' = running /\ handling' = handling /\ todo' = todo
      /\ node_results' = node_results /\ skipped_children' = skipped_children
      /\ raise_next_tick' = raise_next_tick /\ outcome' = outcome /\ cur' = cur
      /\ taskq' = <<>> /\ resultq' = <<>> /\ pc = "cancel" /\ pc' = "joinpool"
   BY DEF CancelConnections, graphVars, queueVars, handleVars, taskVars
<1>2. AtMain' = {} /\ AtMain = {} BY <1>1 DEF AtMain
<1>3. AtTaskq' = {} /\ AtResultq' = {} BY <1>1, SMT DEF AtTaskq, AtResultq
<1>4. Busy' = Busy /\ AtWorker' = AtWorker /\ AtCallback' = AtCallback
   BY <1>1 DEF Busy, AtWorker, AtCallback
<1>5. Unsubmitted' = Unsubmitted /\ BelowError' = BelowError
   BY <1>1, <1>2 DEF Unsubmitted, BelowError
<1>6. TypeOK' BY <1>1, SMT DEF IInv, TypeOK, Pc
<1>7. QueueBooks' BY <1>1 DEF IInv, QueueBooks, NewAdditions
<1>8. GraphInv' /\ MainInv' BY <1>1 DEF IInv, GraphInv, MainInv
<1>9. PlaceIn' BY <1>1, <1>2, <1>3, <1>4 DEF IInv, PlaceIn
<1>10. PlaceDisjoint' BY <1>2, <1>3, <1>4 DEF IInv, PlaceDisjoint
<1>11. PlaceOnce' BY <1>1, <1>4, SMT DEF IInv, PlaceOnce
<1>12. OutcomeBefore' BY <1>1, <1>3, <1>5 DEF IInv, OutcomeBefore
<1>13. OutcomeBusy' BY <1>1, <1>4 DEF IInv, OutcomeBusy
<1>14. OutcomeResult' BY <1>1, SMT DEF IInv, OutcomeResult
<1>15. OutcomeDone' BY <1>1 DEF IInv, OutcomeDone
<1>16. TodoInv' BY <1>1 DEF IInv, TodoInv
<1>17. SkipCause' BY <1>1, <1>5 DEF IInv, SkipCause
<1>u. Unmarked' = Unmarked BY <1>1, <1>5 DEF Unmarked
<1>18. SkipDone' BY <1>1, <1>u DEF IInv, SkipDone
<1>19. SkipHandling' BY <1>1, <1>u DEF IInv, SkipHandling
<1>20. SkipJobs' BY <1>1, <1>4, <1>5, SMT DEF IInv, SkipJobs
<1> QED BY <1>6, <1>7, <1>8, <1>9, <1>10, <1>11, <1>12, <1>13, <1>14, <1>15,
           <1>16, <1>17, <1>18, <1>19, <1>20 DEF IInv

LEMMA SubmitInv == ASSUME IInv, Submit PROVE IInv'
<1> DEFINE job == [node |-> cur,
                   skip |-> IF skipped_children[cur] = "absent" THEN "no"
                            ELSE skipped_children[cur]]
<1>0. /\ edges' = edges /\ selected' = selected /\ qedges' = qedges
      /\ remaining' = remaining /\ inner' = inner /\ queued' = queued
      /\ in_progress' = in_progress /\ unfinished' = unfinished
      /\ running' = running /\ resultq' = resultq
      /\ handling' = handling /\ todo' = todo
      /\ node_results' = node_results /\ raise_next_tick' = raise_next_tick
      /\ outcome' = outcome /\ cur' = cur /\ pc = "submit" /\ pc' = "check"
      /\ skipped_children' = [skipped_children EXCEPT ![cur] = "absent"]
   BY DEF Submit, graphVars, queueVars, handleVars
<1>1. taskq' = Append(taskq, job) BY DEF Submit
<1>2. AtMain = {cur} /\ AtMain' = {} BY <1>0 DEF AtMain
<1>3. cur \in in_progress /\ cur \in remaining /\ cur \in selected /\ cur \in Node
   BY <1>2, PlaceFacts
<1>4. \A m \in remaining : cur \notin Descendants(edges, m) BY <1>3, RootFacts
<1>5. skipped_children[cur] \in {"absent", "plain", "ephemeral"} BY <1>3 DEF IInv, TypeOK
<1>6. job \in Job /\ job.node = cur BY <1>3, <1>5 DEF Job, Skip
<1>7. (job.skip # "no") <=> skipped_children[cur] # "absent" BY <1>5
<1> HIDE DEF job
<1>8. taskq \in Seq(Job) BY DEF IInv, TypeOK
<1>9. /\ taskq' \in Seq(Job) /\ Len(taskq') = Len(taskq) + 1 /\ Len(taskq) \in Nat
      /\ taskq'[Len(taskq) + 1] = job
      /\ \A i \in 1..Len(taskq) : taskq'[i] = taskq[i]
   BY <1>1, <1>6, <1>8, AppendFacts, SMT
<1>10. \A i \in 1..Len(taskq') : i \in 1..Len(taskq) \/ i = Len(taskq) + 1 BY <1>9, SMT
<1>11. AtTaskq' = AtTaskq \cup {cur} BY <1>6, <1>9, <1>10, SMT DEF AtTaskq
<1>12. /\ Busy' = Busy /\ AtWorker' = AtWorker
       /\ AtResultq' = AtResultq /\ AtCallback' = AtCallback
   BY <1>0 DEF Busy, AtWorker, AtResultq, AtCallback
<1>13. Unsubmitted' = Unsubmitted \ {cur} /\ cur \in Unsubmitted
   BY <1>0, <1>2, <1>3 DEF Unsubmitted
<1>14. BelowError' = BelowError BY <1>0 DEF BelowError
<1>15. \A n \in Node : skipped_children'[n] =
                          IF n = cur THEN "absent" ELSE skipped_children[n]
   BY <1>0 DEF IInv, TypeOK
<1>16. TypeOK'
   <2>1. skipped_children' \in [Node -> {"absent", "plain", "ephemeral"}]
      BY <1>0 DEF IInv, TypeOK
   <2> QED BY <1>0, <1>9, <2>1 DEF IInv, TypeOK, Pc, InRunQueue
<1>17. QueueBooks' BY <1>0 DEF IInv, QueueBooks, NewAdditions
<1>18. GraphInv' /\ MainInv' BY <1>0 DEF IInv, GraphInv, MainInv
<1>19. PlaceIn' BY <1>0, <1>2, <1>3, <1>11, <1>12 DEF IInv, PlaceIn
<1>20. PlaceDisjoint' BY <1>2, <1>11, <1>12 DEF IInv, PlaceDisjoint
<1>21. PlaceOnce'
   <2>1. \A i \in 1..Len(taskq) : taskq[i].node # cur
      BY <1>2 DEF IInv, PlaceDisjoint, AtTaskq
   <2>2. \A i, j \in 1..Len(taskq) : i # j => taskq[i].node # taskq[j].node
      BY DEF IInv, PlaceOnce
   <2>3. \A i, j \in 1..Len(taskq') : i # j => taskq'[i].node # taskq'[j].node
      BY <1>6, <1>9, <1>10, <2>1, <2>2
   <2> QED BY <1>0, <1>12, <2>3 DEF IInv, PlaceOnce
<1>22. OutcomeBefore' BY <1>0, <1>11, <1>13 DEF IInv, OutcomeBefore
<1>23. OutcomeBusy' BY <1>0, <1>12 DEF IInv, OutcomeBusy
<1>24. OutcomeResult' BY <1>0 DEF IInv, OutcomeResult
<1>25. OutcomeDone' BY <1>0 DEF IInv, OutcomeDone
<1>26. TodoInv' BY <1>0 DEF IInv, TodoInv
<1>27. SkipCause' BY <1>14, <1>15 DEF IInv, SkipCause
<1>u. Unmarked' \subseteq Unmarked BY <1>13, <1>15, PlaceFacts DEF Unmarked
<1>28. SkipDone' BY <1>0, <1>u DEF IInv, SkipDone
<1>29. SkipHandling' BY <1>0, <1>u DEF IInv, SkipHandling
<1>30. SkipJobs'
   <2>1. skipped_children[cur] # "absent" => cur \in BelowError BY <1>3 DEF IInv, SkipCause
   <2>2. cur \in BelowError => skipped_children[cur] # "absent"
      BY <1>3, <1>4, <1>13 DEF IInv, SkipDone, BelowError, Unmarked
   <2>3. \A i \in 1..Len(taskq) : (taskq[i].skip # "no") <=> taskq[i].node \in BelowError
      BY DEF IInv, SkipJobs
   <2>4. \A i \in 1..Len(taskq') : (taskq'[i].skip # "no") <=> taskq'[i].node \in BelowError
      BY <1>6, <1>7, <1>9, <1>10, <2>1, <2>2, <2>3
   <2> QED BY <1>0, <1>12, <1>14, <2>4 DEF IInv, SkipJobs
<1> QED BY <1>16, <1>17, <1>18, <1>19, <1>20, <1>21, <1>22, <1>23, <1>24, <1>25,
           <1>26, <1>27, <1>28, <1>29, <1>30 DEF IInv
-----------------------------------------------------------------------------
(* The workers *)

LEMMA WorkerTakeInv == ASSUME IInv, NEW w \in Workers, WorkerTake(w) PROVE IInv'
<1> DEFINE job == Head(taskq)
<1>0. /\ edges' = edges /\ selected' = selected /\ qedges' = qedges
      /\ remaining' = remaining /\ inner' = inner /\ queued' = queued
      /\ in_progress' = in_progress /\ unfinished' = unfinished
      /\ pc' = pc /\ cur' = cur /\ resultq' = resultq
      /\ handling' = handling /\ todo' = todo
      /\ node_results' = node_results /\ raise_next_tick' = raise_next_tick
      /\ skipped_children' = skipped_children
   BY DEF WorkerTake, graphVars, queueVars, mainVars, handleVars, taskVars
<1>1. /\ job \in Job /\ job = taskq[1] /\ taskq' \in Seq(Job)
      /\ Len(taskq) \in Nat \ {0} /\ Len(taskq') = Len(taskq) - 1
      /\ \A i \in 1..Len(taskq') : taskq'[i] = taskq[i + 1]
   BY TailFacts DEF IInv, TypeOK, WorkerTake
<1>2. running' = [running EXCEPT ![w] = job] /\ running[w] = NoJob BY DEF WorkerTake
<1>3. outcome' = IF job.skip = "no" THEN [outcome EXCEPT ![job.node] = "began"] ELSE outcome
   BY DEF WorkerTake
<1>t. /\ job.node \in {taskq[i].node : i \in 1..Len(taskq)}
      /\ {taskq'[i].node : i \in 1..Len(taskq')}
            \subseteq {taskq[i].node : i \in 1..Len(taskq)} \ {job.node}
      /\ \A i, j \in 1..Len(taskq') : i # j => taskq'[i].node # taskq'[j].node
   <2>1. taskq \in Seq(Job) /\ taskq # <<>> /\ taskq' = Tail(taskq)
      BY DEF IInv, TypeOK, WorkerTake
   <2>2. \A i, j \in 1..Len(taskq) : i # j => taskq[i].node # taskq[j].node
      BY DEF IInv, PlaceOnce
   <2> QED BY <2>1, <2>2, TailNodes, SMT
<1> HIDE DEF job
<1>4. job.node \in AtTaskq BY <1>t DEF AtTaskq
<1>5. /\ job.node \in in_progress /\ job.node \in remaining
      /\ job.node \in selected /\ job.node \in Node
   BY <1>4, PlaceFacts
<1>8. AtTaskq' \subseteq AtTaskq \ {job.node} BY <1>t DEF AtTaskq
<1>9. w \notin Busy /\ job # NoJob BY <1>1, <1>2, NoneIsNone DEF Busy
<1>10. running \in [Workers -> Job \cup {NoJob}] BY DEF IInv, TypeOK
<1>11. running'[w] = job /\ \A v \in Workers : v # w => running'[v] = running[v]
   BY <1>2, <1>10
<1>12. Busy' = Busy \cup {w} /\ \A v \in Busy : v # w /\ running'[v] = running[v]
   BY <1>9, <1>11 DEF Busy
<1>13. AtWorker' = AtWorker \cup {job.node} BY <1>11, <1>12 DEF AtWorker
<1>14. AtMain' = AtMain /\ AtResultq' = AtResultq /\ AtCallback' = AtCallback
   BY <1>0 DEF AtMain, AtResultq, AtCallback
<1>15. Unsubmitted' = Unsubmitted BY <1>0, <1>14 DEF Unsubmitted
<1>16. outcome[job.node] = "none" BY <1>4 DEF IInv, OutcomeBefore
<1>17. /\ \A n \in Node : n # job.node => outcome'[n] = outcome[n]
       /\ outcome'[job.node] = IF job.skip = "no" THEN "began" ELSE "none"
       /\ outcome' \in [Node -> Status \cup {"none", "began", "raised"}]
   BY <1>3, <1>5, <1>16 DEF IInv, TypeOK
<1>18. \A n \in Node : outcome'[n] = "error" <=> outcome[n] = "error" BY <1>16, <1>17
<1>19. BelowError' = BelowError
   <2>1. selected \subseteq Node BY DEF IInv, TypeOK
   <2> QED BY <1>0, <1>18, <2>1 DEF BelowError
<1>20. TypeOK'
   <2>1. running' \in [Workers -> Job \cup {NoJob}] BY <1>1, <1>2, <1>10
   <2>2. TypeOK BY DEF IInv
   <2>3. /\ edges' \in SUBSET Edges /\ selected' \in SUBSET Node /\ qedges' \in SUBSET Edges
         /\ remaining' \in SUBSET selected' /\ inner' \in SUBSET selected'
         /\ queued' \in SUBSET selected' /\ in_progress' \in SUBSET selected'
         /\ unfinished' \in Int
      BY <1>0, <2>2 DEF TypeOK
   <2>4. /\ pc' \in Pc /\ cur' \in Node \cup {0} /\ resultq' \in Seq(Result)
         /\ handling' \in Result \cup {NoResult} /\ todo' \in SUBSET Node
         /\ node_results' \in [Node -> Seq(Status)]
         /\ skipped_children' \in [Node -> {"absent", "plain", "ephemeral"}]
         /\ raise_next_tick' \in {"none", "failfast", "runtime"}
      BY <1>0, <2>2 DEF TypeOK
   <2>5. taskq' \in Seq(Job) BY <1>1
   <2>6. outcome' \in [Node -> Status \cup {"none", "began", "raised"}] BY <1>17
   <2> QED BY <2>1, <2>3, <2>4, <2>5, <2>6 DEF TypeOK
<1>21. QueueBooks' BY <1>0 DEF IInv, QueueBooks, NewAdditions
<1>22. GraphInv' /\ MainInv' BY <1>0 DEF IInv, GraphInv, MainInv
<1>23. PlaceIn' BY <1>0, <1>5, <1>8, <1>13, <1>14 DEF IInv, PlaceIn
<1>24. PlaceDisjoint' BY <1>4, <1>8, <1>13, <1>14 DEF IInv, PlaceDisjoint
<1>25. PlaceOnce'
   <2>2. \A v \in Busy : running[v].node # job.node
      BY <1>4 DEF IInv, PlaceDisjoint, AtWorker
   <2>3. \A u, v \in Busy : u # v => running[u].node # running[v].node
      BY DEF IInv, PlaceOnce
   <2>4. \A u, v \in Busy' : u # v => running'[u].node # running'[v].node
      BY <2>2, <2>3, <1>11, <1>12, SMT
   <2> QED BY <1>0, <1>t, <2>4 DEF IInv, PlaceOnce
<1>26. OutcomeBefore'
   <2>1. \A n \in Unsubmitted \cup (AtTaskq \ {job.node}) : n # job.node /\ n \in Node
      <3>1. \A n \in Unsubmitted : n # job.node
         BY <1>4, <1>5 DEF Unsubmitted, IInv, PlaceDisjoint
      <3> QED BY <3>1, PlaceFacts
   <2> QED BY <1>8, <1>15, <1>17, <2>1 DEF IInv, OutcomeBefore
<1>27. OutcomeBusy'
   <2>1. \A v \in Busy : running[v].node \in AtWorker BY DEF AtWorker
   <2>2. \A v \in Busy : running[v].node # job.node /\ running[v].node \in Node
      BY <1>4, <2>1, PlaceFacts DEF IInv, PlaceDisjoint
   <2>3. \A v \in Busy : outcome'[running[v].node] =
                            IF running[v].skip = "no" THEN "began" ELSE "none"
      BY <2>2, <1>17 DEF IInv, OutcomeBusy
   <2> QED BY <2>3, <1>11, <1>12, <1>17, SMT DEF OutcomeBusy
<1>28. OutcomeResult'
   <2>1. \A i \in 1..Len(resultq) : resultq[i].node \in AtResultq BY DEF AtResultq
   <2>2. \A i \in 1..Len(resultq) : resultq[i].node # job.node /\ resultq[i].node \in Node
      BY <1>4, <2>1, PlaceFacts DEF IInv, PlaceDisjoint
   <2>3. handling # NoResult => handling.node # job.node /\ handling.node \in Node
      BY <1>4, PlaceFacts DEF IInv, PlaceDisjoint, AtCallback
   <2> QED BY <1>0, <1>17, <2>2, <2>3 DEF IInv, OutcomeResult
<1>29. OutcomeDone'
   <2>1. selected \subseteq Node BY DEF IInv, TypeOK
   <2> QED BY <1>0, <1>5, <1>17, <2>1 DEF IInv, OutcomeDone
<1>30. TodoInv' BY <1>0 DEF IInv, TodoInv
<1>31. SkipCause' BY <1>0, <1>19 DEF IInv, SkipCause
<1>u. Unmarked' = Unmarked BY <1>0, <1>15 DEF Unmarked
<1>32. SkipDone'
   <2>1. selected \subseteq Node BY DEF IInv, TypeOK
   <2>2. \A m \in selected \ remaining : outcome'[m] = "error" => outcome[m] = "error"
      BY <1>18, <2>1
   <2> QED BY <1>0, <1>u, <2>2 DEF IInv, SkipDone
<1>33. SkipHandling' BY <1>0, <1>u DEF IInv, SkipHandling
<1>34. SkipJobs'
   <2>1. \A i \in 1..Len(taskq) : (taskq[i].skip # "no") <=> taskq[i].node \in BelowError
      BY DEF IInv, SkipJobs
   <2>2. \A i \in 1..Len(taskq') : (taskq'[i].skip # "no") <=> taskq'[i].node \in BelowError
      <3>1. \A i \in 1..Len(taskq') : i + 1 \in 1..Len(taskq) BY <1>1, SMT
      <3> QED BY <1>1, <2>1, <3>1
   <2>3. (job.skip # "no") <=> job.node \in BelowError BY <1>1, <2>1, SMT
   <2>4. \A v \in Busy' : (running'[v].skip # "no") <=> running'[v].node \in BelowError
      BY <1>11, <1>12, <2>3 DEF IInv, SkipJobs
   <2> QED BY <1>19, <2>2, <2>4 DEF SkipJobs
<1> QED BY <1>20, <1>21, <1>22, <1>23, <1>24, <1>25, <1>26, <1>27, <1>28, <1>29,
           <1>30, <1>31, <1>32, <1>33, <1>34 DEF IInv

\* A worker is done with its node n, which ended as s; its result is put in
\* the result queue or lost.
WorkerLeaves(w, n, s) ==
    /\ w \in Workers /\ running[w] # NoJob /\ n = running[w].node
    /\ s \in Status \cup {"raised"}
    /\ running' = [running EXCEPT ![w] = NoJob]
    /\ outcome' = [outcome EXCEPT ![n] = s]
    /\ \/ resultq' = resultq
       \/ s \in Status /\ resultq' = Append(resultq, [node |-> n, status |-> s])
    /\ raise_next_tick' \in {"none", "failfast", "runtime"}
    /\ edges' = edges /\ selected' = selected /\ qedges' = qedges
    /\ remaining' = remaining /\ inner' = inner /\ queued' = queued
    /\ in_progress' = in_progress /\ unfinished' = unfinished
    /\ pc' = pc /\ cur' = cur /\ taskq' = taskq
    /\ handling' = handling /\ todo' = todo
    /\ node_results' = node_results /\ skipped_children' = skipped_children

\* What is in the result queue afterwards
LEMMA WorkerLeavesResult ==
    ASSUME IInv, NEW w, NEW n, NEW s, WorkerLeaves(w, n, s), n \in Node, n \notin AtResultq
    PROVE  /\ resultq' \in Seq(Result)
           /\ AtResultq' \subseteq AtResultq \cup {n}
           /\ \A i, j \in 1..Len(resultq') : i # j => resultq'[i].node # resultq'[j].node
           /\ \A i \in 1..Len(resultq') :
                 \/ resultq'[i].node = n /\ resultq'[i].status = s
                 \/ i \in 1..Len(resultq) /\ resultq'[i] = resultq[i]
<1>0. resultq \in Seq(Result) BY DEF IInv, TypeOK
<1>1. \A i, j \in 1..Len(resultq) : i # j => resultq[i].node # resultq[j].node
   BY DEF IInv, PlaceOnce
<1>2. CASE resultq' = resultq
   <2>1. AtResultq' = AtResultq BY <1>2 DEF AtResultq
   <2> QED BY <1>0, <1>1, <1>2, <2>1
<1>3. CASE s \in Status /\ resultq' = Append(resultq, [node |-> n, status |-> s])
   <2> DEFINE r == [node |-> n, status |-> s]
   <2>1. r \in Result /\ r.node = n /\ r.status = s BY <1>3 DEF Result
   <2>2. resultq' = Append(resultq, r) BY <1>3
   <2> HIDE DEF r
   <2>3. /\ resultq' \in Seq(Result) /\ Len(resultq') = Len(resultq) + 1
         /\ Len(resultq) \in Nat /\ resultq'[Len(resultq) + 1] = r
         /\ \A i \in 1..Len(resultq) : resultq'[i] = resultq[i]
      BY <1>0, <2>1, <2>2, AppendFacts, SMT
   <2>4. \A i \in 1..Len(resultq') : i \in 1..Len(resultq) \/ i = Len(resultq) + 1 BY <2>3, SMT
   <2>5. \A i \in 1..Len(resultq) : resultq[i].node # n BY DEF AtResultq
   <2>6. AtResultq' \subseteq AtResultq \cup {n} BY <2>1, <2>3, <2>4 DEF AtResultq
   <2>7. \A i, j \in 1..Len(resultq') : i # j => resultq'[i].node # resultq'[j].node
      BY <1>1, <2>1, <2>3, <2>4, <2>5
   <2>8. \A i \in 1..Len(resultq') :
            \/ resultq'[i].node = n /\ resultq'[i].status = s
            \/ i \in 1..Len(resultq) /\ resultq'[i] = resultq[i]
      BY <2>1, <2>3, <2>4
   <2> QED BY <2>3, <2>6, <2>7, <2>8
<1> QED BY <1>2, <1>3 DEF WorkerLeaves

LEMMA WorkerLeavesInv ==
    ASSUME IInv, NEW w, NEW n, NEW s, WorkerLeaves(w, n, s)
    PROVE  IInv'
<1>0. /\ edges' = edges /\ selected' = selected /\ qedges' = qedges
      /\ remaining' = remaining /\ inner' = inner /\ queued' = queued
      /\ in_progress' = in_progress /\ unfinished' = unfinished
      /\ pc' = pc /\ cur' = cur /\ taskq' = taskq
      /\ handling' = handling /\ todo' = todo
      /\ node_results' = node_results /\ skipped_children' = skipped_children
   BY DEF WorkerLeaves
<1>1. /\ w \in Workers /\ w \in Busy /\ n = running[w].node
      /\ s \in Status \cup {"raised"}
      /\ running' = [running EXCEPT ![w] = NoJob]
      /\ outcome' = [outcome EXCEPT ![n] = s]
   BY DEF WorkerLeaves, Busy
<1>2. n \in AtWorker BY <1>1 DEF AtWorker
<1>3. n \in in_progress /\ n \in remaining /\ n \in selected /\ n \in Node
   BY <1>2, PlaceFacts
<1>4. n \notin AtMain \cup AtTaskq \cup AtResultq \cup AtCallback
   BY <1>2 DEF IInv, PlaceDisjoint
<1>5. running \in [Workers -> Job \cup {NoJob}] BY DEF IInv, TypeOK
<1>6. Busy' = Busy \ {w} /\ \A v \in Busy' : v \in Busy /\ v # w /\ running'[v] = running[v]
   BY <1>1, <1>5 DEF Busy
<1>7. \A v \in Busy' : running[v].node \in AtWorker /\ running[v].node # n
   BY <1>1, <1>6 DEF AtWorker, IInv, PlaceOnce
<1>8. AtWorker' \subseteq AtWorker \ {n} BY <1>6, <1>7 DEF AtWorker
<1>9. AtMain' = AtMain /\ AtTaskq' = AtTaskq /\ AtCallback' = AtCallback
   BY <1>0 DEF AtMain, AtTaskq, AtCallback
<1>10. Unsubmitted' = Unsubmitted BY <1>0, <1>9 DEF Unsubmitted
<1>11. outcome \in [Node -> Status \cup {"none", "began", "raised"}] BY DEF IInv, TypeOK
<1>12. /\ outcome' \in [Node -> Status \cup {"none", "began", "raised"}]
       /\ outcome'[n] = s /\ \A m \in Node : m # n => outcome'[m] = outcome[m]
   BY <1>1, <1>3, <1>11
<1>13. outcome[n] # "error" BY <1>1 DEF IInv, OutcomeBusy
<1>14. selected \subseteq Node BY DEF IInv, TypeOK
<1>r. /\ resultq' \in Seq(Result)
      /\ AtResultq' \subseteq AtResultq \cup {n}
      /\ \A i, j \in 1..Len(resultq') : i # j => resultq'[i].node # resultq'[j].node
      /\ \A i \in 1..Len(resultq') :
            \/ resultq'[i].node = n /\ resultq'[i].status = s
            \/ i \in 1..Len(resultq) /\ resultq'[i] = resultq[i]
   BY <1>3, <1>4, WorkerLeavesResult, SMT
<1>15. TypeOK'
   <2>1. running' \in [Workers -> Job \cup {NoJob}] BY <1>1, <1>5
   <2>2. resultq' \in Seq(Result) BY <1>r
   <2>3. raise_next_tick' \in {"none", "failfast", "runtime"} BY DEF WorkerLeaves
   <2> QED BY <1>0, <1>12, <2>1, <2>2, <2>3 DEF IInv, TypeOK
<1>16. QueueBooks' BY <1>0 DEF IInv, QueueBooks, NewAdditions
<1>17. GraphInv' /\ MainInv' BY <1>0 DEF IInv, GraphInv, MainInv
<1>18. AtResultq' \subseteq AtResultq \cup {n} BY <1>r
<1>19. PlaceIn' BY <1>0, <1>3, <1>8, <1>9, <1>18 DEF IInv, PlaceIn
<1>20. PlaceDisjoint' BY <1>4, <1>8, <1>9, <1>18 DEF IInv, PlaceDisjoint
<1>21. PlaceOnce'
   <2>1. \A u, v \in Busy' : u # v => running'[u].node # running'[v].node
      <3>1. \A u, v \in Busy : u # v => running[u].node # running[v].node
         BY DEF IInv, PlaceOnce
      <3>2. ASSUME NEW u \in Busy', NEW v \in Busy', u # v
            PROVE  running'[u].node # running'[v].node
         <4>1. /\ u \in Busy /\ running'[u] = running[u]
               /\ v \in Busy /\ running'[v] = running[v]
            BY <1>6
         <4> QED BY <3>1, <3>2, <4>1
      <3> QED BY <3>2
   <2>2. \A i, j \in 1..Len(resultq') : i # j => resultq'[i].node # resultq'[j].node
      BY <1>r
   <2> QED BY <1>0, <2>1, <2>2 DEF IInv, PlaceOnce
<1>22. OutcomeBefore'
   <2>1. \A m \in Unsubmitted \cup AtTaskq : m # n /\ m \in Node
      BY <1>3, <1>4, PlaceFacts DEF Unsubmitted
   <2> QED BY <1>9, <1>10, <1>12, <2>1 DEF IInv, OutcomeBefore
<1>23. OutcomeBusy'
   <2>1. \A v \in Busy' : running[v].node \in Node BY <1>7, PlaceFacts
   <2>2. OutcomeBusy BY DEF IInv
   <2>3. ASSUME NEW v \in Busy'
         PROVE  v \in Busy /\ running'[v] = running[v] /\ outcome'[running[v].node] = outcome[running[v].node]
      BY <1>6, <1>7, <1>12, <2>1
   <2> QED BY <2>2, <2>3 DEF OutcomeBusy
<1>24. OutcomeResult'
   <2>1. \A i \in 1..Len(resultq) : resultq[i].node \in AtResultq BY DEF AtResultq
   <2>2. \A i \in 1..Len(resultq) : resultq[i].node # n /\ resultq[i].node \in Node
      BY <1>4, <2>1, PlaceFacts
   <2>3. \A i \in 1..Len(resultq) : outcome[resultq[i].node] = resultq[i].status
      BY DEF IInv, OutcomeResult
   <2>4. \A i \in 1..Len(resultq) : outcome'[resultq[i].node] = resultq[i].status
      BY <1>12, <2>2, <2>3
   <2>5. \A i \in 1..Len(resultq') : outcome'[resultq'[i].node] = resultq'[i].status
      BY <1>12, <1>r, <2>4
   <2>6. handling # NoResult => handling.node # n /\ handling.node \in Node
      BY <1>4, PlaceFacts DEF AtCallback
   <2>7. handling # NoResult => outcome'[handling.node] = handling.status
      BY <1>12, <2>6 DEF IInv, OutcomeResult
   <2> QED BY <1>0, <2>5, <2>7 DEF OutcomeResult
<1>25. OutcomeDone' BY <1>0, <1>3, <1>12, <1>14 DEF IInv, OutcomeDone
<1>26. TodoInv' BY <1>0 DEF IInv, TodoInv
<1>27. BelowError \subseteq BelowError'
   BY <1>0, <1>12, <1>13, <1>14 DEF BelowError
<1>28. \A m \in in_progress : m \in BelowError' => m \in BelowError
   <2>1. \A m \in in_progress : m \in Node /\ m \notin Descendants(edges, n)
      BY <1>3, RootFacts
   <2> QED BY <1>0, <1>12, <1>14, <2>1 DEF BelowError
<1>29. SkipCause' BY <1>0, <1>27 DEF IInv, SkipCause
<1>u. Unmarked' = Unmarked BY <1>0, <1>10 DEF Unmarked
<1>30. SkipDone'
   <2>1. \A m \in selected \ remaining : outcome'[m] = outcome[m] BY <1>3, <1>12, <1>14
   <2> QED BY <1>0, <1>u, <2>1 DEF IInv, SkipDone
<1>31. SkipHandling' BY <1>0, <1>u DEF IInv, SkipHandling
<1>32. SkipJobs'
   <2>1. \A i \in 1..Len(taskq) : taskq[i].node \in in_progress
      <3>1. \A i \in 1..Len(taskq) : taskq[i].node \in AtTaskq BY DEF AtTaskq
      <3> QED BY <3>1, PlaceFacts
   <2>2. \A i \in 1..Len(taskq) : (taskq[i].skip # "no") <=> taskq[i].node \in BelowError'
      BY <1>27, <1>28, <2>1 DEF IInv, SkipJobs
   <2>3. \A v \in Busy' : running[v].node \in in_progress BY <1>7, PlaceFacts
   <2>4. \A v \in Busy' : (running'[v].skip # "no") <=> running'[v].node \in BelowError'
      BY <1>6, <1>27, <1>28, <2>3 DEF IInv, SkipJobs
   <2> QED BY <1>0, <2>2, <2>4 DEF SkipJobs
<1> QED BY <1>15, <1>16, <1>17, <1>19, <1>20, <1>21, <1>22, <1>23, <1>24, <1>25,
           <1>26, <1>29, <1>30, <1>31, <1>32 DEF IInv

LEMMA WorkerReturnInv == ASSUME IInv, NEW w \in Workers, WorkerReturn(w) PROVE IInv'
<1>1. PICK s \in Statuses(running[w]) :
         /\ outcome' = [outcome EXCEPT ![running[w].node] = s]
         /\ raise_next_tick' = NextTick(s)
         /\ resultq' = IF PoolTerminated THEN resultq
                       ELSE Append(resultq, [node |-> running[w].node, status |-> s])
   BY DEF WorkerReturn
<1>2. s \in Status BY StatusFacts DEF Statuses
<1>3. NextTick(s) \in {"none", "failfast", "runtime"} BY DEF NextTick, IInv, TypeOK
<1>4. WorkerLeaves(w, running[w].node, s)
   BY <1>1, <1>2, <1>3 DEF WorkerLeaves, WorkerReturn, graphVars, queueVars, mainVars,
      handleVars
<1> QED BY <1>4, WorkerLeavesInv

LEMMA WorkerRaiseInv == ASSUME IInv, NEW w \in Workers, WorkerRaise(w) PROVE IInv'
<1>1. raise_next_tick \in {"none", "failfast", "runtime"} BY DEF IInv, TypeOK
<1>2. WorkerLeaves(w, running[w].node, "raised")
   BY <1>1 DEF WorkerLeaves, WorkerRaise, graphVars, queueVars, mainVars, handleVars,
      taskVars
<1> QED BY <1>2, WorkerLeavesInv

-----------------------------------------------------------------------------
(* The callback *)

LEMMA HandleResultInv == ASSUME IInv, HandleResult PROVE IInv'
<1> DEFINE r == Head(resultq)
<1>0. /\ edges' = edges /\ selected' = selected /\ qedges' = qedges
      /\ remaining' = remaining /\ inner' = inner /\ queued' = queued
      /\ in_progress' = in_progress /\ unfinished' = unfinished
      /\ pc' = pc /\ cur' = cur /\ taskq' = taskq /\ running' = running
      /\ skipped_children' = skipped_children /\ raise_next_tick' = raise_next_tick
      /\ outcome' = outcome /\ handling = NoResult
   BY DEF HandleResult, graphVars, queueVars, mainVars
<1>1. /\ handling' = r
      /\ node_results' = IF r.node \in Ephemeral THEN node_results
                         ELSE [node_results EXCEPT ![r.node] = Append(@, r.status)]
      /\ todo' = IF r.status = "error" THEN Descendants(edges, r.node) ELSE {}
      /\ resultq' = Tail(resultq) /\ resultq # <<>>
   BY DEF HandleResult
<1>2. resultq \in Seq(Result) BY DEF IInv, TypeOK
<1>3. /\ r \in Result /\ r = resultq[1] /\ resultq' \in Seq(Result)
      /\ Len(resultq) \in Nat \ {0} /\ Len(resultq') = Len(resultq) - 1
      /\ \A i \in 1..Len(resultq') : resultq'[i] = resultq[i + 1]
   BY <1>1, <1>2, TailFacts
<1>t. /\ r.node \in {resultq[i].node : i \in 1..Len(resultq)}
      /\ {resultq'[i].node : i \in 1..Len(resultq')}
            \subseteq {resultq[i].node : i \in 1..Len(resultq)} \ {r.node}
      /\ \A i, j \in 1..Len(resultq') : i # j => resultq'[i].node # resultq'[j].node
   <2>1. \A i, j \in 1..Len(resultq) : i # j => resultq[i].node # resultq[j].node
      BY DEF IInv, PlaceOnce
   <2>2. resultq # <<>> /\ resultq' = Tail(resultq) BY <1>1
   <2>3. /\ Head(resultq).node \in {resultq[i].node : i \in 1..Len(resultq)}
         /\ {Tail(resultq)[i].node : i \in 1..Len(Tail(resultq))}
               \subseteq {resultq[i].node : i \in 1..Len(resultq)} \ {Head(resultq).node}
         /\ \A i, j \in 1..Len(Tail(resultq)) : i # j => Tail(resultq)[i].node # Tail(resultq)[j].node
      BY <1>2, <2>1, <2>2, TailNodes
   <2> QED BY <2>2, <2>3
<1> HIDE DEF r
<1>4. r # NoResult /\ r.node \in Node /\ r.status \in Status
   BY <1>3, NoneIsNone DEF Result
<1>5. AtCallback = {} /\ AtCallback' = {r.node} BY <1>0, <1>1, <1>4 DEF AtCallback
<1>6. /\ 1 \in 1..Len(resultq)
      /\ \A i \in 1..Len(resultq') : i + 1 \in 1..Len(resultq) /\ i + 1 # 1
   BY <1>3, SMT
<1>8. r.node \in AtResultq BY <1>t DEF AtResultq
<1>9. AtResultq' \subseteq AtResultq \ {r.node} BY <1>t DEF AtResultq
<1>10. AtMain' = AtMain /\ AtTaskq' = AtTaskq /\ Busy' = Busy /\ AtWorker' = AtWorker
   BY <1>0 DEF AtMain, AtTaskq, Busy, AtWorker
<1>11. Unsubmitted' = Unsubmitted /\ BelowError' = BelowError
   BY <1>0, <1>10 DEF Unsubmitted, BelowError
<1>12. TypeOK'
   <2>1. node_results \in [Node -> Seq(Status)] BY DEF IInv, TypeOK
   <2>2. Append(node_results[r.node], r.status) \in Seq(Status)
      BY <1>4, <2>1, AppendFacts
   <2>3. node_results' \in [Node -> Seq(Status)] BY <1>1, <1>4, <2>1, <2>2
   <2>4. todo' \in SUBSET Node BY <1>1 DEF Descendants
   <2> QED BY <1>0, <1>1, <1>3, <2>3, <2>4 DEF IInv, TypeOK
<1>13. QueueBooks' BY <1>0 DEF IInv, QueueBooks, NewAdditions
<1>14. GraphInv' /\ MainInv' BY <1>0 DEF IInv, GraphInv, MainInv
<1>15. PlaceIn' BY <1>0, <1>5, <1>8, <1>9, <1>10 DEF IInv, PlaceIn
<1>16. PlaceDisjoint' BY <1>5, <1>8, <1>9, <1>10, SMT DEF IInv, PlaceDisjoint
<1>17. PlaceOnce'
   <2>1. PlaceOnce BY DEF IInv
   <2> QED BY <1>0, <1>10, <1>t, <2>1, SMT DEF PlaceOnce
<1>18. \A i \in 1..Len(resultq) : outcome[resultq[i].node] = resultq[i].status
   BY DEF IInv, OutcomeResult
<1>19. OutcomeBefore' BY <1>0, <1>10, <1>11 DEF IInv, OutcomeBefore
<1>20. OutcomeBusy' BY <1>0, <1>10 DEF IInv, OutcomeBusy
<1>21. OutcomeResult'
   <2>1. \A i \in 1..Len(resultq') : outcome[resultq'[i].node] = resultq'[i].status
      BY <1>3, <1>6, <1>18
   <2>2. outcome[r.node] = r.status BY <1>3, <1>6, <1>18
   <2> QED BY <1>0, <1>1, <2>1, <2>2 DEF OutcomeResult
<1>22. OutcomeDone' BY <1>0 DEF IInv, OutcomeDone
<1>23. TodoInv' BY <1>0, <1>1, <1>4 DEF TodoInv
<1>24. SkipCause' BY <1>0, <1>11 DEF IInv, SkipCause
<1>u. Unmarked' = Unmarked BY <1>0, <1>11 DEF Unmarked
<1>25. SkipDone' BY <1>0, <1>u DEF IInv, SkipDone
<1>26. SkipHandling' BY <1>0, <1>1 DEF SkipHandling
<1>27. SkipJobs' BY <1>0, <1>10, <1>11 DEF IInv, SkipJobs
<1> QED BY <1>12, <1>13, <1>14, <1>15, <1>16, <1>17, <1>19, <1>20, <1>21, <1>22,
           <1>23, <1>24, <1>25, <1>26, <1>27 DEF IInv

LEMMA MarkDependentErrorInv == ASSUME IInv, MarkDependentError PROVE IInv'
<1>0. /\ edges' = edges /\ selected' = selected /\ qedges' = qedges
      /\ remaining' = remaining /\ inner' = inner /\ queued' = queued
      /\ in_progress' = in_progress /\ unfinished' = unfinished
      /\ pc' = pc /\ cur' = cur
      /\ taskq' = taskq /\ running' = running /\ resultq' = resultq
      /\ handling' = handling /\ node_results' = node_results
      /\ raise_next_tick' = raise_next_tick /\ outcome' = outcome
   BY DEF MarkDependentError, graphVars, queueVars, mainVars, poolVars
<1>1. PICK d \in todo :
         /\ skipped_children' =
               [skipped_children EXCEPT ![d] = IF handling.node \in Ephemeral
                                               THEN "ephemeral" ELSE "plain"]
         /\ todo' = todo \ {d}
   BY DEF MarkDependentError
<1>2. todo \subseteq Node /\ d \in Node BY DEF IInv, TypeOK
<1>3. skipped_children \in [Node -> {"absent", "plain", "ephemeral"}] BY DEF IInv, TypeOK
<1>4. /\ skipped_children' \in [Node -> {"absent", "plain", "ephemeral"}]
      /\ skipped_children'[d] # "absent"
      /\ \A n \in Node : n # d => skipped_children'[n] = skipped_children[n]
   BY <1>1, <1>2, <1>3
<1>5. /\ handling # NoResult /\ handling.status = "error"
      /\ todo \subseteq Descendants(edges, handling.node)
   BY DEF IInv, TodoInv
<1>6. /\ AtMain' = AtMain /\ AtTaskq' = AtTaskq /\ Busy' = Busy
      /\ AtWorker' = AtWorker /\ AtResultq' = AtResultq /\ AtCallback' = AtCallback
   BY <1>0 DEF AtMain, AtTaskq, Busy, AtWorker, AtResultq, AtCallback
<1>7. Unsubmitted' = Unsubmitted /\ BelowError' = BelowError
   BY <1>0, <1>6 DEF Unsubmitted, BelowError
<1>8. Unsubmitted \subseteq Node BY PlaceFacts
<1>9. d \in BelowError
   <2>1. handling.node \in AtCallback BY <1>5 DEF AtCallback
   <2>2. handling.node \in selected BY <2>1, PlaceFacts
   <2>3. outcome[handling.node] = "error" BY <1>5 DEF IInv, OutcomeResult
   <2> QED BY <1>2, <1>5, <2>2, <2>3 DEF BelowError
<1>10. TypeOK' BY <1>0, <1>1, <1>2, <1>4 DEF IInv, TypeOK
<1>11. QueueBooks' BY <1>0 DEF IInv, QueueBooks, NewAdditions
<1>12. GraphInv' /\ MainInv' BY <1>0 DEF IInv, GraphInv, MainInv
<1>13. PlaceIn' BY <1>0, <1>6 DEF IInv, PlaceIn
<1>14. PlaceDisjoint' BY <1>6 DEF IInv, PlaceDisjoint
<1>15. PlaceOnce' BY <1>0, <1>6, SMT DEF IInv, PlaceOnce
<1>16. OutcomeBefore' BY <1>0, <1>6, <1>7 DEF IInv, OutcomeBefore
<1>17. OutcomeBusy' BY <1>0, <1>6 DEF IInv, OutcomeBusy
<1>18. OutcomeResult' BY <1>0 DEF IInv, OutcomeResult
<1>19. OutcomeDone' BY <1>0 DEF IInv, OutcomeDone
<1>20. TodoInv' BY <1>0, <1>1, <1>5 DEF TodoInv
<1>21. SkipCause' BY <1>4, <1>7, <1>9 DEF IInv, SkipCause
<1>u. Unmarked' \subseteq Unmarked \ {d} BY <1>4, <1>7, <1>8 DEF Unmarked
<1>22. SkipDone' BY <1>0, <1>u DEF IInv, SkipDone
<1>23. SkipHandling' BY <1>0, <1>1, <1>u DEF IInv, SkipHandling
<1>24. SkipJobs' BY <1>0, <1>6, <1>7 DEF IInv, SkipJobs
<1> QED BY <1>10, <1>11, <1>12, <1>13, <1>14, <1>15, <1>16, <1>17, <1>18, <1>19,
           <1>20, <1>21, <1>22, <1>23, <1>24 DEF IInv

LEMMA MarkDoneInv ==
    ASSUME IInv, MarkDone, QueueBooks', unfinished' \in Int
    PROVE  IInv'
<1> DEFINE h == handling.node
           rem == remaining \ {h}
           busy == in_progress \ {h}
           new == NewAdditions(rem, queued \cup busy)
<1>0. /\ edges' = edges /\ selected' = selected /\ qedges' = qedges
      /\ cur' = cur /\ taskq' = taskq /\ running' = running /\ resultq' = resultq
      /\ todo' = todo /\ node_results' = node_results
      /\ skipped_children' = skipped_children /\ raise_next_tick' = raise_next_tick
      /\ outcome' = outcome
   BY DEF MarkDone, graphVars, poolVars, taskVars
<1>1. /\ handling # NoResult /\ todo = {} /\ handling' = NoResult
      /\ pc' = IF pc = "waiting" THEN "woken" ELSE pc
   BY DEF MarkDone
<1>2. /\ remaining' = rem /\ in_progress' = busy /\ inner' = inner \cup new
      /\ queued' = queued \cup new
      /\ unfinished' = unfinished + Cardinality(new) - 1
   BY DEF MarkDone
<1>3. h \in AtCallback BY <1>1 DEF AtCallback
<1>4. h \in in_progress /\ h \in remaining /\ h \in selected /\ h \in Node
   BY <1>3, PlaceFacts
<1>5. new = {n \in rem \ (queued \cup busy) : \A m \in rem : <<m, n>> \notin qedges}
   BY DEF NewAdditions
<1>6. new \subseteq rem /\ new \cap queued = {} /\ new \cap busy = {} BY <1>5
<1> HIDE DEF new
<1>7. /\ remaining \subseteq selected /\ inner \subseteq selected /\ queued \subseteq selected
      /\ in_progress \subseteq selected /\ selected \subseteq Node
   BY DEF IInv, TypeOK
<1>10. AtMain' = AtMain BY <1>0, <1>1 DEF AtMain
<1>11. /\ AtTaskq' = AtTaskq /\ Busy' = Busy /\ AtWorker' = AtWorker
       /\ AtResultq' = AtResultq /\ BelowError' = BelowError /\ AtCallback' = {}
   <2>1. Busy' = Busy /\ AtTaskq' = AtTaskq /\ AtResultq' = AtResultq
      BY <1>0 DEF Busy, AtTaskq, AtResultq
   <2>2. AtWorker' = AtWorker BY <1>0, <2>1 DEF AtWorker
   <2>3. BelowError' = BelowError BY <1>0 DEF BelowError
   <2>4. AtCallback' = {} BY <1>1 DEF AtCallback
   <2> QED BY <2>1, <2>2, <2>3, <2>4
<1>12. Unsubmitted' = Unsubmitted BY <1>2, <1>4, <1>10 DEF Unsubmitted
<1>13. TypeOK'
   <2>1. /\ remaining' \in SUBSET selected' /\ inner' \in SUBSET selected'
         /\ queued' \in SUBSET selected' /\ in_progress' \in SUBSET selected'
      BY <1>0, <1>2, <1>6, <1>7
   <2>3. pc' \in Pc BY <1>1 DEF IInv, TypeOK, Pc, InRunQueue
   <2>4. handling' \in Result \cup {NoResult} BY <1>1
   <2> QED BY <1>0, <2>1, <2>3, <2>4 DEF IInv, TypeOK
<1>15. GraphInv' BY <1>0 DEF IInv, GraphInv
<1>16. MainInv'
   <2>1. pc = "mark" => cur \notin inner /\ queued = inner \cup {cur} BY DEF IInv, MainInv
   <2>2. pc = "mark" => cur \notin inner \cup new BY <1>6, <2>1
   <2>3. pc' = "mark" => cur' \notin inner' /\ queued' = inner' \cup {cur'}
      BY <1>0, <1>1, <1>2, <2>1, <2>2
   <2>4. pc' \in Moving => inner' = queued' BY <1>1, <1>2 DEF IInv, MainInv, Moving
   <2> QED BY <2>3, <2>4 DEF MainInv, Moving
<1>17. PlaceIn'
   <2>1. h \notin AtMain \cup AtTaskq \cup AtWorker \cup AtResultq
      BY <1>3 DEF IInv, PlaceDisjoint
   <2> QED BY <1>2, <1>10, <1>11, <2>1 DEF IInv, PlaceIn
<1>18. PlaceDisjoint' BY <1>10, <1>11 DEF IInv, PlaceDisjoint
<1>19. PlaceOnce'
   <2>1. PlaceOnce BY DEF IInv
   <2> QED BY <1>0, <1>11, <2>1, SMT DEF PlaceOnce
<1>20. handling.status = outcome[h] /\ outcome[h] \in Status
   <2>1. handling \in Result BY <1>1 DEF IInv, TypeOK
   <2>2. handling.status \in Status BY <2>1 DEF Result
   <2> QED BY <1>1, <2>2 DEF IInv, OutcomeResult
<1>21. OutcomeBefore' BY <1>0, <1>11, <1>12 DEF IInv, OutcomeBefore
<1>22. OutcomeBusy' BY <1>0, <1>11 DEF IInv, OutcomeBusy
<1>23. OutcomeResult' BY <1>0, <1>1 DEF IInv, OutcomeResult
<1>24. OutcomeDone' BY <1>0, <1>2, <1>20 DEF IInv, OutcomeDone
<1>25. TodoInv' BY <1>0, <1>1 DEF TodoInv
<1>26. SkipCause' BY <1>0, <1>11 DEF IInv, SkipCause
<1>27. SkipDone'
   <2>1. outcome[h] = "error" => Descendants(edges, h) \cap Unmarked = {}
      <3>1. SkipHandling BY DEF IInv
      <3>2. todo = {} => Descendants(edges, h) \ todo = Descendants(edges, h) OBVIOUS
      <3> QED BY <1>1, <1>20, <3>1, <3>2 DEF SkipHandling
   <2>2. \A m \in selected \ rem :
            outcome[m] = "error" => Descendants(edges, m) \cap Unmarked = {}
      <3>1. ASSUME NEW m \in selected \ remaining, outcome[m] = "error"
            PROVE  Descendants(edges, m) \cap Unmarked = {}
         BY <3>1 DEF IInv, SkipDone
      <3>2. \A m \in selected \ rem : m \in selected \ remaining \/ m = h OBVIOUS
      <3> QED BY <2>1, <3>1, <3>2
   <2>3. Unmarked' = Unmarked BY <1>0, <1>12 DEF Unmarked
   <2> HIDE DEF rem
   <2> QED BY <1>0, <1>2, <2>2, <2>3 DEF SkipDone
<1>28. SkipHandling' BY <1>1 DEF SkipHandling
<1>29. SkipJobs' BY <1>0, <1>11 DEF IInv, SkipJobs
<1> QED BY <1>13, <1>15, <1>16, <1>17, <1>18, <1>19, <1>21, <1>22, <1>23,
           <1>24, <1>25, <1>26, <1>27, <1>28, <1>29 DEF IInv
-----------------------------------------------------------------------------
LEMMA InitInv == ASSUME Init, QueueBooks, unfinished \in Int PROVE IInv
<1>0. /\ args \in Commands /\ edges \in Graphs /\ selected \in SUBSET Selectable \ {{}}
      /\ qedges = SubsetGraph(edges, selected) /\ remaining = selected
      /\ inner = NewAdditions(selected, {}) /\ queued = inner /\ in_progress = {}
      /\ unfinished = Cardinality(inner)
   BY DEF Init
<1>1. /\ pc = "check" /\ cur = 0 /\ taskq = <<>> /\ resultq = <<>>
      /\ running = [w \in Workers |-> NoJob]
      /\ handling = NoResult /\ todo = {}
      /\ node_results = [n \in Node |-> <<>>]
      /\ skipped_children = [n \in Node |-> "absent"]
      /\ raise_next_tick = "none" /\ outcome = [n \in Node |-> "none"]
   BY DEF Init
<1>2. selected \subseteq Node BY <1>0, SelectableNodes
<1>3. edges \in SUBSET Edges /\ qedges \in SUBSET Edges
   BY <1>0, <1>2, TaskAssumption DEF SubsetGraph, Edges
<1>4. inner \subseteq selected BY <1>0 DEF NewAdditions
<1>e. 1..Len(taskq) = {} /\ 1..Len(resultq) = {} BY <1>1, SMT
<1>6. /\ AtMain = {} /\ AtTaskq = {} /\ Busy = {} /\ AtWorker = {}
      /\ AtResultq = {} /\ AtCallback = {}
   <2>1. AtMain = {} BY <1>1 DEF AtMain
   <2>2. Busy = {} BY <1>1 DEF Busy
   <2>3. AtCallback = {} BY <1>1 DEF AtCallback
   <2>4. AtTaskq = {} /\ AtResultq = {} BY <1>e DEF AtTaskq, AtResultq
   <2>5. AtWorker = {} BY <2>2 DEF AtWorker
   <2> QED BY <2>1, <2>2, <2>3, <2>4, <2>5
<1>7. TypeOK
   <2>1. pc \in Pc BY <1>1 DEF Pc, InRunQueue
   <2>2. /\ remaining \in SUBSET selected /\ inner \in SUBSET selected
         /\ queued \in SUBSET selected /\ in_progress \in SUBSET selected
      BY <1>0, <1>4
   <2>3. /\ taskq \in Seq(Job) /\ resultq \in Seq(Result)
         /\ running \in [Workers -> Job \cup {NoJob}]
         /\ node_results \in [Node -> Seq(Status)]
         /\ skipped_children \in [Node -> {"absent", "plain", "ephemeral"}]
         /\ outcome \in [Node -> Status \cup {"none", "began", "raised"}]
      BY <1>1, SMT
   <2> QED BY <1>1, <1>2, <1>3, <2>1, <2>2, <2>3 DEF TypeOK
<1>9. GraphInv BY <1>0 DEF GraphInv
<1>10. MainInv BY <1>0, <1>1 DEF MainInv
<1>11. PlaceIn /\ PlaceDisjoint BY <1>6 DEF PlaceIn, PlaceDisjoint
<1>12. PlaceOnce BY <1>6, <1>e DEF PlaceOnce
<1>13. OutcomeBefore BY <1>0, <1>1, <1>2, <1>6 DEF OutcomeBefore, Unsubmitted
<1>14. OutcomeBusy BY <1>6 DEF OutcomeBusy
<1>15. OutcomeResult BY <1>1, SMT DEF OutcomeResult
<1>16. OutcomeDone BY <1>0, <1>1 DEF OutcomeDone
<1>17. TodoInv /\ SkipHandling BY <1>1 DEF TodoInv, SkipHandling
<1>18. SkipCause BY <1>1 DEF SkipCause
<1>19. SkipDone
   <2>1. selected \ remaining = {} BY <1>0
   <2> QED BY <2>1 DEF SkipDone
<1>20. SkipJobs BY <1>6, <1>e DEF SkipJobs
<1> QED BY <1>7, <1>9, <1>10, <1>11, <1>12, <1>13, <1>14, <1>15, <1>16,
           <1>17, <1>18, <1>19, <1>20 DEF IInv
-----------------------------------------------------------------------------
LEMMA DisjointUnion ==
    ASSUME NEW S, NEW T, IsFiniteSet(S), IsFiniteSet(T), S \cap T = {}
    PROVE  Cardinality(S \cup T) = Cardinality(S) + Cardinality(T)
<1>1. Cardinality(S \cup T) = Cardinality(S) + Cardinality(T) - Cardinality(S \cap T)
   BY FS_Union
<1>2. Cardinality(S \cap T) = 0 BY FS_EmptySet
<1>3. Cardinality(S) \in Nat /\ Cardinality(T) \in Nat BY FS_CardinalityType
<1> QED BY <1>1, <1>2, <1>3, SMT


LEMMA InitBooks == ASSUME Init PROVE QueueBooks /\ unfinished \in Int
<1>0. /\ args \in Commands /\ selected \in SUBSET Selectable \ {{}} /\ remaining = selected
      /\ inner = NewAdditions(selected, {}) /\ queued = inner /\ in_progress = {}
      /\ unfinished = Cardinality(inner)
   BY DEF Init
<1>1. inner \subseteq Node BY <1>0, SelectableNodes DEF NewAdditions
<1>2. Cardinality(inner) \in Nat /\ Cardinality({}) = 0
   BY <1>1, NodeAssumption, FS_Subset, FS_CardinalityType, FS_EmptySet
<1> QED BY <1>0, <1>2, SMT DEF QueueBooks

LEMMA MarkInProgressBooks == ASSUME IInv, MarkInProgress PROVE QueueBooks'
<1>1. /\ qedges' = qedges /\ remaining' = remaining
      /\ inner' = inner /\ unfinished' = unfinished /\ pc = "mark"
      /\ queued' = queued \ {cur} /\ in_progress' = in_progress \cup {cur}
   BY DEF MarkInProgress, graphVars
<1>2. cur \in queued /\ cur \notin inner /\ queued = inner \cup {cur}
   BY <1>1 DEF IInv, MainInv
<1>3. cur \notin in_progress BY <1>2 DEF IInv, QueueBooks
<1>4. IsFiniteSet(queued) /\ IsFiniteSet(in_progress)
   <2>1. queued \subseteq Node /\ in_progress \subseteq Node BY DEF IInv, TypeOK
   <2> QED BY <2>1, FS_Subset, NodeAssumption
<1>5. Cardinality(queued') = Cardinality(queued) - 1
   BY <1>1, <1>2, <1>4, FS_RemoveElement
<1>6. Cardinality(in_progress') = Cardinality(in_progress) + 1
   BY <1>1, <1>3, <1>4, FS_AddElement
<1>7. Cardinality(queued) \in Nat /\ Cardinality(in_progress) \in Nat
   BY <1>4, FS_CardinalityType
<1>8. unfinished = Cardinality(queued) + Cardinality(in_progress) BY DEF IInv, QueueBooks
<1>9. unfinished' = Cardinality(queued') + Cardinality(in_progress')
   BY <1>1, <1>5, <1>6, <1>7, <1>8, SMT
<1>10. NewAdditions(remaining, {})' = NewAdditions(remaining, {})
   BY <1>1 DEF NewAdditions
<1>11. inner' \subseteq queued' /\ queued' \cap in_progress' = {}
   BY <1>1, <1>2, <1>3 DEF IInv, QueueBooks
<1>12. queued' \cup in_progress' = NewAdditions(remaining, {})'
   BY <1>1, <1>2, <1>10 DEF IInv, QueueBooks
<1> QED BY <1>9, <1>11, <1>12 DEF QueueBooks

LEMMA MarkDoneBooks == ASSUME IInv, MarkDone PROVE QueueBooks' /\ unfinished' \in Int
<1> DEFINE h == handling.node
           rem == remaining \ {h}
           busy == in_progress \ {h}
           new == NewAdditions(rem, queued \cup busy)
<1>0. qedges' = qedges /\ handling # NoResult BY DEF MarkDone, graphVars
<1>1. /\ remaining' = rem /\ in_progress' = busy /\ inner' = inner \cup new
      /\ queued' = queued \cup new
      /\ unfinished' = unfinished + Cardinality(new) - 1
   BY DEF MarkDone
<1>2. h \in AtCallback BY <1>0 DEF AtCallback
<1>3. h \in in_progress BY <1>2, PlaceFacts
<1>4. new = {n \in rem \ (queued \cup busy) : \A m \in rem : <<m, n>> \notin qedges}
   BY DEF NewAdditions
<1>5. new \subseteq rem /\ new \cap queued = {} /\ new \cap busy = {} BY <1>4
<1> HIDE DEF new
<1>6. IsFiniteSet(queued) /\ IsFiniteSet(in_progress) /\ IsFiniteSet(new)
   <2>1. queued \subseteq Node /\ in_progress \subseteq Node /\ new \subseteq Node
      BY <1>5 DEF IInv, TypeOK
   <2> QED BY <2>1, FS_Subset, NodeAssumption
<1>7. /\ Cardinality(queued) \in Nat /\ Cardinality(in_progress) \in Nat
      /\ Cardinality(new) \in Nat
   BY <1>6, FS_CardinalityType
<1>8. Cardinality(busy) = Cardinality(in_progress) - 1 BY <1>3, <1>6, FS_RemoveElement
<1>9. Cardinality(queued \cup new) = Cardinality(queued) + Cardinality(new)
   BY <1>5, <1>6, DisjointUnion
<1>10. unfinished = Cardinality(queued) + Cardinality(in_progress) BY DEF IInv, QueueBooks
<1>11. unfinished' = Cardinality(queued') + Cardinality(in_progress') /\ unfinished' \in Int
   <2> HIDE DEF busy
   <2> QED BY <1>1, <1>7, <1>8, <1>9, <1>10, SMT
<1>12. NewAdditions(remaining, {})' = {n \in rem : \A m \in rem : <<m, n>> \notin qedges}
   BY <1>0, <1>1 DEF NewAdditions
<1>13. queued \cup in_progress
          = {n \in remaining : \A m \in remaining : <<m, n>> \notin qedges}
   BY DEF IInv, QueueBooks, NewAdditions
<1>14. h \notin queued /\ queued \cap in_progress = {} /\ inner \subseteq queued
   BY <1>3 DEF IInv, QueueBooks
<1>15. queued \cup busy \subseteq {n \in rem : \A m \in rem : <<m, n>> \notin qedges}
   BY <1>13, <1>14
<1>16. queued' \cup in_progress' = NewAdditions(remaining, {})'
   BY <1>1, <1>4, <1>12, <1>15
<1>17. inner' \subseteq queued' /\ queued' \cap in_progress' = {}
   BY <1>1, <1>5, <1>14
<1> QED BY <1>11, <1>16, <1>17 DEF QueueBooks

\* Every step of the main thread, a worker or the callback keeps the invariant.
LEMMA NextInv == ASSUME IInv, [Next]_vars PROVE IInv'
<1>1. CASE Main
   <2>1. CASE Get BY <2>1, GetInv
   <2>2. CASE MarkInProgress BY <2>2, MarkInProgressInv, MarkInProgressBooks
   <2>3. CASE Submit BY <2>3, SubmitInv
   <2>4. CASE CancelConnections BY <2>4, CancelInv
   <2> QED BY <1>1, <2>1, <2>2, <2>3, <2>4, ControlSteps, ControlInv DEF Main
<1>2. CASE KeyboardInterrupt BY <1>2, ControlSteps, ControlInv
<1>3. ASSUME NEW w \in Workers, Worker(w) PROVE IInv'
   BY <1>3, WorkerTakeInv, WorkerReturnInv, WorkerRaiseInv DEF Worker
<1>4. CASE Callback
   BY <1>4, HandleResultInv, MarkDependentErrorInv, MarkDoneInv, MarkDoneBooks DEF Callback
<1>5. CASE Finished \/ UNCHANGED vars BY <1>5, StutterInv DEF Finished
<1> QED BY <1>1, <1>2, <1>3, <1>4, <1>5 DEF Next

\* The strengthened invariant holds in every reachable state of the scheduler.
THEOREM Invariance == Spec => []IInv
<1>1. Init => IInv BY InitBooks, InitInv
<1> QED BY <1>1, NextInv, PTL DEF Spec

\* The fields of the queue, the pool and the task keep their types.
THEOREM TypeCorrect == Spec => []TypeOK
<1>1. IInv => TypeOK BY DEF IInv
<1> QED BY <1>1, Invariance, PTL

\* GraphQueue's queued, in_progress, graph and unfinished_tasks agree after
\* every get() and mark_done(), whatever the threads' interleaving.
THEOREM QueueBooksCorrect == Spec => []QueueBooks
<1>1. IInv => QueueBooks BY DEF IInv
<1> QED BY <1>1, Invariance, PTL

\* After call_runner stashed an error, run_queue submits at most the node it
\* was already submitting.
THEOREM NoSubmitAfterErrorCorrect == Spec => NoSubmitAfterError
<1>1. ASSUME [Next]_vars
      PROVE  (raise_next_tick # "none" /\ pc # "submit") => pc' # "submit"
   <2> SUFFICES ASSUME raise_next_tick # "none", pc # "submit" PROVE pc' # "submit"
      OBVIOUS
   <2>1. CASE Main
      BY <2>1 DEF Main, CheckEmpty, Get, MarkInProgress, RaiseSetError, RaisedPc, Submit,
         WaitSomethingDone, WokenUp, Join, FinalRaise, ClosePool, CancelConnections, JoinPool
   <2>2. CASE KeyboardInterrupt BY <2>2 DEF KeyboardInterrupt
   <2>3. ASSUME NEW w \in Workers, Worker(w) PROVE pc' # "submit"
      BY <2>3 DEF Worker, WorkerTake, WorkerReturn, WorkerRaise, mainVars
   <2>4. CASE Callback
      BY <2>4 DEF Callback, HandleResult, MarkDependentError, MarkDone, mainVars
   <2>5. CASE Finished \/ UNCHANGED vars BY <2>5 DEF Finished, vars, mainVars
   <2> QED BY <1>1, <2>1, <2>2, <2>3, <2>4, <2>5 DEF Next
<1> QED BY <1>1, PTL DEF Spec, NoSubmitAfterError
-----------------------------------------------------------------------------
\* DagRun speaks of the same graph operators.
LEMMA SameUpstream ==
    ASSUME NEW n \in Node, selected \subseteq Node
    PROVE  DR!Upstream(n) = {m \in selected : n \in Descendants(edges, m)}
BY DEF DR!Upstream, DR!Ancestors, DR!Descendants, DR!ClosedFrom, Descendants, ClosedFrom

\* A node handed out has everything above it ended.
LEMMA InProgressReady ==
    ASSUME IInv, NEW n \in in_progress, outcome[n] = "none"
    PROVE  DR!Ready(n)
<1>1. n \in selected /\ n \in Node /\ \A m \in remaining : n \notin Descendants(edges, m)
   BY RootFacts
<1>2. selected \subseteq Node BY DEF IInv, TypeOK
<1>3. \A m \in DR!Upstream(n) : outcome[m] \in DR!Ended
   BY <1>1, <1>2, SameUpstream DEF IInv, OutcomeDone, Status
<1> QED BY <1>1, <1>3 DEF DR!Ready

LEMMA TakeImplements ==
    ASSUME IInv, NEW w \in Workers, WorkerTake(w)
    PROVE  DR!DagNext \/ UNCHANGED DR!dagVars
<1> DEFINE job == Head(taskq)
<1>0. /\ edges' = edges /\ selected' = selected
      /\ outcome' = IF job.skip = "no" THEN [outcome EXCEPT ![job.node] = "began"]
                    ELSE outcome
   BY DEF WorkerTake, graphVars
<1>1. job \in Job /\ job = taskq[1] /\ 1 \in 1..Len(taskq)
   BY TailFacts, SMT DEF IInv, TypeOK, WorkerTake
<1>2. job.node \in AtTaskq BY <1>1 DEF AtTaskq
<1>3. job.node \in in_progress /\ outcome[job.node] = "none"
   BY <1>2 DEF IInv, PlaceIn, OutcomeBefore
<1>4. job.node \in Node /\ selected \subseteq Node BY <1>3, RootFacts DEF IInv, TypeOK
<1>5. DR!Ready(job.node) BY <1>3, InProgressReady
<1>6. CASE job.skip = "no"
   <2>1. job.node \notin BelowError BY <1>1, <1>6 DEF IInv, SkipJobs
   <2>2. \A m \in DR!Upstream(job.node) : outcome[m] # "error"
      BY <2>1, <1>4, SameUpstream DEF BelowError
   <2>3. DR!Begin(job.node) BY <1>0, <1>5, <1>6, <2>2 DEF DR!Begin
   <2> QED BY <2>3, <1>4 DEF DR!DagNext
<1>7. CASE job.skip # "no" BY <1>0, <1>7 DEF DR!dagVars
<1> QED BY <1>6, <1>7

LEMMA LeaveImplements ==
    ASSUME IInv, NEW w \in Workers, running[w] # NoJob,
           NEW s \in Statuses(running[w]) \cup {"raised"},
           outcome' = [outcome EXCEPT ![running[w].node] = s],
           UNCHANGED <<edges, selected>>
    PROVE  DR!DagNext
<1> DEFINE n == running[w].node
<1>1. w \in Busy /\ n \in AtWorker BY DEF Busy, AtWorker
<1>2. n \in in_progress /\ n \in Node /\ selected \subseteq Node
   BY <1>1, RootFacts DEF IInv, PlaceIn, TypeOK
<1>3. CASE running[w].skip = "no"
   <2>1. outcome[n] = "began" BY <1>1, <1>3 DEF IInv, OutcomeBusy
   <2>2. s \in DR!EndedWell \cup {"error", "raised"}
      BY <1>3 DEF Statuses, DR!EndedWell
   <2>3. DR!End(n) BY <2>1, <2>2 DEF DR!End
   <2> QED BY <2>3, <1>2 DEF DR!DagNext
<1>4. CASE running[w].skip # "no"
   <2>1. outcome[n] = "none" /\ n \in BelowError BY <1>1, <1>4 DEF IInv, OutcomeBusy, SkipJobs
   <2>2. \E m \in DR!Upstream(n) : outcome[m] = "error"
      BY <2>1, <1>2, SameUpstream DEF BelowError
   <2>3. s \in DR!SkipOutcome \cup {"raised"} BY <1>4 DEF Statuses, DR!SkipOutcome
   <2>4. DR!SkipNode(n) BY <2>1, <2>2, <2>3, <1>2, InProgressReady DEF DR!SkipNode
   <2> QED BY <2>4, <1>2 DEF DR!DagNext
<1> QED BY <1>3, <1>4

\* Nothing but a worker's step begins or ends a node.
LEMMA OthersKeepDag ==
    ASSUME Main \/ KeyboardInterrupt \/ Callback \/ Finished \/ UNCHANGED vars
    PROVE  edges' = edges /\ selected' = selected /\ outcome' = outcome
<1>1. CASE Main \/ KeyboardInterrupt
   BY <1>1 DEF Main, CheckEmpty, Get, MarkInProgress, RaiseSetError, Submit,
      WaitSomethingDone, WokenUp, Join, FinalRaise, ClosePool, CancelConnections,
      JoinPool, KeyboardInterrupt, graphVars
<1>2. CASE Callback
   BY <1>2 DEF Callback, HandleResult, MarkDependentError, MarkDone, graphVars
<1>3. CASE Finished \/ UNCHANGED vars BY <1>3 DEF Finished, vars, graphVars
<1> QED BY <1>1, <1>2, <1>3

\* The threads, the queue and the pool carry out an execution of the graph as
\* DagRun describes it: each node at most once, after everything it depends on,
\* and skipped exactly when one of those ended in an error.
THEOREM Refinement == Spec => ImplementsDagRun
<1>1. Init => DR!DagInit
   BY TaskAssumption, SelectableNodes DEF Init, DR!DagInit, DR!Edges, Edges
<1>2. ASSUME IInv, [Next]_vars PROVE [DR!DagNext]_DR!dagVars
   <2>1. ASSUME NEW w \in Workers, Worker(w) PROVE [DR!DagNext]_DR!dagVars
      <3>1. CASE WorkerTake(w) BY <3>1, <1>2, TakeImplements
      <3>2. CASE WorkerReturn(w)
         BY <3>2, <1>2, LeaveImplements DEF WorkerReturn, graphVars
      <3>3. CASE WorkerRaise(w)
         BY <3>3, <1>2, LeaveImplements DEF WorkerRaise, graphVars
      <3> QED BY <2>1, <3>1, <3>2, <3>3 DEF Worker
   <2>2. CASE Main \/ KeyboardInterrupt \/ Callback \/ Finished \/ UNCHANGED vars
      BY <2>2, OthersKeepDag DEF DR!dagVars
   <2> QED BY <1>2, <2>1, <2>2 DEF Next
<1> QED BY <1>1, <1>2, Invariance, PTL DEF Spec, ImplementsDagRun, DR!DagSpec
-----------------------------------------------------------------------------
(* What a run that returns reports *)

\* A node below a node below another one is below that one, in a graph without
\* cycles.
LEMMA DescendantsTransitive ==
    ASSUME NEW E, Acyclic(E), NEW k \in Node, NEW m \in Descendants(E, k), NEW n \in Descendants(E, m)
    PROVE  n \in Descendants(E, k)
<1>1. ASSUME NEW S \in SUBSET Node, ClosedFrom(E, k, S) PROVE n \in S
   <2>1. m \in S BY <1>1 DEF Descendants
   <2>2. ClosedFrom(E, m, S) BY <1>1, <2>1 DEF ClosedFrom
   <2> QED BY <2>2 DEF Descendants
<1>2. n # k
   <2>1. PICK S \in SUBSET (Node \ {k}) : ClosedFrom(E, k, S) BY DEF Acyclic
   <2> QED BY <1>1, <2>1
<1>3. n \in Node BY DEF Descendants
<1> QED BY <1>1, <1>2, <1>3 DEF Descendants

\* Of some nodes of a graph without cycles, one is below no other of them.
LEMMA SourceExists ==
    ASSUME NEW E, Acyclic(E), NEW S \in SUBSET Node, S # {}
    PROVE  \E n \in S : \A m \in S : n \notin Descendants(E, m)
<1> DEFINE R == StrictSubsetOrdering(Node)
           T == {Ancestors(E, n) : n \in S}
<1>1. FiniteSubsetsOf(Node) = SUBSET Node BY FS_FiniteSubsetsOfFinite, NodeAssumption
<1>2. IsWellFoundedOn(R, SUBSET Node) BY <1>1, FS_StrictSubsetOrderingWellFounded
<1>3. T \subseteq SUBSET Node /\ T # {} BY DEF Ancestors
<1> HIDE DEF R, T
<1>4. \E x \in T : \A y \in T : ~(<<y, x>> \in R) BY <1>2, <1>3, WFMin
<1> USE DEF T
<1>5. PICK n \in S : \A y \in T : <<y, Ancestors(E, n)>> \notin R BY <1>4
<1>6. ASSUME NEW m \in S, n \in Descendants(E, m) PROVE FALSE
   <2>1. Ancestors(E, m) \subseteq Ancestors(E, n) BY <1>6, DescendantsTransitive DEF Ancestors
   <2>2. m \in Ancestors(E, n) /\ m \notin Ancestors(E, m) BY <1>6 DEF Ancestors, Descendants
   <2>3. <<Ancestors(E, m), Ancestors(E, n)>> \in R BY <2>1, <2>2 DEF R, StrictSubsetOrdering, Ancestors
   <2> QED BY <1>5, <2>3
<1> QED BY <1>6

\* When nothing is unfinished the queue's graph is empty (join, empty).
LEMMA NothingLeft ==
    ASSUME IInv, unfinished = 0
    PROVE  remaining = {} /\ in_progress = {}
<1>1. /\ queued \subseteq Node /\ in_progress \subseteq Node /\ remaining \subseteq selected
      /\ selected \subseteq Node
   BY DEF IInv, TypeOK
<1>2. IsFiniteSet(queued) /\ IsFiniteSet(in_progress) BY <1>1, FS_Subset, NodeAssumption
<1>3. Cardinality(queued) \in Nat /\ Cardinality(in_progress) \in Nat BY <1>2, FS_CardinalityType
<1>4. Cardinality(queued) = 0 /\ Cardinality(in_progress) = 0 BY <1>3, SMT DEF IInv, QueueBooks
<1>5. queued = {} /\ in_progress = {} BY <1>2, <1>4, FS_EmptySet
<1>6. {n \in remaining : \A m \in remaining : <<m, n>> \notin qedges} = {}
   BY <1>5 DEF IInv, QueueBooks, NewAdditions
<1>7. qedges = {e \in selected \X selected : e[2] \in Descendants(edges, e[1])} /\ Acyclic(edges)
   BY GraphsAreAcyclic DEF IInv, GraphInv, SubsetGraph
<1>8. ASSUME remaining # {} PROVE FALSE
   <2>1. PICK n \in remaining : \A m \in remaining : n \notin Descendants(edges, m)
      BY <1>1, <1>7, <1>8, SourceExists
   <2>2. \A m \in remaining : <<m, n>> \notin qedges BY <1>7, <2>1
   <2> QED BY <1>6, <2>2
<1> QED BY <1>5, <1>8

\* No failure is reported, and none has to be, before the first step.
LEMMA InitReport == ASSUME Init PROVE ReportInv
<1>1. OrderInv /\ TaskInv /\ EndInv /\ StashInv
   BY DEF Init, OrderInv, TaskInv, EndInv, StashInv
<1>2. RecordInv BY DEF Init, RecordInv, AtCallback
<1>3. CauseInv BY DEF Init, CauseInv, BelowError
<1> QED BY <1>1, <1>2, <1>3 DEF ReportInv

\* Steps that change neither results nor outcomes.
LEMMA FrameReport ==
    ASSUME ReportInv, EndInv', raise_next_tick' = raise_next_tick,
           UNCHANGED <<args, edges, selected, remaining, handling, outcome, node_results>>
    PROVE  ReportInv'
<1>1. OrderInv' /\ TaskInv' /\ StashInv'
   BY DEF ReportInv, OrderInv, TaskInv, StashInv, Selectable, raise_on_first_error
<1>2. AtCallback' = AtCallback /\ BelowError' = BelowError BY DEF AtCallback, BelowError
<1>3. RecordInv' /\ CauseInv' BY <1>2 DEF ReportInv, RecordInv, CauseInv
<1> QED BY <1>1, <1>3 DEF ReportInv

LEMMA MainReport ==
    ASSUME IInv, ReportInv, Main \/ KeyboardInterrupt \/ MarkDependentError \/ UNCHANGED vars
    PROVE  ReportInv'
<1>1. /\ UNCHANGED <<args, edges, selected, remaining, handling, outcome, node_results, unfinished>>
      /\ raise_next_tick' = raise_next_tick
   BY DEF Main, CheckEmpty, Get, MarkInProgress, RaiseSetError, Submit, WaitSomethingDone, WokenUp, Join,
      FinalRaise, ClosePool, CancelConnections, JoinPool, KeyboardInterrupt, MarkDependentError, vars,
      graphVars, queueVars, handleVars, taskVars
<1>2. EndInv'
   BY <1>1 DEF Main, CheckEmpty, Get, MarkInProgress, RaiseSetError, Submit, WaitSomethingDone, WokenUp, Join,
      FinalRaise, ClosePool, CancelConnections, JoinPool, KeyboardInterrupt, MarkDependentError, vars,
      mainVars, RaisedPc, ReportInv, EndInv
<1> QED BY <1>1, <1>2, FrameReport

\* A runner that begins or ends, at node n, keeps what will be reported.
LEMMA OutcomeReport ==
    ASSUME IInv, ReportInv, NEW n \in AtTaskq \cup AtWorker,
           NEW s \in Status \cup {"began", "raised"},
           outcome' = [outcome EXCEPT ![n] = s],
           UNCHANGED <<args, edges, selected, remaining, handling, node_results, pc, unfinished>>,
           s = "fail" => args.task = "test",
           raise_next_tick' = "none" =>
              raise_next_tick = "none" /\ (s \in {"error", "fail"} => ~args.fail_fast /\ ~raise_on_first_error),
           s \in {"skipped", "errorskip"} => n \in BelowError,
           s \in {"began", "success", "warn", "fail", "error"} => n \notin BelowError
    PROVE  ReportInv'
<1>1. /\ n \in in_progress /\ n \in remaining /\ n \in selected /\ n \in Node
      /\ \A m \in remaining : n \notin Descendants(edges, m)
   BY PlaceFacts, RootFacts
<1>2. n \notin AtCallback /\ outcome[n] \in {"none", "began"}
   BY DEF IInv, PlaceDisjoint, OutcomeBefore, OutcomeBusy, AtWorker
<1>3. outcome \in [Node -> Status \cup {"none", "began", "raised"}] /\ selected \subseteq Node
   BY DEF IInv, TypeOK
<1>4. outcome'[n] = s /\ \A k \in Node \ {n} : outcome'[k] = outcome[k] BY <1>1, <1>3
<1>5. pc \notin {"final", "close", "done"}
   BY <1>1, NothingLeft DEF ReportInv, EndInv
<1>6. OrderInv' /\ TaskInv'
   BY <1>4 DEF ReportInv, OrderInv, TaskInv, Selectable
<1>7. EndInv' BY <1>5 DEF EndInv
<1>8. StashInv' BY <1>4 DEF ReportInv, StashInv, raise_on_first_error
<1>9. RecordInv'
   <2>1. AtCallback' = AtCallback BY DEF AtCallback
   <2>2. ASSUME NEW k \in Node, k \in (selected \ remaining) \cup AtCallback PROVE outcome'[k] = outcome[k]
      BY <1>1, <1>2, <1>4, <2>2
   <2> QED BY <2>1, <2>2 DEF ReportInv, RecordInv
<1>10. CauseInv'
   <2>1. BelowError \subseteq BelowError'
      BY <1>2, <1>3, <1>4 DEF BelowError
   <2>2. ASSUME NEW k \in BelowError', k \notin BelowError
         PROVE  s = "error" /\ k \in Descendants(edges, n)
      BY <1>3, <1>4, <2>2 DEF BelowError
   <2>3. n \notin Descendants(edges, n) BY DEF Descendants
   <2>4. ASSUME NEW k \in Node, k \in Descendants(edges, n) PROVE outcome[k] = "none"
      <3>1. CASE k \notin selected BY <3>1 DEF IInv, OutcomeDone
      <3>2. CASE k \in selected
         <4>1. k \in remaining BY <1>1, <2>4, <3>2 DEF ReportInv, OrderInv
         <4>2. k \notin in_progress BY <1>1, <2>4, RootFacts
         <4> QED BY <4>1, <4>2 DEF IInv, OutcomeBefore, Unsubmitted
      <3> QED BY <3>1, <3>2
   <2>5. ASSUME NEW k \in Node, outcome'[k] \in {"skipped", "errorskip"} PROVE k \in BelowError'
      BY <1>4, <2>1, <2>5 DEF ReportInv, CauseInv
   <2>6. ASSUME NEW k \in Node, outcome'[k] \in {"began", "success", "warn", "fail", "error"}
         PROVE  k \notin BelowError'
      <3>1. CASE k = n BY <1>4, <2>2, <2>3, <2>6, <3>1
      <3>2. CASE k # n
         <4>1. k \notin BelowError BY <1>4, <2>6, <3>2 DEF ReportInv, CauseInv
         <4> QED BY <1>4, <2>2, <2>4, <2>6, <3>2, <4>1
      <3> QED BY <3>1, <3>2
   <2> QED BY <2>5, <2>6 DEF CauseInv
<1> QED BY <1>6, <1>7, <1>8, <1>9, <1>10 DEF ReportInv

LEMMA WorkerReport == ASSUME IInv, ReportInv, NEW w \in Workers, Worker(w) PROVE ReportInv'
<1>1. /\ UNCHANGED <<args, edges, selected, remaining, handling, node_results, pc, unfinished>>
   BY DEF Worker, WorkerTake, WorkerReturn, WorkerRaise, graphVars, queueVars, mainVars, handleVars, taskVars
<1>2. CASE WorkerTake(w)
   <2> DEFINE job == Head(taskq)
   <2>1. job = taskq[1] /\ 1 \in 1..Len(taskq)
      BY <1>2, TailFacts, SMT DEF IInv, TypeOK, WorkerTake
   <2>2. job.node \in AtTaskq BY <2>1 DEF AtTaskq
   <2>3. raise_next_tick' = raise_next_tick BY <1>2 DEF WorkerTake, taskVars
   <2>4. CASE job.skip = "no"
      <3>1. job.node \notin BelowError BY <2>1, <2>4 DEF IInv, SkipJobs
      <3>2. outcome' = [outcome EXCEPT ![job.node] = "began"] BY <1>2, <2>4 DEF WorkerTake
      <3> HIDE DEF job
      <3> QED BY <1>1, <2>2, <2>3, <3>1, <3>2, OutcomeReport
   <2>5. CASE job.skip # "no"
      <3>1. outcome' = outcome BY <1>2, <2>5 DEF WorkerTake
      <3>2. EndInv' BY <1>1, <2>3 DEF ReportInv, EndInv
      <3> QED BY <1>1, <2>3, <3>1, <3>2, FrameReport
   <2> QED BY <2>4, <2>5
<1>3. CASE WorkerReturn(w)
   <2> DEFINE n == running[w].node
   <2>1. w \in Busy /\ n \in AtWorker BY <1>3 DEF WorkerReturn, Busy, AtWorker
   <2>2. PICK s \in Statuses(running[w]) : outcome' = [outcome EXCEPT ![n] = s] /\ raise_next_tick' = NextTick(s)
      BY <1>3 DEF WorkerReturn
   <2>3. s \in Status /\ (s = "fail" => args.task = "test") BY StatusFacts DEF Statuses
   <2>4. /\ s \in {"skipped", "errorskip"} => n \in BelowError
         /\ s \in {"began", "success", "warn", "fail", "error"} => n \notin BelowError
      BY <2>1 DEF Statuses, IInv, SkipJobs
   <2>5. raise_next_tick' = "none" =>
            raise_next_tick = "none" /\ (s \in {"error", "fail"} => ~args.fail_fast /\ ~raise_on_first_error)
      BY <2>2, <2>3 DEF NextTick, raise_on_first_error
   <2> HIDE DEF n
   <2> QED BY <1>1, <2>1, <2>2, <2>3, <2>4, <2>5, OutcomeReport
<1>4. CASE WorkerRaise(w)
   <2>1. running[w].node \in AtWorker BY <1>4 DEF WorkerRaise, Busy, AtWorker
   <2>2. outcome' = [outcome EXCEPT ![running[w].node] = "raised"] /\ raise_next_tick' = raise_next_tick
      BY <1>4 DEF WorkerRaise, taskVars
   <2> QED BY <1>1, <2>1, <2>2, StatusFacts, OutcomeReport
<1> QED BY <1>2, <1>3, <1>4 DEF Worker

LEMMA HandleResultReport == ASSUME IInv, ReportInv, HandleResult PROVE ReportInv'
<1> DEFINE r == Head(resultq)
<1>1. /\ UNCHANGED <<args, edges, selected, remaining, outcome, pc, unfinished, raise_next_tick>>
      /\ handling = NoResult /\ handling' = r
      /\ node_results' = IF r.node \in Ephemeral THEN node_results
                         ELSE [node_results EXCEPT ![r.node] = Append(@, r.status)]
   BY DEF HandleResult, graphVars, queueVars, mainVars
<1>2. r \in Result /\ r = resultq[1] /\ 1 \in 1..Len(resultq)
   BY TailFacts, SMT DEF IInv, TypeOK, HandleResult
<1>3. r.node \in AtResultq /\ outcome[r.node] = r.status
   BY <1>2 DEF AtResultq, IInv, OutcomeResult
<1>4. r.node \in remaining /\ r.node \in Node /\ r.node \in selected BY <1>3, PlaceFacts
<1>5. AtCallback = {} /\ AtCallback' = {r.node}
   BY <1>1, <1>2, NoneIsNone DEF AtCallback
<1>6. node_results \in [Node -> Seq(Status)] BY DEF IInv, TypeOK
<1> HIDE DEF r
<1>7. OrderInv' /\ TaskInv' /\ EndInv' /\ StashInv'
   BY <1>1 DEF ReportInv, OrderInv, TaskInv, EndInv, StashInv, Selectable, raise_on_first_error
<1>8. BelowError' = BelowError BY <1>1 DEF BelowError
<1>9. CauseInv' BY <1>1, <1>8 DEF ReportInv, CauseInv
<1>10. RecordInv'
   <2> SUFFICES ASSUME NEW k \in Node
                PROVE  node_results'[k] = IF k \in ((selected \ remaining) \cup {r.node}) \ Ephemeral
                                          THEN <<outcome[k]>> ELSE <<>>
      BY <1>1, <1>5 DEF RecordInv
   <2>1. node_results[k] = IF k \in (selected \ remaining) \ Ephemeral THEN <<outcome[k]>> ELSE <<>>
      BY <1>5 DEF ReportInv, RecordInv
   <2>2. CASE k = r.node /\ k \notin Ephemeral
      <3>1. node_results[k] = <<>> BY <1>4, <2>1, <2>2
      <3>2. node_results'[k] = Append(<<>>, r.status) BY <1>1, <1>6, <2>2, <3>1
      <3>3. node_results'[k] = <<r.status>> BY <3>2, SMT
      <3> QED BY <1>3, <2>2, <3>3
   <2>3. CASE k # r.node \/ k \in Ephemeral
      <3>1. node_results'[k] = node_results[k] BY <1>1, <1>6, <2>3
      <3> QED BY <1>4, <2>1, <2>3, <3>1
   <2> QED BY <2>2, <2>3
<1> QED BY <1>7, <1>9, <1>10 DEF ReportInv

LEMMA MarkDoneReport == ASSUME IInv, ReportInv, MarkDone PROVE ReportInv'
<1> DEFINE h == handling.node
<1>1. /\ UNCHANGED <<args, edges, selected, outcome, node_results, raise_next_tick>>
      /\ handling # NoResult /\ handling' = NoResult
      /\ remaining' = remaining \ {h}
      /\ pc' = IF pc = "waiting" THEN "woken" ELSE pc
   BY DEF MarkDone, graphVars, taskVars
<1>2. AtCallback = {h} /\ AtCallback' = {} BY <1>1 DEF AtCallback
<1>3. /\ h \in in_progress /\ h \in remaining /\ h \in selected
      /\ \A m \in remaining : h \notin Descendants(edges, m)
   BY <1>2, PlaceFacts, RootFacts
<1>4. pc \notin {"final", "close", "done"} BY <1>3, NothingLeft DEF ReportInv, EndInv
<1>5. EndInv' BY <1>1, <1>4 DEF EndInv
<1>6. OrderInv' BY <1>1, <1>3 DEF ReportInv, OrderInv
<1>7. TaskInv' /\ StashInv'
   BY <1>1 DEF ReportInv, TaskInv, StashInv, Selectable, raise_on_first_error
<1>8. BelowError' = BelowError BY <1>1 DEF BelowError
<1>9. CauseInv' BY <1>1, <1>8 DEF ReportInv, CauseInv
<1>10. (selected' \ remaining') \cup AtCallback' = (selected \ remaining) \cup AtCallback
   BY <1>1, <1>2, <1>3
<1>11. RecordInv' BY <1>1, <1>10 DEF ReportInv, RecordInv
<1> QED BY <1>5, <1>6, <1>7, <1>9, <1>11 DEF ReportInv

\* The second invariant holds in every reachable state.
THEOREM ReportInvariance == Spec => []ReportInv
<1>1. ASSUME IInv, ReportInv, [Next]_vars PROVE ReportInv'
   <2>1. CASE Main \/ KeyboardInterrupt \/ UNCHANGED vars BY <1>1, <2>1, MainReport
   <2>2. ASSUME NEW w \in Workers, Worker(w) PROVE ReportInv' BY <1>1, <2>2, WorkerReport
   <2>3. CASE Callback BY <1>1, <2>3, HandleResultReport, MainReport, MarkDoneReport DEF Callback
   <2>4. CASE Finished BY <1>1, <2>4, MainReport DEF Finished
   <2> QED BY <1>1, <2>1, <2>2, <2>3, <2>4 DEF Next
<1> QED BY <1>1, InitReport, Invariance, PTL DEF Spec

\* In a run that returns, every selected node has ended, those that are not
\* ephemeral with one result each.
LEMMA AllRecorded ==
    ASSUME IInv, ReportInv, pc = "done", NEW n \in selected
    PROVE  outcome[n] \in Status /\ (n \notin Ephemeral => node_results[n] = <<outcome[n]>>)
<1>1. remaining = {} BY NothingLeft DEF ReportInv, EndInv
<1>2. n \in Node BY DEF IInv, TypeOK
<1> QED BY <1>1, <1>2 DEF IInv, OutcomeDone, ReportInv, RecordInv

\* ... and the others have none.
LEMMA OthersNotRecorded ==
    ASSUME IInv, ReportInv, NEW n \in Node, n \notin selected \/ n \in Ephemeral
    PROVE  node_results[n] = <<>>
<1>1. n \notin AtCallback \ Ephemeral BY PlaceFacts
<1> QED BY <1>1 DEF ReportInv, RecordInv

\* Whatever the graph, the selection, the number of threads and their
\* interleaving: a run that returns (execute_nodes) has a result for every
\* selected node, its exit code (interpret_results) tells of exactly the
\* failures that concern a relational node, and a run that stops at the first
\* failure does not return after one.
THEOREM FailureReportedCorrect == Spec => []FailureReported
<1>1. ASSUME IInv, ReportInv PROVE FailureReported
   <2> SUFFICES ASSUME pc = "done"
                PROVE  /\ \A n \in selected : outcome[n] \in Status /\ (n \notin Ephemeral => node_results[n] = <<outcome[n]>>)
                       /\ ExitsWithError <=>
                            \E n \in selected : /\ outcome[n] \in {"error", "fail"}
                                                /\ \/ n \notin Ephemeral
                                                   \/ (Descendants(edges, n) \cap selected) \ Ephemeral # {}
                       /\ args.fail_fast \/ raise_on_first_error => \A n \in Node : outcome[n] \notin {"error", "fail"}
      BY DEF FailureReported
   <2> DEFINE Failures == {"error", "fail", "skipped", "errorskip"}
   <2>1. \A n \in selected : outcome[n] \in Status /\ (n \notin Ephemeral => node_results[n] = <<outcome[n]>>)
      BY <1>1, AllRecorded
   <2>2. selected \subseteq Node BY <1>1 DEF IInv, TypeOK
   <2>3. ExitsWithError <=> \E n \in selected \ Ephemeral : outcome[n] \in Failures
      <3>1. ASSUME NEW n \in Node, NEW i \in DOMAIN node_results[n], node_results[n][i] \in Failures
            PROVE  n \in selected \ Ephemeral /\ outcome[n] \in Failures
         <4>1. n \in selected \ Ephemeral BY <1>1, <3>1, OthersNotRecorded, SMT
         <4> QED BY <2>1, <3>1, <4>1, SMT
      <3>2. ASSUME NEW n \in selected \ Ephemeral, outcome[n] \in Failures
            PROVE  1 \in DOMAIN node_results[n] /\ node_results[n][1] \in Failures
         BY <2>1, <3>2, SMT
      <3> QED BY <2>2, <3>1, <3>2 DEF ExitsWithError
   <2>4. ASSUME NEW n \in selected \ Ephemeral, outcome[n] \in {"skipped", "errorskip"}
         PROVE  \E m \in selected : outcome[m] = "error" /\ n \in Descendants(edges, m)
      BY <1>1, <2>2, <2>4 DEF ReportInv, CauseInv, BelowError
   <2>5. ASSUME NEW n \in selected, outcome[n] = "error", NEW d \in selected, d \in Descendants(edges, n)
         PROVE  outcome[d] \in {"skipped", "errorskip"}
      <3>1. d \in BelowError BY <2>2, <2>5 DEF BelowError
      <3> QED BY <1>1, <2>1, <2>2, <3>1, StatusFacts DEF ReportInv, CauseInv
   <2>6. ASSUME NEW n \in selected, outcome[n] = "fail" PROVE n \notin Ephemeral
      BY <1>1, <2>2, <2>6, TaskAssumption DEF ReportInv, TaskInv, Selectable
   <2>7. ExitsWithError =>
            \E n \in selected : /\ outcome[n] \in {"error", "fail"}
                                /\ n \notin Ephemeral \/ (Descendants(edges, n) \cap selected) \ Ephemeral # {}
      BY <2>3, <2>4
   <2>8. ASSUME NEW n \in selected, outcome[n] \in {"error", "fail"},
                n \notin Ephemeral \/ (Descendants(edges, n) \cap selected) \ Ephemeral # {}
         PROVE  ExitsWithError
      BY <2>3, <2>5, <2>6, <2>8
   <2>9. args.fail_fast \/ raise_on_first_error => \A n \in Node : outcome[n] \notin {"error", "fail"}
      BY <1>1 DEF ReportInv, EndInv, StashInv
   <2> QED BY <2>1, <2>7, <2>8, <2>9
<1> QED BY <1>1, Invariance, ReportInvariance, PTL
=============================================================================
