------------------------- MODULE Connections_proofs -------------------------
(***************************************************************************)
(* The connections of a run for any number of threads and nodes and any    *)
(* ending: no session leaks, the workers are waited for, and cancel_open   *)
(* reaches every session but its own.                                      *)
(***************************************************************************)
EXTENDS Connections, TLAPS

Query == {"BEGIN", "SQL", "COMMIT"}

TypeInv ==
    /\ conn \in [Thread -> Connection]
    /\ pc \in [Thread -> {"out", "insert", "in", "leave", "again"}]
    /\ todo \in [Thread -> Seq(Query)]
    /\ opening \in [Thread -> SUBSET Thread]
    /\ orphans \in Nat
    /\ stage \in {"before", "nodes", "after", "cancel", "join", "cleanup", "exit", "done"}
    /\ failed \in BOOLEAN /\ work \in Nat
    /\ lock \in BOOLEAN /\ visit \subseteq Thread /\ grown \in BOOLEAN /\ due \subseteq Thread

\* The run is not cut short, and cancel_open has not begun
Early == stage \in {"before", "nodes", "after"}
Calm == Early \/ (stage = "cancel" /\ pc[Main] \in {"out", "insert", "in"} /\ ~lock)

\* Where the main thread is, and when workers may be at work
StageInv ==
    /\ pc[Main] # "again"
    /\ pc[Main] # "out" => stage \in {"before", "cancel", "after"}
    /\ stage \in {"before", "after"} => Quiet /\ work = 0
    /\ stage \in {"cancel", "join"} => work = 0
    /\ (Cleaning /\ ~failed) => Quiet /\ work = 0
    /\ lock => (stage = "cancel" /\ pc[Main] = "in") \/ Cleaning

\* A connection is opened by its owner for a query, or by the main thread in
\* cancel_open, one at a time
OpeningInv ==
    /\ \A t \in Thread : \A p \in opening[t] :
         \/ p = t /\ todo[t] # <<>>
         \/ p = Main /\ stage = "cancel" /\ lock /\ todo[Main] = <<>>
    /\ \A o, p \in Thread : Main \in opening[o] /\ Main \in opening[p] => o = p

\* What the state of a Connection says of its session.  Until cancel_open
\* begins, nobody replaces a session while another one is being opened.
ThreadInv(t) ==
    /\ conn[t].handle = "live" => conn[t].state = "open"
    /\ conn[t].state = "open" => conn[t].handle \in {"live", "dead"}
    /\ pc[t] = "insert" => ~conn[t].known
    /\ todo[t] # <<>> => pc[t] = "in"
    /\ Early => /\ conn[t].state # "open" => ~conn[t].transaction_open
                /\ pc[t] = "in" => conn[t].known
                /\ conn[t].handle = "live" =>
                     /\ conn[t].known /\ pc[t] \notin {"out", "insert"}
                     /\ conn[t].transaction_open => conn[t].server = "tx"
    /\ (Calm /\ opening[t] # {}) => conn[t].handle = "lazy"

\* What cancel_open has still to cancel is open and before it in the loop
CancelInv ==
    /\ conn[Main].handle # "dead"
    /\ (stage = "cancel" /\ lock) =>
         /\ due \subseteq visit \ {Main}
         /\ \A o \in due : conn[o].known /\ conn[o].state = "open" /\ opening[o] = {}
    /\ (stage = "cancel" /\ pc[Main] = "leave" /\ ~failed) => due = {}
    /\ stage = "join" => due = {}

CInv ==
    /\ TypeInv /\ StageInv /\ OpeningInv /\ CancelInv
    /\ Early => orphans = 0
    /\ \A t \in Thread : ThreadInv(t)
-----------------------------------------------------------------------------
(* The operators on Connections and queries *)

LEMMA MainThread == Main \in Thread /\ Worker \subseteq Thread
BY DEF Thread

LEMMA FreshFacts ==
    /\ Fresh \in Connection /\ Fresh.state = "init" /\ Fresh.handle = "none"
    /\ ~Fresh.known /\ ~Fresh.transaction_open
BY DEF Fresh, Connection

LEMMA NamedFacts ==
    ASSUME NEW c \in Connection
    PROVE  /\ Named(c) \in Connection
           /\ Named(c).known = c.known /\ Named(c).state = c.state
           /\ Named(c).transaction_open = c.transaction_open /\ Named(c).server = c.server
           /\ Named(c).handle = IF c.state = "open" THEN c.handle ELSE "lazy"
BY DEF Named, Connection

LEMMA ExecutedFacts ==
    ASSUME NEW c \in Connection, NEW q \in Query, NEW b \in BOOLEAN
    PROVE  LET d == [Executed(c, q) EXCEPT !.transaction_open = b]
           IN /\ d \in Connection
              /\ d.known = c.known /\ d.state = c.state /\ d.handle = c.handle
              /\ d.transaction_open = b
              /\ q = "BEGIN" => d.server = "tx"
              /\ (q = "SQL" /\ c.server = "tx") => d.server = "tx"
BY DEF Executed, Connection, Query

LEMMA RollbackFacts ==
    ASSUME NEW c \in Connection
    PROVE  LET d == rollback_if_open(c)
           IN /\ d \in Connection
              /\ d.known = c.known /\ d.state = c.state /\ d.handle = c.handle
              /\ d.transaction_open => c.transaction_open /\ d.server = c.server
BY DEF rollback_if_open, RolledBack, Connection

LEMMA OpenedFacts ==
    ASSUME NEW c \in Connection
    PROVE  /\ Opened(c) \in Connection /\ Opened(c).known = c.known
           /\ Opened(c).state = "open" /\ Opened(c).handle = "live"
           /\ Opened(c).transaction_open = c.transaction_open
BY DEF Opened, Connection

LEMMA CloseFacts ==
    ASSUME NEW c \in Connection
    PROVE  LET d == close(c)
           IN /\ d \in Connection /\ d.known = c.known
              /\ d = c \/ (d.state = "closed" /\ d.handle \in {"none", "closed"} /\ ~d.transaction_open)
              /\ d = c => c.state \in {"closed", "init"}
BY DEF close, Connection

LEMMA QueueFacts ==
    /\ \A c, b : Queries(c, b) \in Seq(Query) /\ Queries(c, b) # <<>>
    /\ <<>> \in Seq(Query) /\ <<"COMMIT">> \in Seq(Query) /\ <<"BEGIN", "COMMIT">> \in Seq(Query)
    /\ \A s \in Seq(Query) : s # <<>> => Head(s) \in Query /\ Tail(s) \in Seq(Query)
<1>1. <<>> \in Seq(Query) /\ <<"COMMIT">> \in Seq(Query) /\ <<"BEGIN", "COMMIT">> \in Seq(Query)
   BY DEF Query
<1>2. <<"SQL">> \in Seq(Query) /\ <<"BEGIN", "SQL">> \in Seq(Query) BY DEF Query
<1>3. \A c, b : Queries(c, b) \in {<<"BEGIN", "SQL">>, <<"SQL">>} BY DEF Queries
<1>4. <<"SQL">> # <<>> /\ <<"BEGIN", "SQL">> # <<>> OBVIOUS
<1>5. \A s \in Seq(Query) : s # <<>> => Head(s) \in Query /\ Tail(s) \in Seq(Query) OBVIOUS
<1> QED BY <1>1, <1>2, <1>3, <1>4, <1>5
-----------------------------------------------------------------------------
USE DEF mainVars, loopVars

LEMMA InitCInv == Init => CInv
<1> SUFFICES ASSUME Init PROVE CInv OBVIOUS
<1> USE MainThread, FreshFacts DEF Init
<1>1. TypeInv BY ConnAssumption, QueueFacts DEF TypeInv
<1>2. StageInv BY DEF StageInv, Quiet, Cleaning
<1>3. CancelInv BY DEF CancelInv
<1>4. ASSUME NEW t \in Thread PROVE ThreadInv(t) BY DEF ThreadInv
<1>5. OpeningInv BY DEF OpeningInv
<1> QED BY <1>1, <1>2, <1>3, <1>4, <1>5 DEF CInv

Same(q) ==
    conn'[q] = conn[q] /\ pc'[q] = pc[q] /\ todo'[q] = todo[q] /\ opening'[q] = opening[q]

\* A step that touches one thread, and does not go back to an earlier stage
LEMMA Assemble ==
    ASSUME CInv, NEW o \in Thread, TypeInv', Early' => Early, Calm' => Calm,
           StageInv', OpeningInv', CancelInv', Early' => orphans' = 0,
           ThreadInv(o)', \A q \in Thread \ {o} : Same(q)
    PROVE  CInv'
<1>1. ASSUME NEW q \in Thread \ {o} PROVE ThreadInv(q)'
   BY DEF CInv, ThreadInv, Same
<1> QED BY <1>1 DEF CInv

\* connection_named begins
LEMMA SetNameStep == ASSUME CInv, NEW t \in Thread, set_connection_name(t) PROVE CInv'
<1> USE MainThread DEF CInv
<1>0. /\ conn' = [conn EXCEPT ![t] = IF @.known THEN Named(@) ELSE @]
      /\ pc[t] = "out" /\ pc' = [pc EXCEPT ![t] = IF conn[t].known THEN "in" ELSE "insert"]
      /\ Wants(t) /\ CanLock(t) /\ work' = (IF t = Main THEN work ELSE work - 1)
      /\ UNCHANGED <<todo, opening, orphans, stage, failed, lock, visit, grown, due>>
   BY DEF set_connection_name
<1>1. conn[t] \in Connection /\ conn'[t] = (IF conn[t].known THEN Named(conn[t]) ELSE conn[t])
   BY <1>0 DEF TypeInv
<1>2. TypeInv' BY <1>0, <1>1, NamedFacts DEF TypeInv, Wants
<1>3. (Early' <=> Early) /\ (Calm' => Calm) BY <1>0 DEF Early, Calm, TypeInv
<1>4. StageInv'
  <2>1. CASE t = Main
    <3>1. Quiet' <=> Quiet BY <1>0, <2>1, ConnAssumption DEF Quiet, TypeInv
    <3> QED BY <1>0, <2>1, <3>1 DEF StageInv, TypeInv, Cleaning, Wants
  <2>2. CASE t # Main
    <3>1. work > 0 /\ pc'[Main] = pc[Main] BY <1>0, <2>2 DEF Wants, TypeInv
    <3> QED BY <1>0, <3>1 DEF StageInv, TypeInv, Cleaning
  <2> QED BY <2>1, <2>2
<1>5. ThreadInv(t)' BY <1>0, <1>1, <1>3, NamedFacts DEF ThreadInv, TypeInv
<1>6. CancelInv' BY <1>0, <1>1, NamedFacts DEF CancelInv, TypeInv, ThreadInv, StageInv
<1>10. OpeningInv' BY <1>0 DEF OpeningInv
<1> QED BY <1>0, <1>2, <1>3, <1>4, <1>5, <1>6, <1>10, Assemble DEF Same, TypeInv

\* A step that leaves the stage alone and starts no worker
LEMMA StageKept ==
    ASSUME CInv, UNCHANGED <<stage, work>>, failed => failed', lock' => lock, Quiet => Quiet',
           pc'[Main] # "again", pc'[Main] # "out" => pc[Main] # "out",
           (lock' /\ stage = "cancel") => pc'[Main] = "in"
    PROVE  StageInv'
BY DEF CInv, StageInv, Cleaning

\* A thread that is not out stays so
LEMMA QuietKept ==
    ASSUME TypeInv, NEW t \in Thread, pc[t] # "out", \A q \in Thread \ {t} : pc'[q] = pc[q]
    PROVE  Quiet => Quiet'
BY MainThread DEF Quiet

\* A step that closes nothing that cancel_open has still to cancel
LEMMA CancelKept ==
    ASSUME CInv, UNCHANGED <<stage, visit>>, due' \subseteq due, lock' => lock, failed => failed',
           conn'[Main].handle # "dead",
           (stage = "cancel" /\ lock) => \A o \in due' : /\ conn'[o].known = conn[o].known
                                                         /\ conn'[o].state = conn[o].state
                                                         /\ opening'[o] = opening[o],
           (stage = "cancel" /\ pc'[Main] = "leave") => pc[Main] = "leave" \/ failed'
    PROVE  CancelInv'
BY DEF CInv, CancelInv

LEMMA SetThreadStep == ASSUME CInv, NEW t \in Thread, set_thread_connection(t) PROVE CInv'
<1> USE MainThread DEF CInv
<1> DEFINE new == [Named(Fresh) EXCEPT !.known = TRUE]
<1>0. /\ conn' = [conn EXCEPT ![t] = new]
      /\ pc[t] = "insert" /\ pc' = [pc EXCEPT ![t] = "in"]
      /\ orphans' = (IF conn[t].handle = "live" THEN orphans + 1 ELSE orphans)
      /\ grown' = (grown \/ lock)
      /\ UNCHANGED <<todo, opening, stage, failed, work, lock, visit, due>>
   BY DEF set_thread_connection
<1>1. /\ new \in Connection /\ new.known /\ new.state = "init" /\ new.handle = "lazy"
      /\ ~new.transaction_open
   BY DEF Named, Fresh, Connection
<1>2. conn'[t] = new /\ pc'[t] = "in" BY <1>0 DEF TypeInv
<1> HIDE DEF new
<1>3. TypeInv' BY <1>0, <1>1 DEF TypeInv
<1>4. (Early' <=> Early) /\ (Calm' => Calm) BY <1>0 DEF Early, Calm, TypeInv
<1>5. Quiet => Quiet' BY <1>0, QuietKept DEF TypeInv
<1>6. StageInv'
  <2>1. /\ pc'[Main] # "again" /\ (pc'[Main] # "out" => pc[Main] # "out")
        /\ (lock /\ stage = "cancel") => pc'[Main] = "in"
     BY <1>0 DEF TypeInv, StageInv, Cleaning
  <2> QED BY <1>0, <1>5, <2>1, StageKept
<1>7. ThreadInv(t)' BY <1>0, <1>1, <1>2, <1>4 DEF ThreadInv
<1>8. CancelInv'
  <2>1. ASSUME stage = "cancel", lock PROVE t \notin due BY <1>0, <2>1 DEF CancelInv, ThreadInv
  <2>2. conn'[Main].handle # "dead" BY <1>0, <1>1, <1>2 DEF CancelInv, TypeInv
  <2> QED BY <1>0, <2>1, <2>2, CancelKept DEF TypeInv
<1>9. Early' => orphans' = 0 BY <1>0, <1>4 DEF ThreadInv
<1>10. OpeningInv' BY <1>0 DEF OpeningInv
<1> QED BY <1>0, <1>3, <1>4, <1>6, <1>7, <1>8, <1>9, <1>10, Assemble DEF Same, TypeInv

\* execute, commit and the end of the with block change no Connection
LEMMA IdleStep ==
    ASSUME CInv, NEW t \in Thread, commit(t) \/ Leave(t) \/ \E b \in BOOLEAN : execute(t, b)
    PROVE  CInv'
<1> USE MainThread DEF CInv
<1>0. /\ pc[t] = "in" /\ todo[t] = <<>> /\ CanLock(t) /\ (t = Main => stage # "cancel")
      /\ failed' = (failed \/ (failed' /\ t = Main))
      /\ UNCHANGED <<conn, opening, orphans, stage, work, lock, visit, grown, due>>
   BY DEF commit, Leave, execute, Idle, Raises, TypeInv
<1>1. \/ /\ pc' = [pc EXCEPT ![t] = "leave"] /\ todo'[t] = <<>>
      \/ pc' = pc
   BY <1>0 DEF commit, Leave, execute, Raises, TypeInv
<1>2. \E s \in Seq(Query) : todo' = [todo EXCEPT ![t] = s]
  <2>1. todo = [todo EXCEPT ![t] = todo[t]] /\ todo[t] \in Seq(Query) BY DEF TypeInv
  <2> QED BY <2>1, QueueFacts DEF commit, Leave, execute, Raises
<1>3. TypeInv'
  <2>1. failed' \in BOOLEAN BY DEF commit, Leave, execute, Raises, TypeInv
  <2> QED BY <1>0, <1>1, <1>2, <2>1 DEF TypeInv
<1>4. (Early' <=> Early) /\ (Calm' => Calm) BY <1>0, <1>1 DEF Early, Calm, TypeInv
<1>5. Quiet => Quiet' BY <1>0, <1>1, QuietKept DEF TypeInv
<1>6. StageInv' BY <1>0, <1>1, <1>5, StageKept DEF TypeInv, StageInv, CanLock
<1>7. ThreadInv(t)' BY <1>0, <1>1, <1>4 DEF ThreadInv, TypeInv
<1>8. CancelInv' BY <1>0, <1>1 DEF CancelInv, TypeInv
<1>10. OpeningInv' BY <1>0, <1>2 DEF OpeningInv, TypeInv
<1> QED BY <1>0, <1>1, <1>2, <1>3, <1>4, <1>6, <1>7, <1>8, <1>10, Assemble DEF Same, TypeInv

\* A statement ends, with or without an error
LEMMA QueryReturnsStep == ASSUME CInv, NEW t \in Thread, QueryReturns(t) PROVE CInv'
<1> USE MainThread DEF CInv
<1> DEFINE q == Head(todo[t])
           b == CASE q = "BEGIN" -> TRUE [] q = "COMMIT" -> FALSE [] OTHER -> conn[t].transaction_open
           d == [Executed(conn[t], q) EXCEPT !.transaction_open = b]
<1>0. /\ todo[t] # <<>> /\ conn[t].handle = "live" /\ t \notin opening[t]
      /\ todo' = [todo EXCEPT ![t] = Tail(@)]
      /\ UNCHANGED <<pc, opening, orphans, stage, failed, work, lock, visit, grown, due>>
   BY DEF QueryReturns
<1>1. conn[t] \in Connection /\ q \in Query /\ Tail(todo[t]) \in Seq(Query)
   BY <1>0, QueueFacts DEF TypeInv
<1>2. b \in BOOLEAN /\ (q = "COMMIT" => ~b) /\ (q = "SQL" => b = conn[t].transaction_open)
   BY <1>1 DEF Connection
<1>3. conn' = [conn EXCEPT ![t] = d] BY DEF QueryReturns
<1> HIDE DEF b, q
<1>4. /\ d \in Connection /\ d.known = conn[t].known /\ d.state = conn[t].state
      /\ d.handle = conn[t].handle /\ d.transaction_open = b
      /\ (conn[t].transaction_open => conn[t].server = "tx") => (d.transaction_open => d.server = "tx")
  <2>1. /\ d \in Connection /\ d.known = conn[t].known /\ d.state = conn[t].state
        /\ d.handle = conn[t].handle /\ d.transaction_open = b
        /\ q = "BEGIN" => d.server = "tx"
        /\ (q = "SQL" /\ conn[t].server = "tx") => d.server = "tx"
     BY <1>1, <1>2, ExecutedFacts
  <2> QED BY <1>1, <1>2, <2>1 DEF Query
<1> HIDE DEF d
<1>5. conn'[t] = d BY <1>3 DEF TypeInv
<1>6. TypeInv' BY <1>0, <1>1, <1>3, <1>4 DEF TypeInv
<1>7. (Early' <=> Early) /\ (Calm' <=> Calm) BY <1>0 DEF Early, Calm
<1>8. StageInv' BY <1>0 DEF StageInv, Quiet, Cleaning
<1>9. ThreadInv(t)' BY <1>0, <1>4, <1>5, <1>6, <1>7 DEF ThreadInv, TypeInv
<1>10. CancelInv' BY <1>0, <1>3, <1>4, <1>5, CancelKept DEF TypeInv, CancelInv
<1>11. OpeningInv' BY <1>0 DEF OpeningInv, TypeInv
<1> QED BY <1>0, <1>3, <1>6, <1>7, <1>8, <1>9, <1>10, <1>11, Assemble DEF Same, TypeInv

LEMMA QueryFailsStep == ASSUME CInv, NEW t \in Thread, QueryFails(t) PROVE CInv'
<1> USE MainThread DEF CInv
<1> DEFINE d == rollback_if_open(conn[t])
<1>0. /\ todo[t] # <<>> /\ conn[t].handle # "lazy" /\ t \notin opening[t]
      /\ conn' = [conn EXCEPT ![t] = d]
      /\ pc' = [pc EXCEPT ![t] = "leave"] /\ todo' = [todo EXCEPT ![t] = <<>>]
      /\ failed' = (failed \/ t = Main) /\ lock' = (lock /\ t # Main)
      /\ UNCHANGED <<opening, orphans, stage, work, visit, grown, due>>
   BY DEF QueryFails, Raises
<1>1. /\ d \in Connection /\ d.known = conn[t].known /\ d.state = conn[t].state
      /\ d.handle = conn[t].handle
      /\ d.transaction_open => conn[t].transaction_open /\ d.server = conn[t].server
   BY RollbackFacts DEF TypeInv
<1> HIDE DEF d
<1>2. conn'[t] = d /\ pc[t] = "in" /\ pc'[t] = "leave" BY <1>0 DEF TypeInv, ThreadInv
<1>3. TypeInv' BY <1>0, <1>1, QueueFacts DEF TypeInv
<1>4. (Early' <=> Early) /\ (Calm' => Calm) BY <1>0, <1>2 DEF Early, Calm, TypeInv
<1>5. Quiet => Quiet' BY <1>0, <1>2, QuietKept DEF TypeInv
<1>6. StageInv'
  <2>1. /\ pc'[Main] # "again" /\ (pc'[Main] # "out" => pc[Main] # "out")
        /\ (lock' /\ stage = "cancel") => pc'[Main] = "in"
     BY <1>0, <1>2 DEF TypeInv, StageInv, Cleaning
  <2> QED BY <1>0, <1>5, <2>1, StageKept
<1>7. ThreadInv(t)' BY <1>0, <1>1, <1>2, <1>4 DEF ThreadInv, TypeInv
<1>8. CancelInv' BY <1>0, <1>1, <1>2, CancelKept DEF TypeInv, CancelInv
<1>10. OpeningInv' BY <1>0 DEF OpeningInv, TypeInv
<1> QED BY <1>0, <1>3, <1>4, <1>6, <1>7, <1>8, <1>10, Assemble DEF Same, TypeInv

LEMMA ClearStep == ASSUME CInv, clear_transaction PROVE CInv'
<1> USE MainThread DEF CInv
<1> DEFINE d == rollback_if_open(conn[Main])
<1>0. /\ pc[Main] = "in" /\ todo[Main] = <<>> /\ stage # "cancel"
      /\ conn' = [conn EXCEPT ![Main] = d] /\ todo' = [todo EXCEPT ![Main] = <<"BEGIN", "COMMIT">>]
      /\ UNCHANGED <<pc, opening, orphans, stage, failed, work, lock, visit, grown, due>>
   BY DEF clear_transaction, Idle
<1>1. /\ d \in Connection /\ d.known = conn[Main].known /\ d.state = conn[Main].state
      /\ d.handle = conn[Main].handle
      /\ d.transaction_open => conn[Main].transaction_open /\ d.server = conn[Main].server
   BY RollbackFacts DEF TypeInv
<1> HIDE DEF d
<1>2. conn'[Main] = d BY <1>0 DEF TypeInv
<1>3. TypeInv' BY <1>0, <1>1, QueueFacts DEF TypeInv
<1>4. (Early' <=> Early) /\ (Calm' <=> Calm) BY <1>0 DEF Early, Calm
<1>6. StageInv' BY <1>0 DEF StageInv, Quiet, Cleaning
<1>7. ThreadInv(Main)' BY <1>0, <1>1, <1>2, <1>4 DEF ThreadInv, TypeInv
<1>8. CancelInv' BY <1>0, <1>1, <1>2, CancelKept DEF TypeInv, CancelInv
<1>10. OpeningInv' BY <1>0 DEF OpeningInv, TypeInv
<1> QED BY <1>0, <1>3, <1>4, <1>6, <1>7, <1>8, <1>10, Assemble DEF Same, TypeInv
-----------------------------------------------------------------------------
(* Opening a lazy handle *)

\* Until cancel_open begins the owner of a connection is the only one to open it
LEMMA CalmOpens ==
    ASSUME CInv, Calm, NEW o \in Thread, NEW p \in opening[o]
    PROVE  p = o /\ todo[o] # <<>> /\ pc[o] = "in" /\ conn[o].handle = "lazy" /\ opening[o] = {o}
<1>1. ~(stage = "cancel" /\ lock) BY DEF Calm, Early
<1>2. \A q \in opening[o] : q = o /\ todo[o] # <<>> BY <1>1 DEF CInv, OpeningInv
<1> QED BY <1>2 DEF CInv, ThreadInv

LEMMA StartOpenStep ==
    ASSUME CInv, NEW t \in Thread, NEW o \in Thread, StartOpen(t, o) PROVE CInv'
<1> USE MainThread DEF CInv
<1>0. /\ conn[o].handle = "lazy" /\ \A p \in Thread : t \notin opening[p]
      /\ \/ t = o /\ todo[t] # <<>>
         \/ t = Main /\ o # Main /\ stage = "cancel" /\ lock /\ todo[t] = <<>>
      /\ opening' = [opening EXCEPT ![o] = @ \cup {t}]
      /\ UNCHANGED <<conn, pc, todo, orphans, stage, failed, work, lock, visit, grown, due>>
   BY DEF StartOpen, Resolves
<1>1. TypeInv' BY <1>0 DEF TypeInv
<1>2. (Early' <=> Early) /\ (Calm' <=> Calm) BY <1>0 DEF Early, Calm
<1>3. StageInv' BY <1>0 DEF StageInv, Quiet, Cleaning
<1>4. OpeningInv' BY <1>0 DEF OpeningInv, TypeInv
<1>5. ThreadInv(o)' BY <1>0, <1>2 DEF ThreadInv
<1>6. (stage = "cancel" /\ lock) => o \notin due BY <1>0 DEF CancelInv, ThreadInv
<1>7. CancelInv' BY <1>0, <1>6, CancelKept DEF TypeInv, CancelInv
<1> QED BY <1>0, <1>1, <1>2, <1>3, <1>4, <1>5, <1>7, Assemble DEF Same, TypeInv

LEMMA FinishOpenStep ==
    ASSUME CInv, NEW t \in Thread, NEW o \in Thread, FinishOpen(t, o) PROVE CInv'
<1> USE MainThread DEF CInv
<1>0. /\ t \in opening[o]
      /\ opening' = [opening EXCEPT ![o] = @ \ {t}]
      /\ conn' = [conn EXCEPT ![o] = Opened(@)]
      /\ orphans' = (IF conn[o].handle = "live" THEN orphans + 1 ELSE orphans)
      /\ UNCHANGED <<pc, todo, stage, failed, work, lock, visit, grown, due>>
   BY DEF FinishOpen
<1>1. /\ conn'[o] \in Connection /\ conn'[o].known = conn[o].known
      /\ conn'[o].state = "open" /\ conn'[o].handle = "live"
      /\ conn'[o].transaction_open = conn[o].transaction_open
   BY <1>0, OpenedFacts DEF TypeInv
<1>2. TypeInv' BY <1>0, OpenedFacts DEF TypeInv
<1>3. (Early' <=> Early) /\ (Calm' <=> Calm) /\ (Early => Calm) BY <1>0 DEF Early, Calm
<1>4. StageInv' BY <1>0 DEF StageInv, Quiet, Cleaning
<1>5. OpeningInv' BY <1>0 DEF OpeningInv, TypeInv
<1>6. Calm => pc[o] = "in" /\ conn[o].handle = "lazy" /\ opening'[o] = {}
   BY <1>0, CalmOpens DEF TypeInv
<1>7. ThreadInv(o)' BY <1>0, <1>1, <1>3, <1>6 DEF ThreadInv
<1>8. (stage = "cancel" /\ lock) => o \notin due BY <1>0 DEF CancelInv
<1>9. CancelInv' BY <1>0, <1>1, <1>8, CancelKept DEF TypeInv, CancelInv
<1>10. Early' => orphans' = 0 BY <1>0, <1>3, <1>6
<1> QED BY <1>0, <1>2, <1>3, <1>4, <1>5, <1>7, <1>9, <1>10, Assemble DEF Same, TypeInv

LEMMA FailOpenStep ==
    ASSUME CInv, NEW t \in Thread, NEW o \in Thread, FailOpen(t, o) PROVE CInv'
<1> USE MainThread DEF CInv
<1> DEFINE d == [conn[o] EXCEPT !.state = "fail", !.handle = "none"]
<1>0. /\ t \in opening[o]
      /\ opening' = [opening EXCEPT ![o] = @ \ {t}]
      /\ conn' = [conn EXCEPT ![o] = d]
      /\ orphans' = (IF conn[o].handle = "live" THEN orphans + 1 ELSE orphans)
      /\ pc' = [pc EXCEPT ![t] = "leave"] /\ todo' = [todo EXCEPT ![t] = <<>>]
      /\ failed' = (failed \/ t = Main) /\ lock' = (lock /\ t # Main)
      /\ UNCHANGED <<stage, work, visit, grown, due>>
   BY DEF FailOpen, Raises
<1>1. /\ d \in Connection /\ d.known = conn[o].known /\ d.transaction_open = conn[o].transaction_open
      /\ d.state = "fail" /\ d.handle = "none"
  <2>1. conn[o] \in Connection BY DEF TypeInv
  <2> HIDE DEF CInv
  <2> QED BY <2>1 DEF Connection
<1> HIDE DEF d
<1>2. conn'[o] = d /\ pc'[t] = "leave" /\ todo'[t] = <<>> BY <1>0 DEF TypeInv
<1>3. TypeInv' BY <1>0, <1>1, QueueFacts DEF TypeInv
<1>4. pc[t] = "in" BY <1>0 DEF OpeningInv, ThreadInv, StageInv, Cleaning
<1>5. (Early' <=> Early) /\ (Calm' => Calm) /\ (Early => Calm)
   BY <1>0, <1>4 DEF Early, Calm, TypeInv
<1>6. Calm => t = o /\ conn[o].handle = "lazy" /\ opening'[o] = {} BY <1>0, CalmOpens DEF TypeInv
<1>7. Quiet => Quiet' BY <1>0, <1>4, QuietKept DEF TypeInv
<1>8. StageInv'
  <2>1. /\ pc'[Main] # "again" /\ (pc'[Main] # "out" => pc[Main] # "out")
        /\ (lock' /\ stage = "cancel") => pc'[Main] = "in"
     BY <1>0, <1>4 DEF TypeInv, StageInv, Cleaning
  <2> QED BY <1>0, <1>7, <2>1, StageKept
<1>9. OpeningInv' BY <1>0 DEF OpeningInv, TypeInv
<1>10. ThreadInv(o)' BY <1>0, <1>1, <1>2, <1>5, <1>6 DEF ThreadInv, TypeInv
<1>11. ThreadInv(t)'
  <2>1. CASE t = o BY <2>1, <1>10
  <2>2. CASE t # o
    <3>1. ~Calm' /\ ~Early' BY <1>5, <1>6, <2>2
    <3>2. conn'[t] = conn[t] BY <1>0, <2>2 DEF TypeInv
    <3> QED BY <1>2, <3>1, <3>2 DEF ThreadInv
  <2> QED BY <2>1, <2>2
<1>12. ASSUME NEW q \in Thread \ {t, o} PROVE ThreadInv(q)'
  <2>1. Same(q) BY <1>0 DEF Same, TypeInv
  <2> QED BY <1>5, <2>1 DEF ThreadInv, Same
<1>13. (stage = "cancel" /\ lock) => o \notin due BY <1>0 DEF CancelInv
<1>14. CancelInv' BY <1>0, <1>1, <1>2, <1>13, CancelKept DEF TypeInv, CancelInv
<1>15. Early' => orphans' = 0 BY <1>0, <1>5, <1>6
<1> QED BY <1>3, <1>8, <1>9, <1>10, <1>11, <1>12, <1>14, <1>15
-----------------------------------------------------------------------------
(* Giving a connection back *)

\* A thread that is leaving opens nothing, and what it gives back is not live
LEMMA Released ==
    ASSUME CInv, NEW t \in Thread, pc[t] \in {"leave", "again"}, Early' => Early, Calm' => Calm,
           pc'[t] \in {"out", "again"}, todo'[t] = todo[t], opening'[t] = opening[t],
           \/ conn[t].known /\ conn'[t] = close(conn[t])
           \/ ~conn[t].known /\ conn'[t] = conn[t]
           \/ conn'[t] = Fresh
    PROVE  ThreadInv(t)'
<1> USE DEF CInv
<1>1. conn[t] \in Connection BY DEF TypeInv
<1>2. todo[t] = <<>> BY DEF ThreadInv
<1>3. Calm => opening[t] = {} BY CalmOpens
<1>4. CASE conn'[t] = Fresh BY <1>2, <1>3, <1>4, FreshFacts DEF ThreadInv
<1>5. CASE ~conn[t].known /\ conn'[t] = conn[t] BY <1>2, <1>3, <1>5 DEF ThreadInv
<1>6. CASE conn[t].known /\ conn'[t] = close(conn[t])
  <2>1. CASE conn'[t] = conn[t]
    <3>1. conn[t].state \in {"closed", "init"}
      <4>1. close(conn[t]) = conn[t] BY <1>6, <2>1
      <4> HIDE DEF CInv
      <4> QED BY <1>1, <4>1, CloseFacts
    <3> QED BY <1>2, <1>3, <2>1, <3>1 DEF ThreadInv
  <2>2. CASE conn'[t] # conn[t]
    <3>1. conn'[t].state = "closed" /\ conn'[t].handle \in {"none", "closed"} /\ ~conn'[t].transaction_open
       BY <1>1, <1>6, <2>2, CloseFacts
    <3> QED BY <1>2, <1>3, <3>1 DEF ThreadInv
  <2> QED BY <2>1, <2>2
<1> QED BY <1>4, <1>5, <1>6

\* What release and ReleaseFails do for a worker
LEMMA WorkerReleases ==
    ASSUME CInv, NEW t \in Thread \ {Main}, pc[t] \in {"leave", "again"}, TypeInv',
           pc' = [pc EXCEPT ![t] = AfterRelease(t)], due' = due \ {t},
           \A q \in Thread \ {t} : conn'[q] = conn[q],
           \/ conn[t].known /\ conn'[t] = close(conn[t])
           \/ ~conn[t].known /\ conn'[t] = conn[t]
           \/ conn'[t] = Fresh,
           UNCHANGED <<todo, opening, orphans, stage, failed, work, lock, visit, grown>>
    PROVE  CInv'
<1> USE MainThread DEF CInv
<1>1. pc'[t] \in {"out", "again"} /\ \A q \in Thread \ {t} : pc'[q] = pc[q]
   BY DEF TypeInv, AfterRelease
<1>2. (Early' <=> Early) /\ (Calm' <=> Calm) BY <1>1 DEF Early, Calm
<1>3. ThreadInv(t)' BY <1>1, <1>2, Released
<1>4. Quiet => Quiet' BY <1>1, QuietKept
<1>5. StageInv' BY <1>1, <1>4 DEF StageInv, Cleaning
<1>6. OpeningInv' BY DEF OpeningInv
<1>7. CancelInv' BY <1>1, CancelKept DEF CancelInv, TypeInv
<1> QED BY <1>1, <1>2, <1>3, <1>5, <1>6, <1>7, Assemble DEF Same

\* ... and for the main thread, which goes on to the next stage
LEMMA MainReleases ==
    ASSUME CInv, pc[Main] \in {"leave", "again"}, TypeInv',
           pc' = [pc EXCEPT ![Main] = AfterRelease(Main)], due' = due \ {Main},
           \A q \in Thread \ {Main} : conn'[q] = conn[q],
           \/ conn[Main].known /\ conn'[Main] = close(conn[Main])
           \/ ~conn[Main].known /\ conn'[Main] = conn[Main]
           \/ conn'[Main] = Fresh,
           failed => failed', stage' = IF failed' THEN "cleanup" ELSE NextStage,
           stage' # "nodes" => work' = work,
           UNCHANGED <<todo, opening, orphans, lock, visit, grown>>
    PROVE  CInv'
<1> USE MainThread DEF CInv
<1>1. pc'[Main] = "out" /\ \A q \in Thread \ {Main} : pc'[q] = pc[q] BY DEF TypeInv, AfterRelease
<1>2. stage \in {"before", "cancel", "after"} /\ ~lock BY DEF StageInv, Cleaning
<1>3. /\ stage' \in {"nodes", "join", "cleanup"}
      /\ stage' = "nodes" => stage = "before"
      /\ stage' = "join" => stage = "cancel" /\ ~failed
      /\ (stage' = "cleanup" /\ ~failed') => stage = "after"
   BY <1>2 DEF NextStage, TypeInv
<1>4. (Early' => Early) /\ (Calm' => Calm) BY <1>3 DEF Early, Calm
<1>5. ThreadInv(Main)' BY <1>1, <1>4, Released
<1>6. Quiet' <=> Quiet BY <1>1, ConnAssumption DEF Quiet
<1>7. StageInv' BY <1>1, <1>2, <1>3, <1>6 DEF StageInv, Cleaning
<1>8. OpeningInv' BY <1>2 DEF OpeningInv
<1>9. conn'[Main].handle # "dead"
  <2>1. conn[Main] \in Connection /\ conn[Main].handle # "dead" BY DEF CancelInv, TypeInv
  <2> HIDE DEF CInv
  <2>2. close(conn[Main]).handle # "dead" BY <2>1, CloseFacts
  <2>3. Fresh.handle # "dead" BY FreshFacts
  <2> QED BY <2>1, <2>2, <2>3
<1>10. CancelInv' BY <1>2, <1>3, <1>9 DEF CancelInv, StageInv
<1> QED BY <1>1, <1>4, <1>5, <1>7, <1>8, <1>10, Assemble DEF Same

LEMMA ReleaseStep == ASSUME CInv, NEW t \in Thread, release(t) \/ ReleaseFails(t) PROVE CInv'
<1> USE MainThread
<1>1. TypeInv BY DEF CInv
<1>2. CASE release(t)
  <2>1. TypeInv'
     BY <1>1, <1>2, CloseFacts, ConnAssumption DEF release, TypeInv, AfterRelease, NextStage
  <2>2. /\ \A q \in Thread \ {t} : conn'[q] = conn[q]
        /\ conn'[t] = (IF conn[t].known THEN close(conn[t]) ELSE conn[t])
     BY <1>1, <1>2 DEF release, TypeInv
  <2>3. CASE t = Main
    <3>1. stage' = NextStage /\ failed' = failed BY <1>2, <2>3 DEF release
    <3>2. stage' = IF failed' THEN "cleanup" ELSE NextStage
       BY <1>1, <3>1 DEF NextStage, TypeInv
    <3> QED BY <1>2, <2>1, <2>2, <2>3, <3>1, <3>2, MainReleases DEF release
  <2>4. CASE t # Main
     BY <1>1, <1>2, <2>1, <2>2, <2>4, WorkerReleases DEF release, TypeInv
  <2> QED BY <2>3, <2>4
<1>3. CASE ReleaseFails(t)
  <2>1. TypeInv' BY <1>1, <1>3, FreshFacts DEF ReleaseFails, TypeInv, AfterRelease
  <2>2. (\A q \in Thread \ {t} : conn'[q] = conn[q]) /\ conn'[t] = Fresh
     BY <1>1, <1>3 DEF ReleaseFails, TypeInv
  <2>3. CASE t = Main BY <1>3, <2>1, <2>2, <2>3, MainReleases DEF ReleaseFails
  <2>4. CASE t # Main BY <1>1, <1>3, <2>1, <2>2, <2>4, WorkerReleases DEF ReleaseFails, TypeInv
  <2> QED BY <2>3, <2>4
<1> QED BY <1>2, <1>3
-----------------------------------------------------------------------------
(* The main thread *)

\* A step of the main thread between two stages
LEMMA StageStep == ASSUME CInv, Finish \/ Terminate \/ RunQueueRaises \/ Join PROVE CInv'
<1> USE MainThread DEF CInv
<1>0. /\ UNCHANGED <<conn, pc, todo, opening, orphans, lock, visit, grown, due>>
      /\ \/ stage = "nodes" /\ stage' = "after" /\ Quiet /\ work = 0 /\ UNCHANGED <<failed, work>>
         \/ stage = "nodes" /\ stage' = "cancel" /\ work' = 0 /\ UNCHANGED failed
         \/ stage = "nodes" /\ stage' = "cleanup" /\ failed' = TRUE /\ UNCHANGED work
         \/ stage = "join" /\ stage' = "cleanup" /\ Quiet /\ UNCHANGED <<failed, work>>
   BY DEF Finish, Terminate, RunQueueRaises, Join
<1>1. pc[Main] = "out" /\ ~lock BY <1>0 DEF StageInv, Cleaning
<1>2. TypeInv'
  <2>1. work' \in Nat BY <1>0 DEF TypeInv
  <2>3. failed \in BOOLEAN BY DEF TypeInv
  <2>4. failed' = failed \/ failed' = TRUE BY <1>0, Zenon
  <2>5. failed' \in BOOLEAN BY <2>3, <2>4, Zenon
  <2>2. stage' \in {"after", "cancel", "cleanup"} BY <1>0
  <2> QED BY <1>0, <2>1, <2>2, <2>5 DEF TypeInv
<1>3. (Early' => Early) /\ (Calm' => Calm) BY <1>0 DEF Early, Calm
<1>4. Quiet' <=> Quiet BY <1>0 DEF Quiet
<1>5. StageInv' BY <1>0, <1>1, <1>4 DEF StageInv, Cleaning
<1>6. OpeningInv' BY <1>0, <1>1 DEF OpeningInv
<1>7. CancelInv' BY <1>0, <1>1 DEF CancelInv
<1>8. ThreadInv(Main)' BY <1>0, <1>3 DEF ThreadInv
<1> QED BY <1>0, <1>2, <1>3, <1>5, <1>6, <1>7, <1>8, Assemble DEF Same

\* When cancel_open takes the lock, every open session is at rest
LEMMA CancelOpenStep == ASSUME CInv, cancel_open PROVE CInv'
<1> USE MainThread DEF CInv
<1>0. /\ stage = "cancel" /\ pc[Main] = "in" /\ ~lock
      /\ lock' = TRUE /\ visit' = KnownThreads /\ grown' = FALSE
      /\ due' = {t \in KnownThreads \ {Main} : conn[t].state = "open"}
      /\ UNCHANGED <<conn, pc, todo, opening, orphans, stage, failed, work>>
   BY DEF cancel_open
<1>1. Calm /\ ~Early' /\ ~Calm' BY <1>0 DEF Early, Calm
<1>2. TypeInv' BY <1>0 DEF TypeInv, KnownThreads
<1>3. StageInv' BY <1>0 DEF StageInv, Cleaning, Quiet
<1>4. OpeningInv' BY <1>0 DEF OpeningInv
<1>5. \A o \in due' : conn[o].known /\ conn[o].state = "open" /\ opening[o] = {}
   BY <1>0, <1>1 DEF KnownThreads, ThreadInv
<1>6. CancelInv' BY <1>0, <1>5 DEF CancelInv, KnownThreads
<1>7. ThreadInv(Main)' BY <1>0, <1>1 DEF ThreadInv
<1> QED BY <1>0, <1>1, <1>2, <1>3, <1>4, <1>6, <1>7, Assemble DEF Same

LEMMA CancelsStep ==
    ASSUME CInv, NEW o \in Thread, CancelSkips(o) \/ Cancels(o)
    PROVE  CInv'
<1> USE MainThread DEF CInv
<1>1. CASE CancelSkips(o)
  <2>0. /\ InCancel /\ o \in visit /\ visit' = visit \ {o}
        /\ o = Main \/ conn[o].state # "open"
        /\ UNCHANGED <<conn, pc, todo, opening, orphans, stage, failed, work, lock, grown, due>>
     BY <1>1 DEF CancelSkips
  <2>1. (Early' <=> Early) /\ (Calm' <=> Calm) BY <2>0 DEF Early, Calm
  <2>2. TypeInv' BY <2>0 DEF TypeInv
  <2>3. StageInv' BY <2>0 DEF StageInv, Cleaning, Quiet
  <2>4. OpeningInv' BY <2>0 DEF OpeningInv
  <2>5. o \notin due BY <2>0 DEF CancelInv, InCancel
  <2>6. CancelInv' BY <2>0, <2>5 DEF CancelInv, InCancel
  <2>7. ThreadInv(o)' BY <2>0, <2>1 DEF ThreadInv
  <2> QED BY <2>0, <2>1, <2>2, <2>3, <2>4, <2>6, <2>7, Assemble DEF Same
<1>2. CASE Cancels(o)
  <2> DEFINE c == [conn[o] EXCEPT !.handle = IF conn[o].handle = "live" THEN "dead" ELSE conn[o].handle]
  <2>0. /\ InCancel /\ o \in visit \ {Main} /\ visit' = visit \ {o} /\ due' = due \ {o}
        /\ conn[o].state = "open"
        /\ todo' = [todo EXCEPT ![Main] = Queries(conn[Main], TRUE)]
        /\ UNCHANGED <<pc, opening, orphans, stage, failed, work, lock, grown>>
     BY <1>2 DEF Cancels
  <2>1. conn' = [conn EXCEPT ![o] = c] BY <1>2 DEF Cancels, TypeInv
  <2>2. conn[o] \in Connection BY DEF TypeInv
  <2>3. /\ c \in Connection /\ c.state = conn[o].state /\ c.known = conn[o].known
        /\ c.handle # "live" /\ (conn[o].handle \in {"live", "dead"} => c.handle = "dead")
    <3> HIDE DEF CInv
    <3> QED BY <2>2 DEF Connection
  <2> HIDE DEF c
  <2>4. conn'[o] = c /\ \A q \in Thread \ {o} : conn'[q] = conn[q] BY <2>1 DEF TypeInv
  <2>5. TypeInv' BY <2>0, <2>1, <2>3, QueueFacts DEF TypeInv
  <2>6. ~Early /\ ~Calm /\ ~Early' /\ ~Calm' BY <2>0 DEF Early, Calm, InCancel
  <2>7. StageInv' BY <2>0 DEF StageInv, Cleaning, Quiet
  <2>8. /\ todo'[Main] # <<>> /\ \A q \in Thread \ {Main} : todo'[q] = todo[q]
     BY <2>0, QueueFacts DEF TypeInv
  <2>9. OpeningInv' BY <2>0, <2>8 DEF OpeningInv, InCancel
  <2>10. CancelInv'
    <3>1. stage = "cancel" /\ lock /\ pc'[Main] = "in" /\ stage' = "cancel" BY <2>0 DEF InCancel
    <3>2. due' \subseteq visit' \ {Main} BY <2>0, <3>1 DEF CancelInv
    <3>3. conn'[Main].handle # "dead" BY <2>0, <2>4 DEF CancelInv
    <3>4. \A q \in due' : conn'[q].known /\ conn'[q].state = "open" /\ opening'[q] = {}
       BY <2>0, <2>4, <3>1 DEF CancelInv, TypeInv
    <3> QED BY <3>1, <3>2, <3>3, <3>4 DEF CancelInv
  <2>11. ASSUME NEW q \in Thread PROVE ThreadInv(q)'
    <3>1. CASE q = o BY <2>0, <2>3, <2>4, <2>6, <2>8, <3>1 DEF ThreadInv
    <3>2. CASE q = Main BY <2>0, <2>4, <2>6, <2>8, <3>2 DEF ThreadInv, InCancel
    <3>3. CASE q # o /\ q # Main BY <2>0, <2>4, <2>6, <2>8, <3>3 DEF ThreadInv
    <3> QED BY <3>1, <3>2, <3>3
  <2> QED BY <2>5, <2>6, <2>7, <2>9, <2>10, <2>11
<1> QED BY <1>1, <1>2

LEMMA CancelEndsStep == ASSUME CInv, CancelEnds PROVE CInv'
<1> USE MainThread DEF CInv
<1>0. /\ InCancel /\ (visit = {} \/ grown) /\ lock' = FALSE
      /\ pc' = [pc EXCEPT ![Main] = "leave"] /\ (failed' <=> failed \/ grown)
      /\ todo' = [todo EXCEPT ![Main] = <<>>]
      /\ UNCHANGED <<conn, opening, orphans, stage, work, visit, grown, due>>
   BY DEF CancelEnds, Raises, InCancel, TypeInv
<1>1. pc'[Main] = "leave" /\ \A q \in Thread \ {Main} : pc'[q] = pc[q] BY <1>0 DEF TypeInv
<1>2. todo' = todo BY <1>0 DEF TypeInv, InCancel
<1>3. ~Early /\ ~Calm /\ ~Early' /\ ~Calm' BY <1>0, <1>1 DEF Early, Calm, InCancel
<1>4. failed' \in BOOLEAN BY DEF CancelEnds, Raises, TypeInv
<1>5. TypeInv' BY <1>0, <1>2, <1>4 DEF TypeInv
<1>6. StageInv' BY <1>0, <1>1 DEF StageInv, Cleaning, InCancel
<1>7. OpeningInv' BY <1>0, <1>2 DEF OpeningInv, InCancel
<1>8. CancelInv' BY <1>0, <1>1 DEF CancelInv, InCancel
<1>9. ThreadInv(Main)' BY <1>0, <1>1, <1>2, <1>3 DEF ThreadInv, InCancel
<1> QED BY <1>0, <1>1, <1>2, <1>3, <1>5, <1>6, <1>7, <1>8, <1>9, Assemble DEF Same

\* cleanup_all closes connections whoever uses them, and by then the run is
\* past every promise about them but what a state says of a session
LEMMA CleanupStep ==
    ASSUME CInv, cleanup_all \/ CleanupEnds \/ \E o \in Thread : CleanupCloses(o)
    PROVE  CInv'
<1> USE MainThread DEF CInv
<1>1. Cleaning /\ (stage' = stage \/ (stage' \in {"exit", "done"} /\ ~lock'))
   BY DEF cleanup_all, CleanupEnds, CleanupCloses, Cleaning
<1>2. UNCHANGED <<pc, todo, opening, orphans, failed, work, due>>
   BY DEF cleanup_all, CleanupEnds, CleanupCloses
<1>3. ~Early /\ ~Calm /\ ~Early' /\ ~Calm' BY <1>1 DEF Early, Calm, Cleaning
<1>4. lock' \in BOOLEAN /\ grown' \in BOOLEAN
   BY DEF cleanup_all, CleanupEnds, CleanupCloses, TypeInv
<1>5. visit' \subseteq Thread
   BY DEF cleanup_all, CleanupEnds, CleanupCloses, TypeInv, KnownThreads
<1>6. stage' \in {"cleanup", "exit", "done"} BY <1>1 DEF Cleaning
<1>7. /\ conn' \in [Thread -> Connection]
      /\ \A q \in Thread : \/ conn'[q] = conn[q] \/ conn'[q] = close(conn[q])
                           \/ conn'[q] = [conn[q] EXCEPT !.known = FALSE]
  <2>1. \A q \in Thread : close(conn[q]) \in Connection /\ [conn[q] EXCEPT !.known = FALSE] \in Connection
    <3> SUFFICES ASSUME NEW c \in Connection
                 PROVE  close(c) \in Connection /\ [c EXCEPT !.known = FALSE] \in Connection
       BY DEF TypeInv
    <3> QED BY CloseFacts DEF Connection
  <2> HIDE DEF CInv
  <2>2. conn \in [Thread -> Connection] BY DEF CInv, TypeInv
  <2>3. CASE cleanup_all BY <2>2, <2>3 DEF cleanup_all
  <2>4. CASE CleanupEnds BY <2>1, <2>2, <2>4 DEF CleanupEnds
  <2>5. CASE \E o \in Thread : CleanupCloses(o) BY <2>1, <2>2, <2>5 DEF CleanupCloses
  <2> QED BY <2>3, <2>4, <2>5
<1>8. ASSUME NEW q \in Thread
      PROVE  /\ conn'[q].handle \in {conn[q].handle, "none", "closed"}
             /\ conn'[q].handle = "live" => conn'[q].state = conn[q].state
             /\ conn'[q].state = "open" => conn[q].state = "open" /\ conn'[q].handle = conn[q].handle
             /\ conn'[q].known => conn[q].known
  <2>1. conn[q] \in Connection BY DEF TypeInv
  <2>2. \/ conn'[q] = conn[q] \/ conn'[q] = close(conn[q])
        \/ conn'[q] = [conn[q] EXCEPT !.known = FALSE] BY <1>7
  <2> HIDE DEF CInv
  <2> DEFINE d == close(conn[q])
  <2>5. /\ d.known = conn[q].known
        /\ d = conn[q] \/ (d.state = "closed" /\ d.handle \in {"none", "closed"})
     BY <2>1, CloseFacts
  <2> HIDE DEF d
  <2>6. conn'[q] = close(conn[q]) => conn'[q] = d BY DEF d
  <2>3. CASE conn'[q] = close(conn[q]) BY <2>3, <2>5, <2>6
  <2>4. CASE conn'[q] = [conn[q] EXCEPT !.known = FALSE] BY <2>1, <2>4 DEF Connection
  <2> QED BY <2>2, <2>3, <2>4
<1>9. TypeInv' BY <1>2, <1>4, <1>5, <1>6, <1>7 DEF TypeInv
<1>10. StageInv' BY <1>1, <1>2, <1>6 DEF StageInv, Cleaning, Quiet
<1>11. OpeningInv' BY <1>1, <1>2 DEF OpeningInv, Cleaning
<1>12. CancelInv' BY <1>6, <1>8 DEF CancelInv
<1>13. ASSUME NEW q \in Thread PROVE ThreadInv(q)'
  <2>1. ThreadInv(q) OBVIOUS
  <2> QED BY <1>2, <1>3, <1>8, <2>1 DEF ThreadInv
<1> QED BY <1>3, <1>9, <1>10, <1>11, <1>12, <1>13
-----------------------------------------------------------------------------
LEMMA StutterStep == ASSUME CInv, UNCHANGED vars PROVE CInv'
<1>1. UNCHANGED <<conn, pc, todo, opening, orphans, stage, failed, work, lock, visit, grown, due>>
   BY DEF vars
<1>2. TypeInv' /\ StageInv' BY <1>1 DEF CInv, TypeInv, StageInv, Quiet, Cleaning
<1>3. OpeningInv' /\ CancelInv' BY <1>1 DEF CInv, OpeningInv, CancelInv
<1>4. (Early' => orphans' = 0) /\ \A t \in Thread : ThreadInv(t)'
   BY <1>1 DEF CInv, ThreadInv, Early, Calm
<1> QED BY <1>2, <1>3, <1>4 DEF CInv

LEMMA StepCInv == CInv /\ [Next]_vars => CInv'
<1> SUFFICES ASSUME CInv, [Next]_vars PROVE CInv' OBVIOUS
<1>1. CASE UNCHANGED vars BY <1>1, StutterStep
<1>2. CASE Done BY <1>2, StutterStep DEF Done
<1>3. CASE MainStep
   BY <1>3, ClearStep, StageStep, CancelOpenStep, CancelsStep, CancelEndsStep, CleanupStep DEF MainStep
<1>4. CASE \E t \in Thread : stage # "done" /\ ThreadStep(t)
  <2> PICK t \in Thread : ThreadStep(t) BY <1>4
  <2> QED BY SetNameStep, SetThreadStep, IdleStep, QueryReturnsStep, QueryFailsStep, StartOpenStep,
             FinishOpenStep, FailOpenStep, ReleaseStep DEF ThreadStep
<1> QED BY <1>1, <1>2, <1>3, <1>4 DEF Next

\* The inductive invariant of the connection manager holds for any number of
\* worker threads and nodes, and however execute_nodes ends.
THEOREM ConnectionsInvariance == Spec => []CInv
BY InitCInv, StepCInv, PTL DEF Spec

\* "always close the connection" (base/connections.py:181): until the run is
\* cut short no session is orphaned or outlives the block that took its
\* connection, and an open transaction_open has a transaction behind it.
THEOREM NoLeakCorrect == Spec => []NoLeak
<1>1. CInv => NoLeak BY DEF CInv, NoLeak, ThreadInv, Early
<1> QED BY <1>1, ConnectionsInvariance, PTL

\* execute_with_hooks cleans the connections up after every worker has ended
\* (task/runnable.py:324, 352-353, 389-390), unless an exception is on its way up.
THEOREM WaitsForRunnersCorrect == Spec => []WaitsForRunners
<1>1. CInv => WaitsForRunners BY DEF CInv, WaitsForRunners, StageInv
<1> QED BY <1>1, ConnectionsInvariance, PTL

\* cancel_open (sql/connections.py:33-50) never ends the session it cancels
\* from, and leaves no session that was open when it began.
THEOREM CancelReachesCorrect == Spec => []CancelReaches
<1>1. CInv => CancelReaches BY DEF CInv, CancelReaches, CancelInv
<1> QED BY <1>1, ConnectionsInvariance, PTL
=============================================================================
