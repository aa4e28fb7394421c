------------------------- MODULE Background_proofs --------------------------
(***************************************************************************)
(* Proofs about what outlives the call that started it: about AsyncJobs    *)
(* for any checks, tasks, lanes, queue and turns (results are final, enter *)
(* the context once, and an answered turn has heard them all), and about   *)
(* ProjectProcess for any requests, processes and limits.                  *)
(***************************************************************************)
EXTENDS AsyncJobs, ProjectProcess, TLAPS

-----------------------------------------------------------------------------
(* AsyncJobs                                                               *)

\* An executor that has not stored a result works for a live check.
Executing ==
    \A c \in Checks : executor[c] \in {"waiting", "working"} \cup Final => c \in Live

\* The context in memory is ahead of the saved one only while a pass over the
\* tasks, or a call about one, is under way; never as to checks.
Contexts ==
    /\ pc \notin {"ask", "complete", "answering"} => mine = saved
    /\ pc = "ask" /\ ~fresh => mine = saved
    /\ \A j \in Jobs : saved[j] <= mine[j]
    /\ \A c \in Checks : saved[c] = mine[c]
    /\ CheckHeardOnce

\* What a pass still handles has not been handled.
Passes ==
    /\ pc = "note" => left \cup taken \subseteq Checks \ delivered
    /\ pc \in {"ask", "complete"} => left \subseteq HasTasks
    /\ pc = "complete" => \E t \in HasTasks : taken = {t} /\ mine[t] = 1
    /\ pc = "record" => \A t \in taken : t \in Tasks => task[t] = "none"

\* A task that is not marked is in no context, but for the one in hand.
Unheard ==
    \A t \in Tasks : task[t] # "delivered" =>
        saved[t] = 0 /\ (mine[t] = 0 \/ (pc = "complete" /\ t \in taken))

JInv == /\ JTypeOK /\ Executing /\ Contexts /\ Passes /\ Unheard
        /\ TaskHeard /\ AnswerHasHeard

LEMMA JInvInit == JInit => JInv
  <1> SUFFICES ASSUME JInit PROVE JInv
    OBVIOUS
  <1>1. JTypeOK
    <2>1. [j \in Jobs |-> 0] \in [Jobs -> 0..1] /\ 0 \in 0..MaxTurns
      BY AsyncJobsAssumption
    <2>2. saved \in [Jobs -> 0..1] /\ mine \in [Jobs -> 0..1] /\ turns \in 0..MaxTurns
      BY <2>1 DEF JInit
    <2>3. /\ check \in [Checks -> {"none", "queued", "running"} \cup Final]
          /\ task \in [Tasks -> {"none", "pending", "delivered"}]
          /\ executor \in [Checks -> {"none", "waiting", "working", "leaving"} \cup Final]
      BY DEF JInit
    <2> QED
      BY <2>2, <2>3 DEF JInit, JTypeOK
  <1>2. Executing /\ Passes /\ TaskHeard /\ AnswerHasHeard
    BY DEF JInit, Executing, Final, Passes, TaskHeard, AnswerHasHeard
  <1>3. Contexts /\ Unheard
    <2>1. \A j \in Jobs : saved[j] = 0 /\ mine[j] = 0
      BY DEF JInit
    <2>2. Checks \subseteq Jobs /\ Tasks \subseteq Jobs
      BY DEF Jobs
    <2>3. mine = saved /\ delivered = {}
      BY DEF JInit
    <2> QED
      BY <2>1, <2>2, <2>3 DEF Contexts, CheckHeardOnce, Unheard
  <1> QED
    BY <1>1, <1>2, <1>3 DEF JInv

-----------------------------------------------------------------------------
(* Steps that touch neither contexts nor tasks *)

\* The executors: rows move on among the live ones, or come to their end.
LEMMA ExecuteKeeps ==
    ASSUME JInv, NEW c \in Checks, Execute(c) PROVE JInv'
  <1>1. /\ check' \in [Checks -> {"none", "queued", "running"} \cup Final]
        /\ executor' \in [Checks -> {"none", "waiting", "working", "leaving"} \cup Final]
        /\ \A d \in Checks \ {c} : check'[d] = check[d] /\ executor'[d] = executor[d]
        /\ executor'[c] \in {"waiting", "working"} \cup Final =>
              check'[c] \in {"queued", "running"}
        /\ check'[c] = "none" <=> check[c] = "none"
        /\ UNCHANGED <<delivered, task, saved, events, stopped, pc, aim, pass, reply,
                       turns, cut>>
    <2>1. CASE Admitted(c)
      BY <2>1 DEF Admitted, JInv, JTypeOK, Executing, Live, Final
    <2>2. CASE Refused(c)
      BY <2>2 DEF Refused, JInv, JTypeOK, Executing, Live, Final, rows
    <2>3. CASE Finish(c)
      BY <2>3 DEF Finish, JInv, JTypeOK, Executing, Live, Final, rows
    <2>4. CASE Store(c)
      BY <2>4 DEF Store, JInv, JTypeOK, Executing, Live, Final
    <2>5. CASE Depart(c)
      BY <2>5 DEF Depart, JInv, JTypeOK, Executing, Live, Final, rows
    <2> QED
      BY <2>1, <2>2, <2>3, <2>4, <2>5 DEF Execute
  <1>2. JTypeOK'
    BY <1>1 DEF JInv, JTypeOK, pass, reply
  <1>3. Executing'
    BY <1>1 DEF JInv, Executing, Live
  <1>4. Contexts' /\ Unheard' /\ TaskHeard'
    BY <1>1 DEF JInv, Contexts, CheckHeardOnce, Unheard, TaskHeard, pass
  <1>5. Passes'
    BY <1>1 DEF JInv, Passes, HasTasks, pass
  <1>6. AnswerHasHeard'
    BY <1>1 DEF JInv, AnswerHasHeard
  <1> QED
    BY <1>2, <1>3, <1>4, <1>5, <1>6 DEF JInv

\* A worker that stops forgets its context and counts what went with it.
LEMMA EndKeeps ==
    ASSUME JInv, EndWith("off"), UNCHANGED <<rows, turns>>, executor' \in
           [Checks -> {"none", "waiting", "working", "leaving"} \cup Final],
           stopped' \subseteq Checks,
           \A c \in Checks : executor'[c] \in {executor[c], "none"}
    PROVE  JInv'
  <1>1. JTypeOK'
    BY DEF EndWith, Lost, rows, JInv, JTypeOK
  <1>2. Executing'
    BY DEF rows, JInv, Executing, Live, Final
  <1>3. pc' = "off" /\ mine' = saved /\ UNCHANGED <<saved, delivered, task>>
    BY DEF EndWith, rows
  <1>5. Passes' /\ AnswerHasHeard'
    BY <1>3 DEF Passes, AnswerHasHeard
  <1>6. Contexts'
    <2>1. \A j \in Jobs : saved[j] <= saved[j]
      BY DEF JInv, JTypeOK
    <2> QED
      BY <1>3, <2>1 DEF JInv, Contexts, CheckHeardOnce, Jobs
  <1>7. Unheard'
    BY <1>3 DEF JInv, Unheard
  <1>4. TaskHeard'
    BY DEF EndWith, Lost, rows, JInv, JTypeOK, TaskHeard, Jobs
  <1> QED
    BY <1>1, <1>2, <1>4, <1>5, <1>6, <1>7 DEF JInv

\* The worker moves on, with its context and the tasks as they are.
LEMMA MovesKeep ==
    ASSUME JInv, UNCHANGED <<delivered, task, saved, executor, stopped, mine, cut>>,
           pc \notin {"ask", "complete", "answering"},
           pc' \in {"list", "reap", "note", "tasks", "model", "waiting", "answered"},
           aim' \in {"model", "ready", "top", "decide"},
           check' \in [Checks -> {"none", "queued", "running"} \cup Final],
           \A c \in Checks : check'[c] = check[c] \/ (executor[c] = "none" /\ c \in Live),
           events' \subseteq Jobs, left' \subseteq Jobs, taken' \subseteq Jobs,
           waits' \in {"no", "tasks", "checks"},
           late' \in BOOLEAN, fresh' \in BOOLEAN, published' \in BOOLEAN,
           turns' \in 0..MaxTurns,
           pc' = "note" => left' \cup taken' \subseteq Checks \ delivered,
           pc' = "answered" => HasTasks = {} /\ HasChecks = {} /\ UNCHANGED check
    PROVE  JInv'
  <1>1. JTypeOK'
    BY DEF JInv, JTypeOK
  <1>2. Executing'
    BY DEF JInv, Executing, Live, Final
  <1>3. Contexts' /\ Unheard'
    BY DEF JInv, Contexts, CheckHeardOnce, Unheard
  <1>4. Passes'
    BY DEF Passes
  <1>5. TaskHeard'
    BY DEF JInv, TaskHeard
  <1>6. AnswerHasHeard'
    <2> SUFFICES ASSUME pc' = "answered" PROVE AnswerHasHeard'
      BY DEF AnswerHasHeard
    <2>1. ASSUME NEW c \in Checks, check[c] # "none" PROVE saved[c] = 1
      <3>1. check[c] \in Final /\ c \in delivered
        BY <2>1 DEF HasChecks, Live, ReadyChecks, JInv, JTypeOK
      <3> QED
        BY <3>1 DEF JInv, Contexts, CheckHeardOnce
    <2>2. ASSUME NEW t \in Tasks, task[t] # "none" PROVE saved[t] = 1 \/ t \in cut
      <3>1. task[t] = "delivered"
        BY <2>2 DEF HasTasks, JInv, JTypeOK
      <3> QED
        BY <3>1 DEF JInv, TaskHeard
    <2> QED
      BY <2>1, <2>2 DEF AnswerHasHeard
  <1> QED
    BY <1>1, <1>2, <1>3, <1>4, <1>5, <1>6 DEF JInv

LEMMA StepsThatMove ==
    ASSUME JInv,
           \/ StartTurn \/ List \/ Collect \/ Looked \/ Decide \/ Wait \/ Look \/ Reply
           \/ \E c \in Checks : Reap(c) \/ Note(c)
    PROVE  JInv'
  <1> USE DEF Moves, LookThen
  <1>0. pc \notin {"ask", "complete", "answering"} => mine = saved
    BY DEF JInv, Contexts
  <1>00. Checks \subseteq Jobs /\ Live \subseteq Checks
    BY DEF Jobs, Live
  <1>1. CASE StartTurn
    <2>1. turns + 1 \in 0..MaxTurns
      BY <1>1, AsyncJobsAssumption DEF StartTurn, JInv, JTypeOK
    <2> QED
      BY <1>0, <1>1, <2>1, MovesKeep DEF StartTurn, rows, engine, JInv, JTypeOK
  <1>2. CASE List
    BY <1>00, <1>2, MovesKeep DEF List, rows, engine, reply, JInv, JTypeOK
  <1>3. CASE Collect
    <2>1. ReadyChecks \subseteq Checks \ delivered
      BY DEF ReadyChecks
    <2> QED
      BY <1>00, <1>3, <2>1, MovesKeep
      DEF Collect, AfterChecks, rows, engine, reply, JInv, JTypeOK
  <1>4. CASE Looked \/ Look
    BY <1>4, MovesKeep DEF Looked, Look, rows, engine, pass, reply, JInv, JTypeOK
  <1>5. CASE Decide
    BY <1>5, MovesKeep DEF Decide, MayAnswer, rows, engine, pass, JInv, JTypeOK
  <1>6. CASE Wait
    BY <1>6, MovesKeep DEF Wait, rows, engine, pass, JInv, JTypeOK
  <1>7. CASE Reply
    BY <1>7, MovesKeep DEF Reply, rows, engine, pass, JInv, JTypeOK
  <1>8. ASSUME NEW c \in Checks, Reap(c) PROVE JInv'
    <2>1. check' \in [Checks -> {"none", "queued", "running"} \cup Final]
          /\ \A d \in Checks : check'[d] = check[d] \/ (executor[d] = "none" /\ d \in Live)
      BY <1>8 DEF Reap, Orphan, JInv, JTypeOK, Final
    <2> QED
      BY <1>8, <2>1, MovesKeep DEF Reap, engine, reply, JInv, JTypeOK
  <1>9. ASSUME NEW c \in Checks, Note(c) PROVE JInv'
    <2>1. left' \cup taken' \subseteq Checks \ delivered
      BY <1>9 DEF Note, JInv, Passes
    <2> QED
      BY <1>00, <1>9, <2>1, MovesKeep DEF Note, engine, reply, JInv, JTypeOK
  <1> QED
    BY <1>1, <1>2, <1>3, <1>4, <1>5, <1>6, <1>7, <1>8, <1>9

-----------------------------------------------------------------------------
(* Steps that change contexts, marks or tasks *)

LEMMA SubmitKeeps == ASSUME JInv, NEW c \in Checks, Submit(c) PROVE JInv'
  <1>1. /\ pc = "model" /\ pc' = "list" /\ aim' = "ready"
        /\ check' = [check EXCEPT ![c] = "queued"]
        /\ executor' = [executor EXCEPT ![c] = "waiting"]
        /\ UNCHANGED <<delivered, task, saved, events, stopped, mine, left, taken, fresh,
                       waits, late, published, turns, cut>>
    BY DEF Submit, LookThen, pass, reply
  <1>2. JTypeOK'
    BY <1>1 DEF JInv, JTypeOK
  <1>3. Executing'
    BY <1>1 DEF JInv, JTypeOK, Executing, Live
  <1>4. Contexts' /\ Unheard' /\ TaskHeard' /\ Passes' /\ AnswerHasHeard'
    BY <1>1 DEF JInv, Contexts, CheckHeardOnce, Unheard, TaskHeard, Passes, AnswerHasHeard
  <1> QED
    BY <1>2, <1>3, <1>4 DEF JInv

\* The marks and the results of a pass go in together.
LEMMA DeliverKeeps == ASSUME JInv, Deliver PROVE JInv'
  <1>1. /\ pc = "note" /\ pc' \in {"waiting", "tasks"} /\ mine = saved
        /\ taken \subseteq Checks \ delivered
        /\ saved' = With(saved, taken) /\ mine' = saved'
        /\ delivered' = delivered \cup taken /\ taken' = {}
        /\ UNCHANGED <<check, task, events, executor, stopped, aim, left, fresh, waits,
                       late, published, turns, cut>>
    BY DEF Deliver, Moves, AfterChecks, Marked, engine, reply, JInv, Contexts, Passes
  <1>2. \A c \in Checks : saved[c] = IF c \in delivered THEN 1 ELSE 0
    BY DEF JInv, Contexts, CheckHeardOnce
  <1>3. \A t \in Tasks : t \notin taken
    BY <1>1, AsyncJobsAssumption
  <1>4. Checks \subseteq Jobs /\ Tasks \subseteq Jobs
    BY DEF Jobs
  <1>5. \A c \in Checks : saved'[c] = IF c \in delivered' THEN 1 ELSE 0
    BY <1>1, <1>2, <1>4 DEF With
  <1>6. \A t \in Tasks : saved'[t] = saved[t] /\ mine'[t] = mine[t]
    BY <1>1, <1>3, <1>4 DEF With, JInv, JTypeOK
  <1>7. saved' \in [Jobs -> 0..1]
    <2>1. \A j \in Jobs : saved'[j] \in 0..1
      BY <1>5, <1>6 DEF JInv, JTypeOK, Jobs
    <2> QED
      BY <1>1, <2>1 DEF With
  <1>8. JTypeOK'
    BY <1>1, <1>7 DEF JInv, JTypeOK
  <1>9. Contexts'
    <2>1. \A j \in Jobs : saved'[j] <= saved'[j]
      BY <1>7
    <2> QED
      BY <1>1, <1>5, <2>1 DEF Contexts, CheckHeardOnce
  <1>10. Executing' /\ Passes' /\ AnswerHasHeard'
    BY <1>1 DEF JInv, Executing, Live, Passes, AnswerHasHeard
  <1>11. Unheard' /\ TaskHeard'
    BY <1>1, <1>6 DEF JInv, Unheard, TaskHeard
  <1> QED
    BY <1>8, <1>9, <1>10, <1>11 DEF JInv

\* Passes over the tasks, and the call about one, touch no check.
LEMMA TaskStepKeeps ==
    ASSUME JInv, UNCHANGED <<check, delivered, executor, stopped>>,
           JTypeOK', Contexts', Passes', Unheard', TaskHeard',
           pc' # "answered" \/ UNCHANGED <<pc, saved, task, cut>>
    PROVE  JInv'
  BY DEF JInv, Executing, Live, AnswerHasHeard

LEMMA AskKeeps ==
    ASSUME JInv, AskPlugins \/ (\E t \in Tasks : StillRunning(t)) PROVE JInv'
  <1>1. /\ pc \in {"tasks", "ask"} /\ pc' = "ask" /\ left' \subseteq HasTasks
        /\ fresh' \in BOOLEAN /\ (fresh' = FALSE => mine = saved)
        /\ UNCHANGED <<check, delivered, task, saved, events, executor, stopped, aim, mine,
                       taken, waits, late, published, turns, cut>>
    BY DEF AskPlugins, StillRunning, Moves, rows, engine, reply, JInv, JTypeOK, Contexts, Passes
  <1>2. JTypeOK'
    BY <1>1 DEF JInv, JTypeOK, HasTasks, Jobs
  <1>3. Contexts' /\ Passes' /\ Unheard' /\ TaskHeard'
    BY <1>1 DEF JInv, Contexts, CheckHeardOnce, Passes, HasTasks, Unheard, TaskHeard
  <1> QED
    BY <1>1, <1>2, <1>3, TaskStepKeeps

\* The result of a task that is not marked enters a context for the first time.
LEMMA HeardFirst ==
    ASSUME JInv, NEW t \in Tasks, task[t] # "delivered", pc # "complete",
           mine' = With(mine, {t})
    PROVE  /\ mine' \in [Jobs -> 0..1] /\ mine'[t] = 1
           /\ \A j \in Jobs \ {t} : mine'[j] = mine[j]
           /\ \A j \in Jobs : mine[j] <= mine'[j]
  <1>1. mine[t] = 0 /\ t \in Jobs
    BY DEF JInv, Unheard, Jobs
  <1>2. mine \in [Jobs -> 0..1]
    BY DEF JInv, JTypeOK
  <1>3. mine'[t] = 1 /\ \A j \in Jobs \ {t} : mine'[j] = mine[j]
    BY <1>1, <1>2 DEF With
  <1> QED
    BY <1>1, <1>2, <1>3 DEF With

LEMMA FinishedKeeps == ASSUME JInv, NEW t \in Tasks, Finished(t) PROVE JInv'
  <1>1. /\ pc = "ask" /\ t \in left /\ left \subseteq HasTasks
        /\ mine' = With(mine, {t}) /\ pc' = "complete" /\ taken' = {t}
        /\ events' = events \cup {t}
        /\ UNCHANGED <<check, delivered, task, saved, executor, stopped, aim, left, fresh,
                       waits, late, published, turns, cut>>
    BY DEF Finished, engine, reply, JInv, Passes
  <1>2. t \in HasTasks /\ task[t] = "pending"
    BY <1>1 DEF HasTasks
  <1>3. /\ mine' \in [Jobs -> 0..1] /\ mine'[t] = 1
        /\ \A j \in Jobs \ {t} : mine'[j] = mine[j]
        /\ \A j \in Jobs : mine[j] <= mine'[j]
    BY <1>1, <1>2, HeardFirst
  <1>4. JTypeOK'
    BY <1>1, <1>3 DEF JInv, JTypeOK, Jobs
  <1>5. Contexts'
    <2>1. \A j \in Jobs : saved[j] <= mine'[j]
      BY <1>3 DEF JInv, Contexts, JTypeOK
    <2>2. \A c \in Checks : c # t /\ c \in Jobs
      BY AsyncJobsAssumption DEF Jobs
    <2> QED
      BY <1>1, <1>3, <2>1, <2>2 DEF JInv, Contexts, CheckHeardOnce
  <1>6. Passes'
    BY <1>1, <1>2, <1>3 DEF JInv, Passes, HasTasks
  <1>7. Unheard' /\ TaskHeard'
    BY <1>1, <1>2, <1>3 DEF JInv, Unheard, TaskHeard, Jobs
  <1> QED
    BY <1>1, <1>4, <1>5, <1>6, <1>7, TaskStepKeeps

LEMMA CompleteKeeps == ASSUME JInv, NEW t \in Tasks, Complete(t) PROVE JInv'
  <1>1. /\ pc = "complete" /\ taken = {t} /\ mine[t] = 1 /\ left \subseteq HasTasks
        /\ pc' = "ask" /\ task' = [task EXCEPT ![t] = "delivered"]
        /\ left' = left \ {t} /\ taken' = {} /\ fresh' = TRUE
        /\ UNCHANGED <<check, delivered, saved, events, executor, stopped, aim, mine, waits,
                       late, published, turns, cut>>
    BY DEF Complete, Moves, engine, reply, JInv, Passes
  <1>2. JTypeOK'
    BY <1>1 DEF JInv, JTypeOK
  <1>3. Contexts'
    BY <1>1 DEF JInv, Contexts, CheckHeardOnce
  <1>4. Passes'
    BY <1>1 DEF JInv, Passes, HasTasks, JTypeOK
  <1>5. Unheard' /\ TaskHeard'
    BY <1>1 DEF JInv, Unheard, TaskHeard, JTypeOK
  <1> QED
    BY <1>1, <1>2, <1>3, <1>4, <1>5, TaskStepKeeps

LEMMA AskedKeeps == ASSUME JInv, Asked PROVE JInv'
  <1>1. /\ pc = "ask" /\ pc' \in {"model", "list", "waiting"} /\ saved' = mine
        /\ aim' \in {"model", "ready", "top", "decide"}
        /\ waits' \in {"no", "tasks", "checks"}
        /\ UNCHANGED <<check, delivered, task, events, executor, stopped, mine, left, taken,
                       fresh, late, published, turns, cut>>
    BY DEF Asked, SavedNow, LookThen, engine, pass, reply, JInv, JTypeOK, Contexts
  <1>2. JTypeOK'
    BY <1>1 DEF JInv, JTypeOK
  <1>3. Contexts'
    <2>1. \A j \in Jobs : mine[j] <= mine[j]
      BY DEF JInv, JTypeOK
    <2> QED
      BY <1>1, <2>1 DEF JInv, Contexts, CheckHeardOnce
  <1>4. Passes' /\ Unheard'
    BY <1>1 DEF JInv, Passes, Unheard
  <1>5. TaskHeard'
    <2>1. \A t \in Tasks : saved[t] = 1 => mine[t] = 1
      BY DEF JInv, JTypeOK, Contexts, Jobs
    <2> QED
      BY <1>1, <2>1 DEF JInv, TaskHeard
  <1> QED
    BY <1>1, <1>2, <1>3, <1>4, <1>5, TaskStepKeeps

LEMMA AcceptKeeps == ASSUME JInv, NEW t \in Tasks, Accept(t) \/ Record(t) PROVE JInv'
  <1>1. /\ pc \in {"model", "record"} /\ pc' \in {"record", "list"}
        /\ task[t] = "none" /\ task' \in {task, [task EXCEPT ![t] = "pending"]}
        /\ taken' \in {{}, {t}} /\ (pc' = "record" => task' = task)
        /\ aim' \in {"model", "ready", "top", "decide"}
        /\ UNCHANGED <<check, delivered, saved, events, executor, stopped, mine, left, fresh,
                       waits, late, published, turns, cut>>
    BY DEF Accept, Record, Moves, LookThen, rows, engine, reply, JInv, JTypeOK, Passes
  <1>2. JTypeOK'
    BY <1>1 DEF JInv, JTypeOK, Jobs
  <1>3. Contexts'
    BY <1>1 DEF JInv, Contexts, CheckHeardOnce
  <1>4. Passes'
    BY <1>1 DEF Passes
  <1>5. Unheard' /\ TaskHeard'
    BY <1>1 DEF JInv, Unheard, TaskHeard, JTypeOK
  <1> QED
    BY <1>1, <1>2, <1>3, <1>4, <1>5, TaskStepKeeps

LEMMA QueryKeeps == ASSUME JInv, NEW t \in Tasks, QueryTask(t) PROVE JInv'
  <1>1. /\ pc = "model" /\ pc' = "answering" /\ task[t] = "pending"
        /\ task' = [task EXCEPT ![t] = "delivered"]
        /\ mine' = With(mine, {t}) /\ taken' = {t}
        /\ UNCHANGED <<check, delivered, saved, events, executor, stopped, aim, left, fresh,
                       waits, late, published, turns, cut>>
    BY DEF QueryTask, Moves, HasTasks, engine, reply
  <1>2. /\ mine' \in [Jobs -> 0..1] /\ mine'[t] = 1
        /\ \A j \in Jobs \ {t} : mine'[j] = mine[j]
        /\ \A j \in Jobs : mine[j] <= mine'[j]
    BY <1>1, HeardFirst
  <1>3. JTypeOK'
    BY <1>1, <1>2 DEF JInv, JTypeOK, Jobs
  <1>4. Contexts'
    <2>1. \A j \in Jobs : saved[j] <= mine'[j]
      BY <1>2 DEF JInv, Contexts, JTypeOK
    <2>2. \A c \in Checks : c # t /\ c \in Jobs
      BY AsyncJobsAssumption DEF Jobs
    <2> QED
      BY <1>1, <1>2, <2>1, <2>2 DEF JInv, Contexts, CheckHeardOnce
  <1>5. Passes'
    BY <1>1 DEF Passes
  <1>6. Unheard' /\ TaskHeard'
    BY <1>1, <1>2 DEF JInv, Unheard, TaskHeard, Jobs, JTypeOK
  <1> QED
    BY <1>1, <1>3, <1>4, <1>5, <1>6, TaskStepKeeps

LEMMA AnswerCallKeeps == ASSUME JInv, AnswerCall PROVE JInv'
  <1>1. /\ pc = "answering" /\ pc' = "list" /\ aim' = "ready" /\ saved' = mine
        /\ events' = events \cup taken /\ taken' = {}
        /\ UNCHANGED <<check, delivered, task, executor, stopped, mine, left, fresh,
                       waits, late, published, turns, cut>>
    BY DEF AnswerCall, LookThen, engine, reply
  <1>2. JTypeOK'
    BY <1>1 DEF JInv, JTypeOK
  <1>3. Contexts'
    <2>1. \A j \in Jobs : mine[j] <= mine[j]
      BY DEF JInv, JTypeOK
    <2> QED
      BY <1>1, <2>1 DEF JInv, Contexts, CheckHeardOnce
  <1>4. Passes' /\ Unheard'
    BY <1>1 DEF JInv, Passes, Unheard
  <1>5. TaskHeard'
    <2>1. \A t \in Tasks : saved[t] = 1 => mine[t] = 1
      BY DEF JInv, JTypeOK, Contexts, Jobs
    <2> QED
      BY <1>1, <2>1 DEF JInv, TaskHeard
  <1> QED
    BY <1>1, <1>2, <1>3, <1>4, <1>5, TaskStepKeeps

LEMMA DeadlineKeeps == ASSUME JInv, DeadlinePasses PROVE JInv'
  <1>1. late' = TRUE /\ UNCHANGED <<check, delivered, task, saved, events, executor, stopped,
          pc, aim, mine, left, taken, fresh, waits, published, turns, cut>>
    BY DEF DeadlinePasses, rows, engine, pass
  <1>2. JTypeOK'
    BY <1>1 DEF JInv, JTypeOK
  <1>3. Contexts' /\ Passes' /\ Unheard' /\ TaskHeard'
    BY <1>1 DEF JInv, Contexts, CheckHeardOnce, Passes, HasTasks, Unheard, TaskHeard
  <1> QED
    BY <1>1, <1>2, <1>3, TaskStepKeeps

LEMMA StopsKeep == ASSUME JInv, Fail \/ Crash PROVE JInv'
  <1>1. CASE Fail
    <2>1. stopped' \subseteq Checks
      BY <1>1 DEF Fail, JInv, JTypeOK
    <2>2. EndWith("off") /\ UNCHANGED <<rows, turns>> /\ executor' = executor
      BY <1>1 DEF Fail
    <2> QED
      BY <2>1, <2>2, EndKeeps DEF JInv, JTypeOK
  <1>2. CASE Crash /\ Worker
    <2>1. EndWith("off") /\ UNCHANGED <<rows, turns>>
          /\ executor' = [c \in Checks |-> "none"] /\ stopped' = {}
      BY <1>2 DEF Crash
    <2> QED
      BY <2>1, EndKeeps
  <1>3. CASE Crash /\ ~Worker
    <2>1. /\ executor' = [c \in Checks |-> "none"] /\ stopped' = {}
          /\ UNCHANGED <<check, delivered, task, saved, events, pc, aim, mine, left, taken,
                         fresh, waits, late, published, turns, cut>>
      BY <1>3 DEF Crash, rows, pass
    <2>2. JTypeOK'
      BY <2>1 DEF JInv, JTypeOK
    <2>3. Executing'
      BY <2>1 DEF Executing, Final
    <2>4. Contexts' /\ Passes' /\ Unheard' /\ TaskHeard' /\ AnswerHasHeard'
      BY <2>1 DEF JInv, Contexts, CheckHeardOnce, Passes, HasTasks, Unheard, TaskHeard,
                  AnswerHasHeard
    <2> QED
      BY <2>2, <2>3, <2>4 DEF JInv
  <1> QED
    BY <1>1, <1>2, <1>3

LEMMA JInvStep == JInv /\ [JNext]_jvars => JInv'
  <1> SUFFICES ASSUME JInv, [JNext]_jvars PROVE JInv'
    OBVIOUS
  <1>1. CASE UNCHANGED jvars
    BY <1>1 DEF jvars, rows, engine, pass, reply, JInv, JTypeOK, Executing, Live, Contexts,
       CheckHeardOnce, Passes, HasTasks, Unheard, TaskHeard, AnswerHasHeard
  <1>2. CASE StartTurn
    BY <1>2, StepsThatMove
  <1>3. CASE Handle
    <2>1. ASSUME NEW t \in Tasks,
                 StillRunning(t) \/ Finished(t) \/ Complete(t) \/ Record(t)
          PROVE  JInv'
      BY <2>1, AskKeeps, FinishedKeeps, CompleteKeeps, AcceptKeeps
    <2>2. CASE Deliver \/ AskPlugins \/ Asked \/ AnswerCall \/ Overdue
      BY <2>2, DeliverKeeps, AskKeeps, AskedKeeps, AnswerCallKeeps, StopsKeep DEF Overdue
    <2>3. CASE \/ List \/ Collect \/ Looked \/ Decide \/ Wait
               \/ \E c \in Checks : Reap(c) \/ Note(c)
      BY <2>3, StepsThatMove
    <2> QED
      BY <1>3, <2>1, <2>2, <2>3 DEF Handle
  <1>4. CASE Model
    <2>1. ASSUME NEW t \in Tasks, Accept(t) \/ QueryTask(t) PROVE JInv'
      BY <2>1, AcceptKeeps, QueryKeeps
    <2>2. CASE Look \/ Reply
      BY <2>2, StepsThatMove
    <2>3. ASSUME NEW c \in Checks, Submit(c) PROVE JInv'
      BY <2>3, SubmitKeeps
    <2> QED
      BY <1>4, <2>1, <2>2, <2>3 DEF Model
  <1>5. CASE DeadlinePasses \/ Fail \/ Crash
    BY <1>5, DeadlineKeeps, StopsKeep
  <1>6. ASSUME NEW c \in Checks, Execute(c) PROVE JInv'
    BY <1>6, ExecuteKeeps
  <1> QED
    BY <1>1, <1>2, <1>3, <1>4, <1>5, <1>6 DEF JNext

-----------------------------------------------------------------------------
\* The type invariant: no context ever holds a result twice (saved and mine
\* stay within 0..1).
THEOREM TypesOfJobs == JSpec => []JTypeOK
  <1>1. JInv => JTypeOK
    BY DEF JInv
  <1> QED
    BY <1>1, JInvInit, JInvStep, PTL DEF JSpec

\* The mark on a check and its result in the saved context are one, and the
\* result of a task is lost only with a worker that stops while it handles it.
THEOREM ResultsAreHeard == JSpec => [](CheckHeardOnce /\ TaskHeard)
  <1>1. JInv => CheckHeardOnce /\ TaskHeard
    BY DEF JInv, Contexts
  <1> QED
    BY <1>1, JInvInit, JInvStep, PTL DEF JSpec

\* An answered turn has heard of every job the conversation started.
THEOREM AnswersHaveHeard == JSpec => []AnswerHasHeard
  <1>1. JInv => AnswerHasHeard
    BY DEF JInv
  <1> QED
    BY <1>1, JInvInit, JInvStep, PTL DEF JSpec

\* The reader that settles orphans never overwrites a stored result.
THEOREM ResultsStay == JSpec => ResultsAreFinal
  <1>1. ASSUME JInv, [JNext]_jvars, NEW c \in Checks, check[c] \in Final
        PROVE  check'[c] = check[c]
    <2>1. CASE UNCHANGED jvars
      BY <2>1 DEF jvars, rows
    <2>2. CASE StartTurn \/ DeadlinePasses \/ Fail \/ Crash
      BY <2>2 DEF StartTurn, DeadlinePasses, Fail, Crash, rows
    <2>3. CASE Handle
      <3>1. CASE \E d \in Checks : Reap(d)
        BY <1>1, <3>1 DEF Reap, Orphan, Live, Final, JInv, JTypeOK
      <3>2. CASE \/ List \/ Collect \/ Deliver \/ AskPlugins \/ Asked \/ Looked \/ AnswerCall
                 \/ Decide \/ Wait \/ Overdue
        BY <3>2 DEF List, Collect, Deliver, AskPlugins, Asked, Looked, AnswerCall, Decide, Wait,
                    Overdue, Fail, rows
      <3>3. CASE \/ \E d \in Checks : Note(d)
                 \/ \E t \in Tasks : \/ StillRunning(t) \/ Finished(t)
                                     \/ Complete(t) \/ Record(t)
        BY <3>3 DEF Note, StillRunning, Finished, Complete, Record, rows
      <3> QED
        BY <2>3, <3>1, <3>2, <3>3 DEF Handle
    <2>4. CASE Model
      BY <1>1, <2>4 DEF Model, Look, Reply, Submit, Accept, QueryTask, rows, Final, JInv, JTypeOK
    <2>5. ASSUME NEW d \in Checks, Execute(d) PROVE check'[c] = check[c]
      BY <1>1, <2>5 DEF Execute, Admitted, Refused, Finish, Store, Depart, rows, Final,
                        JInv, JTypeOK, Executing, Live
    <2> QED
      BY <1>1, <2>1, <2>2, <2>3, <2>4, <2>5 DEF JNext
  <1>2. JInv /\ [JNext]_jvars =>
          [\A c \in Checks : check[c] \in Final => check'[c] = check[c]]_jvars
    BY <1>1
  <1> QED
    BY <1>2, JInvInit, JInvStep, PTL DEF JSpec, ResultsAreFinal

-----------------------------------------------------------------------------
(* ProjectProcess                                                          *)

\* The request that started its process.
Launched(r) == req[r].kind \in {"foreground", "background"} /\ ~req[r].reused
Allowed == {"none", "requested_stop"}
Starting == {"persist", "write", "probe", "probing"}

\* A process that was not started has no trace; one that lives is watched, one
\* that is watched is called running, and one that runs is registered.
Watch ==
    /\ \A p \in Processes : p > started =>
          /\ supervisor[p] = "none" /\ os[p] = "none" /\ p \notin kept
          /\ stop[p] = "none" /\ reason[p] = "none"
    /\ \A p \in Processes :
          /\ os[p] = "alive" => supervisor[p] = "watch"
          /\ p \in running <=> supervisor[p] \in {"watch", "drain"}
    /\ running \subseteq registered
    /\ ReadyRuns

\* Who writes the file holds a state; none that was read before the end of the
\* process is on its way once the supervisor writes.
Writes ==
    /\ \A p \in Processes :
          /\ writer[p] # NoOne => copy[p] # "absent"
          /\ supervisor[p] \in {"writing", "gone"} => copy[p] # "running"
    /\ FileTellsEnd

Asking ==
    /\ \A r \in Requests :
          /\ req[r].pc = "new" =>
                req[r].kind = "none" /\ ~req[r].reused /\ ~req[r].lease
          /\ req[r].pc # "new" => req[r].p \in 1..started
          /\ req[r].lease => Launched(r)
          /\ req[r].pc = "wait" => req[r].kind = "foreground"
          /\ req[r].kind = "foreground" => ~req[r].reused
    /\ \A r, q \in Requests :
          Launched(r) /\ Launched(q) /\ req[r].p = req[q].p => r = q

\* What may end a process that its launcher leaves, or may leave, to the host.
Leaving ==
    /\ \A p \in kept :
          /\ stop[p] \in Allowed /\ reason[p] \in Allowed
          /\ \A r \in Requests : Launched(r) /\ req[r].p = p =>
                req[r].kind = "background" /\ ~req[r].lease
    /\ \A r \in Requests :
          Launched(r) /\ req[r].kind = "background" /\ req[r].pc \in Starting =>
             stop[req[r].p] \in Allowed /\ reason[req[r].p] \in Allowed

PInv == TypeOK /\ Watch /\ Writes /\ Asking /\ Leaving /\ OneInBackground

LEMMA PInvInit == Init => PInv
  <1> SUFFICES ASSUME Init PROVE PInv
    OBVIOUS
  <1>1. NewRequest \in
          [kind : Kinds, p : 0..MaxProcesses, lease : BOOLEAN, probed : BOOLEAN,
           pc : {"new", "persist", "write", "probe", "probing", "wait",
                 "stopping", "snapshot", "over"},
           reused : BOOLEAN]
    BY ProjectProcessAssumption DEF NewRequest, Kinds, Nothing
  <1>2. \A r \in Requests : req[r] = NewRequest
    BY DEF Init
  <1>3. TypeOK
    <2>1. 0 \in 0..MaxProcesses /\ 0 \in 0..MaxChunks
      BY ProjectProcessAssumption
    <2>2. req \in [Requests -> [kind : Kinds, p : 0..MaxProcesses, lease : BOOLEAN,
             probed : BOOLEAN,
             pc : {"new", "persist", "write", "probe", "probing", "wait",
                   "stopping", "snapshot", "over"},
             reused : BOOLEAN]]
      BY <1>1 DEF Init
    <2>3. \A r \in Requests : req[r].pc # "write"
      BY <1>2 DEF NewRequest
    <2>4. \A p \in Processes : writer[p] # Supervisor /\ supervisor[p] # "writing"
      BY ProjectProcessAssumption DEF Init
    <2> QED
      BY <2>1, <2>2, <2>3, <2>4 DEF Init, TypeOK, At, Reasons
  <1>4. Watch /\ Writes
    BY DEF Init, Watch, Writes, ReadyRuns, FileTellsEnd
  <1>5. Asking /\ Leaving
    BY <1>2 DEF Init, Asking, Leaving, Launched, Starting, NewRequest
  <1>6. OneInBackground
    BY DEF Init, OneInBackground
  <1> QED
    BY <1>3, <1>4, <1>5, <1>6 DEF PInv

-----------------------------------------------------------------------------
(* Requests that only get on *)

\* Fields of a request are what they were but for where it is and what it holds.
SameRequests ==
    \A r \in Requests :
        /\ req'[r].kind = req[r].kind /\ req'[r].p = req[r].p
        /\ req'[r].reused = req[r].reused /\ (req'[r].lease => req[r].lease)

LEMMA SameKeep ==
    ASSUME PInv, SameRequests, UNCHANGED started,
           \A r \in Requests :
              /\ req'[r].pc = "new" => req[r].pc = "new"
              /\ req'[r].pc # "new" => req[r].pc # "new"
              /\ req'[r].pc = "wait" => req[r].pc = "wait" \/ req[r].kind = "foreground"
    PROVE  Asking'
  BY DEF PInv, SameRequests, Asking, Launched

LEMMA LeavingKeeps ==
    ASSUME PInv, SameRequests, UNCHANGED kept,
           \A p \in Processes :
              /\ stop'[p] \in {stop[p], "none", "requested_stop"}
              /\ reason'[p] \in {reason[p], stop[p]},
           \A r \in Requests :
              req'[r].pc \in Starting => req[r].pc \in Starting \/ req[r].kind = "query"
    PROVE  Leaving'
  <1>1. \A r \in Requests : Launched(r)' <=> Launched(r)
    BY DEF SameRequests, Launched
  <1>2. \A p \in kept : p \in Processes
    BY DEF PInv, TypeOK
  <1>3. \A p \in kept : /\ stop'[p] \in Allowed /\ reason'[p] \in Allowed
          /\ \A r \in Requests : Launched(r)' /\ req'[r].p = p =>
                req'[r].kind = "background" /\ ~req'[r].lease
    BY <1>1, <1>2 DEF PInv, Leaving, SameRequests, Allowed
  <1>4. ASSUME NEW r \in Requests, Launched(r)', req'[r].kind = "background",
               req'[r].pc \in Starting
        PROVE  stop'[req'[r].p] \in Allowed /\ reason'[req'[r].p] \in Allowed
    <2>1. /\ Launched(r) /\ req[r].kind = "background" /\ req[r].pc \in Starting
          /\ req'[r].p = req[r].p
      BY <1>1, <1>4 DEF SameRequests
    <2>2. req[r].p \in Processes
      BY <2>1 DEF PInv, Asking, Starting, TypeOK, Processes
    <2> QED
      BY <2>1, <2>2 DEF PInv, Leaving, Allowed
  <1> QED
    BY <1>3, <1>4 DEF Leaving

LEMMA OneKeeps ==
    ASSUME PInv, SameRequests, running' \subseteq running PROVE OneInBackground'
  BY DEF PInv, SameRequests, OneInBackground

ReqType ==
    [Requests ->
        [kind : Kinds, p : 0..MaxProcesses, lease : BOOLEAN, probed : BOOLEAN,
         pc : {"new", "persist", "write", "probe", "probing", "wait",
               "stopping", "snapshot", "over"},
         reused : BOOLEAN]]

LEMMA Typed == PInv => req \in ReqType
  BY DEF PInv, TypeOK, ReqType

LEMMA HasProcess ==
    ASSUME PInv, NEW r \in Requests, req[r].pc # "new"
    PROVE  req[r].p \in Processes /\ req[r].p \in 1..started
  BY DEF PInv, Asking, TypeOK, Processes

\* The request gets on, and no process, supervisor or file does.
LEMMA QuietKeeps ==
    ASSUME PInv, SameRequests, req' \in ReqType,
           UNCHANGED <<started, registered, os, supervisor, stop, reason, running, file,
                       writer, copy, stray, kept>>,
           ready' \subseteq running, unread' \in [Processes -> 0..MaxChunks],
           \A r \in Requests :
              /\ req'[r].pc = "new" <=> req[r].pc = "new"
              /\ req'[r].pc = "wait" => req[r].pc = "wait"
              /\ req'[r].pc \in Starting => req[r].pc \in Starting
              /\ req'[r].pc = "write" => req[r].pc = "write"
    PROVE  PInv'
  <1>1. TypeOK'
    BY DEF PInv, TypeOK, SameRequests, ReqType, At
  <1>2. Watch' /\ Writes'
    BY DEF PInv, Watch, ReadyRuns, Writes, FileTellsEnd
  <1>3. Asking' /\ Leaving' /\ OneInBackground'
    BY SameKeep, LeavingKeeps, OneKeeps
  <1> QED
    BY <1>1, <1>2, <1>3 DEF PInv

LEMMA StepsOnTheWay ==
    ASSUME PInv, NEW r \in Requests,
           Probe(r) \/ Probed(r) \/ Waited(r) \/ Snapshot(r)
    PROVE  PInv'
  <1>0. req \in ReqType /\ ready \subseteq running
    BY Typed DEF PInv, Watch, ReadyRuns
  <1> DEFINE Moved(a, b) ==
               /\ SameRequests /\ req' \in ReqType
               /\ \A q \in Requests \ {r} : req'[q] = req[q]
               /\ req[r].pc \in a /\ req'[r].pc \in b
  <1>1. CASE Probe(r)
    <2>1. Moved({"probe"}, {"probing", "persist"})
      BY <1>0, <1>1 DEF Probe, At, Go, ReqType, SameRequests
    <2> QED
      BY <1>0, <1>1, <2>1, QuietKeeps
      DEF Probe, child, meta, disk, Starting, PInv, TypeOK
  <1>2. CASE Probed(r)
    <2>1. Moved({"probing"}, {"probe", "persist"})
      BY <1>0, <1>2 DEF Probed, At, Go, ReqType, SameRequests
    <2>2. ready' \subseteq running
      BY <1>0, <1>2 DEF Probed, Ready
    <2> QED
      BY <1>2, <2>1, <2>2, QuietKeeps DEF Probed, child, disk, Starting, PInv, TypeOK
  <1>3. CASE Waited(r)
    <2>1. Moved({"stopping", "wait"}, {"over", "snapshot"})
      <3>1. CASE Over(r)
        BY <1>0, <1>3, <3>1 DEF Waited, Over, At, ReqType, SameRequests
      <3>2. CASE Go(r, "snapshot")
        BY <1>0, <1>3, <3>2 DEF Waited, Go, At, ReqType, SameRequests
      <3> QED
        BY <1>3, <3>1, <3>2 DEF Waited
    <2> QED
      BY <1>0, <1>3, <2>1, QuietKeeps
      DEF Waited, child, meta, disk, Starting, PInv, TypeOK
  <1>4. CASE Snapshot(r)
    <2>1. Moved({"snapshot"}, {"over"})
      BY <1>0, <1>4 DEF Snapshot, Over, At, ReqType, SameRequests
    <2> QED
      BY <1>0, <1>4, <2>1, QuietKeeps
      DEF Snapshot, child, meta, disk, Starting, PInv, TypeOK
  <1> QED
    BY <1>1, <1>2, <1>3, <1>4

LEMMA OutputKeeps ==
    ASSUME PInv, NEW p \in Processes, Output(p) \/ Push(p) PROVE PInv'
  <1>1. unread' \in [Processes -> 0..MaxChunks]
    BY ProjectProcessAssumption DEF Output, Push, PInv, TypeOK
  <1>2. UNCHANGED <<started, registered, os, supervisor, stop, reason, running, ready, file,
                    writer, copy, stray, kept, req>>
    BY DEF Output, Push, child, meta, disk
  <1> QED
    BY <1>1, <1>2, Typed, QuietKeeps DEF SameRequests, PInv, Watch, ReadyRuns

-----------------------------------------------------------------------------
(* Processes and supervisors *)

\* The requests stay where they are.
LEMMA Standing ==
    ASSUME PInv, UNCHANGED <<started, req, kept>>, running' \subseteq running,
           \A p \in Processes :
              /\ stop'[p] \in {stop[p], "none", "requested_stop"}
              /\ reason'[p] \in {reason[p], stop[p]}
    PROVE  Asking' /\ Leaving' /\ OneInBackground'
  <1>1. SameRequests
    BY DEF SameRequests
  <1> QED
    BY <1>1, SameKeep, LeavingKeeps, OneKeeps

LEMMA EndsKeep ==
    ASSUME PInv, NEW p \in Processes, Exit(p) \/ Exited(p) \/ Terminate(p) PROVE PInv'
  <1>1. /\ supervisor' \in {supervisor, [supervisor EXCEPT ![p] = "drain"]}
        /\ supervisor'[p] # supervisor[p] => supervisor[p] = "watch"
        /\ os' \in {os, [os EXCEPT ![p] = "dead"]}
        /\ supervisor'[p] # supervisor[p] => os'[p] = "dead"
        /\ ~(p > started)
        /\ stop' \in {stop, [stop EXCEPT ![p] = "none"]}
        /\ reason' \in {reason, [reason EXCEPT ![p] = stop[p]]}
        /\ UNCHANGED <<started, registered, running, ready, file, writer, copy, stray,
                       unread, req, kept>>
    <2>1. CASE Exit(p)
      BY <2>1 DEF Exit, meta, disk, PInv, TypeOK, Watch
    <2>2. CASE Exited(p)
      BY <2>2 DEF Exited, meta, disk, PInv, TypeOK, Watch
    <2>3. CASE Terminate(p)
      BY <2>3 DEF Terminate, meta, disk, PInv, TypeOK, Watch
    <2> QED
      BY <2>1, <2>2, <2>3
  <1>2. TypeOK'
    <2>1. stop' \in [Processes -> Reasons] /\ reason' \in [Processes -> Reasons]
      BY <1>1 DEF PInv, TypeOK, Reasons
    <2>2. \A x \in Processes : supervisor'[x] = "writing" <=> supervisor[x] = "writing"
      BY <1>1 DEF PInv, TypeOK
    <2>3. /\ os' \in [Processes -> {"none", "alive", "dead"}]
          /\ supervisor' \in [Processes ->
                {"none", "watch", "drain", "marked", "writing", "gone"}]
      BY <1>1 DEF PInv, TypeOK
    <2> QED
      BY <1>1, <2>1, <2>2, <2>3 DEF PInv, TypeOK, At
  <1>3. Watch'
    BY <1>1 DEF PInv, TypeOK, Watch, ReadyRuns
  <1>4. Writes'
    BY <1>1 DEF PInv, TypeOK, Writes, FileTellsEnd
  <1>5. Asking' /\ Leaving' /\ OneInBackground'
    BY <1>1, Standing DEF PInv, TypeOK
  <1> QED
    BY <1>2, <1>3, <1>4, <1>5 DEF PInv

LEMMA MarkKeeps == ASSUME PInv, NEW p \in Processes, MarkEnded(p) PROVE PInv'
  <1>1. /\ supervisor[p] = "drain" /\ supervisor' = [supervisor EXCEPT ![p] = "marked"]
        /\ running' = running \ {p} /\ ready' = ready \ {p}
        /\ UNCHANGED <<started, registered, os, stop, reason, file, writer, copy, stray,
                       unread, req, kept>>
    BY DEF MarkEnded, disk
  <1>2. TypeOK'
    BY <1>1 DEF PInv, TypeOK, At
  <1>3. Watch'
    BY <1>1 DEF PInv, TypeOK, Watch, ReadyRuns
  <1>4. Writes'
    BY <1>1 DEF PInv, TypeOK, Writes, FileTellsEnd
  <1>5. Asking' /\ Leaving' /\ OneInBackground'
    BY <1>1, Standing
  <1> QED
    BY <1>2, <1>3, <1>4, <1>5 DEF PInv

\* The end is written by nobody but the supervisor, and last.
LEMMA WriteEndKeeps ==
    ASSUME PInv, NEW p \in Processes, PersistEnd(p) \/ Leave(p) PROVE PInv'
  <1> USE ProjectProcessAssumption
  <1>1. CASE PersistEnd(p)
    <2>1. /\ supervisor[p] = "marked" /\ supervisor' = [supervisor EXCEPT ![p] = "writing"]
          /\ writer[p] = NoOne /\ writer' = [writer EXCEPT ![p] = Supervisor]
          /\ copy' = [copy EXCEPT ![p] = State(p)]
          /\ UNCHANGED <<started, registered, os, stop, reason, running, ready, file, stray,
                         unread, req, kept>>
      BY <1>1 DEF PersistEnd, Begin, GuardFree, meta
    <2>2. State(p) = "ended"
      BY <2>1 DEF State, PInv, Watch
    <2>3. TypeOK'
      BY <2>1, <2>2 DEF PInv, TypeOK, At
    <2>4. Watch'
      BY <2>1 DEF PInv, TypeOK, Watch, ReadyRuns
    <2>5. Writes'
      BY <2>1, <2>2 DEF PInv, TypeOK, Writes, FileTellsEnd
    <2>6. Asking' /\ Leaving' /\ OneInBackground'
      BY <2>1, Standing
    <2> QED
      BY <2>3, <2>4, <2>5, <2>6 DEF PInv
  <1>2. CASE Leave(p)
    <2>1. /\ supervisor[p] = "writing" /\ supervisor' = [supervisor EXCEPT ![p] = "gone"]
          /\ writer[p] = Supervisor /\ writer' = [writer EXCEPT ![p] = NoOne]
          /\ \E says \in {copy[p], "unsure"} : file' = [file EXCEPT ![p] = says]
          /\ copy' = [copy EXCEPT ![p] = "absent"]
          /\ UNCHANGED <<started, registered, os, stop, reason, running, ready, stray,
                         unread, req, kept>>
      BY <1>2 DEF Leave, End, meta
    <2>2. copy[p] = "ended"
      BY <2>1 DEF PInv, TypeOK, Writes
    <2>3. TypeOK'
      BY <2>1, <2>2 DEF PInv, TypeOK, At
    <2>4. Watch'
      BY <2>1 DEF PInv, TypeOK, Watch, ReadyRuns
    <2>5. Writes'
      BY <2>1, <2>2 DEF PInv, TypeOK, Writes, FileTellsEnd
    <2>6. Asking' /\ Leaving' /\ OneInBackground'
      BY <2>1, Standing
    <2> QED
      BY <2>3, <2>4, <2>5, <2>6 DEF PInv
  <1> QED
    BY <1>1, <1>2

LEMMA StrayKeeps == ASSUME PInv, NEW r \in Requests, StrayWrite(r) PROVE PInv'
  <1>1. /\ stray' = stray \ {r} /\ file' = [file EXCEPT ![req[r].p] = "unsure"]
        /\ UNCHANGED <<started, registered, os, supervisor, stop, reason, running, ready,
                       writer, copy, unread, req, kept>>
    BY DEF StrayWrite, child, meta
  <1>2. TypeOK'
    BY <1>1 DEF PInv, TypeOK, At
  <1>3. Watch' /\ Writes'
    BY <1>1 DEF PInv, TypeOK, Watch, ReadyRuns, Writes, FileTellsEnd
  <1>4. Asking' /\ Leaving' /\ OneInBackground'
    BY <1>1, Standing
  <1> QED
    BY <1>2, <1>3, <1>4 DEF PInv

-----------------------------------------------------------------------------
(* Requests that write, end or ask *)

\* The state is read under the guard.
LEMMA PersistKeeps == ASSUME PInv, NEW r \in Requests, Persist(r) PROVE PInv'
  <1> USE ProjectProcessAssumption
  <1> DEFINE p == req[r].p
  <1>1. p \in Processes /\ req \in ReqType
    BY HasProcess, Typed DEF Persist, At
  <1>2. /\ req[r].pc = "persist" /\ req' = [req EXCEPT ![r].pc = "write"]
        /\ writer[p] = NoOne /\ writer' = [writer EXCEPT ![p] = r]
        /\ copy' = [copy EXCEPT ![p] = State(p)]
        /\ UNCHANGED <<started, registered, os, supervisor, stop, reason, running, ready,
                       file, stray, unread, kept>>
    BY DEF Persist, Begin, GuardFree, Go, At, child, meta
  <1>3. /\ req' \in ReqType /\ SameRequests /\ req'[r].pc = "write" /\ req'[r].p = p
        /\ \A q \in Requests \ {r} : req'[q] = req[q]
    BY <1>1, <1>2 DEF ReqType, SameRequests
  <1> HIDE DEF p
  <1>4. TypeOK'
    <2>1. writer' \in [Processes -> Requests \cup {NoOne, Supervisor}]
          /\ copy' \in [Processes -> {"absent", "running", "ended"}]
      BY <1>1, <1>2 DEF PInv, TypeOK, State
    <2>2. \A x \in Processes : writer'[x] = Supervisor <=> supervisor'[x] = "writing"
      BY <1>1, <1>2 DEF PInv, TypeOK
    <2>3. \A q \in Requests : req'[q].pc = "write" => writer'[req'[q].p] = q
      <3>1. \A q \in Requests \ {r} : req[q].pc = "write" =>
               writer[req[q].p] = q /\ req[q].p \in Processes
        BY HasProcess DEF PInv, TypeOK, At
      <3> QED
        BY <1>1, <1>2, <1>3, <3>1 DEF PInv, TypeOK
    <2> QED
      BY <1>2, <1>3, <2>1, <2>2, <2>3 DEF PInv, TypeOK, At, ReqType
  <1>5. Watch'
    BY <1>2 DEF PInv, Watch, ReadyRuns
  <1>6. Writes'
    <2>1. supervisor[p] \in {"writing", "gone"} => State(p) = "ended"
      BY <1>1 DEF State, PInv, Watch
    <2> QED
      BY <1>1, <1>2, <2>1 DEF PInv, TypeOK, Writes, FileTellsEnd, State
  <1>7. Asking' /\ Leaving' /\ OneInBackground'
    <2>1. \A q \in Requests : req'[q].pc \in Starting => req[q].pc \in Starting
      BY <1>2, <1>3 DEF Starting
    <2> QED
      BY <1>2, <1>3, <2>1, SameKeep, LeavingKeeps, OneKeeps
  <1> QED
    BY <1>4, <1>5, <1>6, <1>7 DEF PInv

\* A background launch that comes to its end owns its process and has not asked
\* for its end: it leaves it to the host with its lease disarmed.
LEMMA PersistedKeeps == ASSUME PInv, NEW r \in Requests, Persisted(r) PROVE PInv'
  <1> USE ProjectProcessAssumption
  <1> DEFINE p == req[r].p
             held == req[r].lease /\ ~Disarmed(r)
             leaves == req[r].kind = "background" /\ req[r].probed /\ ~req[r].reused
  <1>1. p \in Processes /\ req \in ReqType
    BY HasProcess, Typed DEF Persisted, At
  <1>2. PICK next \in {"wait", "snapshot", "probe"} :
        /\ next = "wait" <=> req[r].kind = "foreground"
        /\ leaves => next = "snapshot"
        /\ req' = [req EXCEPT ![r] = [req[r] EXCEPT !.pc = next, !.lease = held]]
    BY DEF Persisted
  <1>3. /\ req[r].pc = "write" /\ writer[p] = r
        /\ writer' = [writer EXCEPT ![p] = NoOne]
        /\ \E says \in {copy[p], "unsure"} : file' = [file EXCEPT ![p] = says]
        /\ copy' = [copy EXCEPT ![p] = "absent"]
        /\ kept' = IF leaves THEN kept \cup {p} ELSE kept
        /\ UNCHANGED <<started, registered, os, supervisor, stop, reason, running, ready,
                       stray, unread>>
    BY DEF Persisted, End, At, child, meta
  <1>4. held \in BOOLEAN /\ (held => req[r].lease) /\ (leaves => ~held)
    BY <1>1 DEF Disarmed, ReqType
  <1> HIDE DEF held
  <1>5. /\ req' \in ReqType /\ SameRequests /\ req'[r].pc = next
        /\ req'[r].lease = held /\ \A q \in Requests \ {r} : req'[q] = req[q]
    BY <1>1, <1>2, <1>4 DEF ReqType, SameRequests
  <1> HIDE DEF p
  <1>6. copy[p] \in {"running", "ended"}
        /\ (supervisor[p] \in {"writing", "gone"} => copy[p] = "ended")
    BY <1>1, <1>3 DEF PInv, TypeOK, Writes
  <1>7. TypeOK'
    <2>1. /\ writer' \in [Processes -> Requests \cup {NoOne, Supervisor}]
          /\ copy' \in [Processes -> {"absent", "running", "ended"}]
          /\ file' \in [Processes -> {"absent", "running", "ended", "unsure"}]
          /\ kept' \subseteq Processes
      BY <1>1, <1>3, <1>6 DEF PInv, TypeOK
    <2>2. \A x \in Processes : writer'[x] = Supervisor <=> supervisor'[x] = "writing"
      BY <1>1, <1>3 DEF PInv, TypeOK
    <2>3. \A q \in Requests : req'[q].pc = "write" => writer'[req'[q].p] = q
      <3>1. \A q \in Requests \ {r} : req[q].pc = "write" =>
               writer[req[q].p] = q /\ req[q].p \in Processes
        BY HasProcess DEF PInv, TypeOK, At
      <3> QED
        BY <1>1, <1>3, <1>5, <3>1 DEF PInv, TypeOK
    <2> QED
      BY <1>3, <1>5, <2>1, <2>2, <2>3 DEF PInv, TypeOK, At, ReqType
  <1>8. Watch'
    <2>1. ~(p > started)
      BY HasProcess, <1>3 DEF p, PInv, TypeOK
    <2> QED
      BY <1>3, <2>1 DEF PInv, Watch, ReadyRuns
  <1>9. Writes'
    BY <1>1, <1>3, <1>6 DEF PInv, TypeOK, Writes, FileTellsEnd
  <1>10. Asking' /\ OneInBackground'
    BY <1>2, <1>3, <1>5, SameKeep, OneKeeps
  <1>11. Leaving'
    <2>1. \A q \in Requests : Launched(q)' <=> Launched(q)
      BY <1>5 DEF SameRequests, Launched
    <2>2. leaves => /\ Launched(r) /\ stop[p] \in Allowed /\ reason[p] \in Allowed
                  /\ \A q \in Requests : Launched(q) /\ req[q].p = p => q = r
      BY <1>3 DEF p, Launched, PInv, Leaving, Starting, Asking
    <2>3. ASSUME NEW x \in kept'
          PROVE  /\ stop'[x] \in Allowed /\ reason'[x] \in Allowed
                 /\ \A q \in Requests : Launched(q)' /\ req'[q].p = x =>
                      req'[q].kind = "background" /\ ~req'[q].lease
      <3>1. CASE x \in kept
        BY <1>3, <1>5, <2>1, <3>1 DEF PInv, Leaving, SameRequests
      <3>2. CASE x \notin kept
        <4>1. leaves /\ x = p
          BY <1>3, <2>3, <3>2
        <4> QED
          BY <1>3, <1>4, <1>5, <2>1, <2>2, <4>1 DEF SameRequests
      <3> QED
        BY <3>1, <3>2
    <2>4. ASSUME NEW q \in Requests, Launched(q)', req'[q].kind = "background",
                 req'[q].pc \in Starting
          PROVE  stop'[req'[q].p] \in Allowed /\ reason'[req'[q].p] \in Allowed
      BY <1>3, <1>5, <2>1, <2>4 DEF PInv, Leaving, Starting, SameRequests
    <2> QED
      BY <2>3, <2>4 DEF Leaving
  <1> QED
    BY <1>7, <1>8, <1>9, <1>10, <1>11 DEF PInv

\* Nobody but the launcher of a process that still holds it cancels it.
LEMMA CancelKeeps ==
    ASSUME PInv, NEW r \in Requests, NEW why \in {"timeout", "request_cancelled"},
           SameRequests, req' \in ReqType, UNCHANGED <<started, kept, reason, running>>,
           Launched(r), req[r].lease \/ req[r].kind = "foreground", req[r].pc # "new",
           req'[r].pc \in {"stopping", "over"}, \A q \in Requests \ {r} : req'[q] = req[q],
           stop' = Sent(req[r].p, why)
    PROVE  Asking' /\ Leaving' /\ OneInBackground'
  <1>1. Asking' /\ OneInBackground'
    BY SameKeep, OneKeeps
  <1>2. req[r].p \in Processes /\ req[r].p \notin kept
        /\ \A q \in Requests : Launched(q) /\ req[q].p = req[r].p => q = r
    BY HasProcess DEF PInv, Leaving, Asking, Launched
  <1>3. \A x \in Processes : x # req[r].p => stop'[x] = stop[x]
    BY DEF Sent, PInv, TypeOK
  <1>4. \A q \in Requests : Launched(q)' <=> Launched(q)
    BY DEF SameRequests, Launched
  <1>5. ASSUME NEW x \in kept'
        PROVE  /\ stop'[x] \in Allowed /\ reason'[x] \in Allowed
               /\ \A q \in Requests : Launched(q)' /\ req'[q].p = x =>
                    req'[q].kind = "background" /\ ~req'[q].lease
    BY <1>2, <1>3, <1>4, <1>5 DEF PInv, TypeOK, Leaving, SameRequests
  <1>6. ASSUME NEW q \in Requests, Launched(q)', req'[q].kind = "background",
               req'[q].pc \in Starting
        PROVE  stop'[req'[q].p] \in Allowed /\ reason'[req'[q].p] \in Allowed
    <2>1. q # r /\ Launched(q) /\ req[q].kind = "background" /\ req[q].pc \in Starting
      BY <1>4, <1>6 DEF Starting, SameRequests
    <2>2. req[q].p # req[r].p /\ req[q].p \in Processes
      BY <1>2, <2>1, HasProcess DEF Starting
    <2> QED
      BY <1>3, <2>1, <2>2 DEF PInv, Leaving
  <1> QED
    BY <1>1, <1>5, <1>6 DEF Leaving

LEMMA InterruptKeeps ==
    ASSUME PInv, NEW r \in Requests, NEW why \in {"timeout", "request_cancelled"},
           Interrupt(r, why)
    PROVE  PInv'
  <1>1. /\ req' = [req EXCEPT ![r].pc = "stopping"] /\ stop' = Sent(req[r].p, why)
        /\ req[r].pc \in {"wait", "probe", "probing"}
        /\ UNCHANGED <<started, registered, os, supervisor, reason, running, ready, file,
                       writer, copy, stray, unread, kept>>
    BY DEF Interrupt, At, Go, meta, disk
  <1>2. Launched(r) /\ (req[r].lease \/ req[r].kind = "foreground")
    BY DEF Interrupt, At, PInv, Asking, Launched
  <1>3. /\ req' \in ReqType /\ SameRequests /\ req'[r].pc = "stopping"
        /\ \A q \in Requests \ {r} : req'[q] = req[q]
    BY <1>1, Typed DEF ReqType, SameRequests
  <1>4. TypeOK'
    <2>1. stop' \in [Processes -> Reasons]
      BY <1>1 DEF Sent, PInv, TypeOK, Reasons
    <2>2. \A q \in Requests : req'[q].pc = "write" => req[q].pc = "write" /\ req'[q] = req[q]
      BY <1>3
    <2> QED
      BY <1>1, <1>3, <2>1, <2>2 DEF PInv, TypeOK, ReqType, At
  <1>5. Watch' /\ Writes'
    <2>1. \A x \in Processes : x > started => stop'[x] = stop[x]
      BY <1>1 DEF Sent, PInv, TypeOK, Watch
    <2> QED
      BY <1>1, <2>1 DEF PInv, Watch, ReadyRuns, Writes, FileTellsEnd
  <1>6. Asking' /\ Leaving' /\ OneInBackground'
    BY <1>1, <1>2, <1>3, CancelKeeps
  <1> QED
    BY <1>4, <1>5, <1>6 DEF PInv

LEMMA DroppedKeeps == ASSUME PInv, NEW r \in Requests, Dropped(r) PROVE PInv'
  <1> USE ProjectProcessAssumption
  <1> DEFINE p == req[r].p
  <1>1. /\ req[r].pc \notin {"new", "over"}
        /\ req' = [req EXCEPT ![r] = [@ EXCEPT !.pc = "over", !.lease = FALSE,
                                               !.probed = FALSE]]
        /\ stop' = IF req[r].lease THEN Sent(p, "request_cancelled") ELSE stop
        /\ UNCHANGED <<started, registered, os, supervisor, reason, running, ready, file,
                       unread, kept>>
    BY DEF Dropped, Over, meta
  <1>2. /\ req' \in ReqType /\ SameRequests /\ req'[r].pc = "over"
        /\ \A q \in Requests \ {r} : req'[q] = req[q]
    BY <1>1, Typed DEF ReqType, SameRequests
  <1>3. p \in Processes /\ ~(p > started)
    BY <1>1, HasProcess DEF PInv, TypeOK
  <1>4. \/ /\ req[r].pc = "write" /\ writer[p] = r
           /\ stray' = stray \cup {r}
           /\ writer' = [writer EXCEPT ![p] = NoOne]
           /\ copy' = [copy EXCEPT ![p] = "absent"]
        \/ req[r].pc # "write" /\ UNCHANGED <<stray, writer, copy>>
    BY DEF Dropped, At, PInv, TypeOK
  <1> HIDE DEF p
  <1>5. TypeOK'
    <2>1. stop' \in [Processes -> Reasons]
      BY <1>1 DEF Sent, PInv, TypeOK, Reasons
    <2>2. /\ writer' \in [Processes -> Requests \cup {NoOne, Supervisor}]
          /\ copy' \in [Processes -> {"absent", "running", "ended"}]
          /\ stray' \subseteq Requests
      BY <1>3, <1>4 DEF PInv, TypeOK
    <2>3. \A x \in Processes : writer'[x] = Supervisor <=> supervisor'[x] = "writing"
      BY <1>1, <1>3, <1>4 DEF PInv, TypeOK
    <2>4. \A q \in Requests : req'[q].pc = "write" => writer'[req'[q].p] = q
      <3>1. \A q \in Requests \ {r} : req[q].pc = "write" =>
               writer[req[q].p] = q /\ req[q].p \in Processes
        BY HasProcess DEF PInv, TypeOK, At
      <3> QED
        BY <1>2, <1>3, <1>4, <3>1 DEF PInv, TypeOK
    <2> QED
      BY <1>1, <1>2, <2>1, <2>2, <2>3, <2>4 DEF PInv, TypeOK, At, ReqType
  <1>6. Watch'
    <2>1. \A x \in Processes : x > started => stop'[x] = stop[x]
      BY <1>1 DEF Sent, PInv, TypeOK, Watch
    <2> QED
      BY <1>1, <2>1 DEF PInv, Watch, ReadyRuns
  <1>7. Writes'
    BY <1>1, <1>3, <1>4 DEF PInv, TypeOK, Writes, FileTellsEnd
  <1>8. Asking' /\ Leaving' /\ OneInBackground'
    <2>1. CASE req[r].lease
      <3>1. Launched(r)
        BY <2>1 DEF PInv, Asking
      <3> QED
        BY <1>1, <1>2, <2>1, <3>1, CancelKeeps DEF p
    <2>2. CASE ~req[r].lease
      <3>1. \A q \in Requests : req'[q].pc \in Starting => req[q].pc \in Starting
        BY <1>2 DEF Starting
      <3> QED
        BY <1>1, <1>2, <2>2, <3>1, SameKeep, LeavingKeeps, OneKeeps
    <2> QED
      BY <2>1, <2>2
  <1> QED
    BY <1>5, <1>6, <1>7, <1>8 DEF PInv

\* Reuse, Query and Stop: a new request that launches nothing.
LEMMA GuestKeeps ==
    ASSUME PInv, NEW r \in Requests, NEW p \in Processes,
           Reuse(r, p) \/ Query(r, p) \/ Stop(r, p)
    PROVE  PInv'
  <1>1. /\ req[r].pc = "new" /\ p \in registered
        /\ \A q \in Requests \ {r} : req'[q] = req[q]
        /\ req' \in ReqType /\ req'[r].p = p /\ req'[r].lease = req[r].lease
        /\ req'[r].pc \in {"probe", "stopping", "snapshot"}
        /\ req'[r].kind \in {"query", "stop"} \/ (req'[r].kind = "background" /\ req'[r].reused)
    <2>0. req \in ReqType /\ p \in 0..MaxProcesses
      BY Typed, ProjectProcessAssumption DEF Processes
    <2>1. CASE Reuse(r, p)
      <3>1. /\ req[r].pc = "new" /\ p \in registered
            /\ req' = [req EXCEPT ![r] = [req[r] EXCEPT !.kind = "background",
                              !.pc = "probe", !.p = p, !.reused = TRUE]]
        BY <2>1 DEF Reuse, Reusable, At
      <3> QED
        BY <2>0, <3>1 DEF ReqType, Kinds
    <2>2. CASE Query(r, p)
      <3>1. /\ req[r].pc = "new" /\ p \in registered
            /\ req' = [req EXCEPT ![r] = [req[r] EXCEPT !.kind = "query",
                              !.pc = "probe", !.p = p]]
        BY <2>2 DEF Query, At
      <3> QED
        BY <2>0, <3>1 DEF ReqType, Kinds
    <2>3. CASE Stop(r, p)
      <3>1. PICK to \in {"stopping", "snapshot"} :
              req' = [req EXCEPT ![r] = [req[r] EXCEPT !.kind = "stop", !.p = p,
                                                       !.pc = to]]
        BY <2>3 DEF Stop
      <3>2. req[r].pc = "new" /\ p \in registered
        BY <2>3 DEF Stop, At
      <3> QED
        BY <2>0, <3>1, <3>2 DEF ReqType, Kinds
    <2> QED
      BY <2>1, <2>2, <2>3
  <1>2. /\ ready' \subseteq ready
        /\ stop' \in {stop, Sent(p, "requested_stop")}
        /\ UNCHANGED <<started, registered, os, supervisor, reason, running, file, writer,
                       copy, stray, unread, kept>>
    BY DEF Reuse, Query, Stop, child, meta, disk
  <1>3. p \in 1..started /\ ~req[r].lease
    BY <1>1 DEF PInv, TypeOK, Asking
  <1>4. TypeOK'
    <2>1. stop' \in [Processes -> Reasons]
      BY <1>2 DEF Sent, PInv, TypeOK, Reasons
    <2>2. \A q \in Requests : req'[q].pc = "write" => req[q].pc = "write" /\ req'[q] = req[q]
      BY <1>1
    <2> QED
      BY <1>1, <1>2, <2>1, <2>2 DEF PInv, TypeOK, ReqType, At
  <1>5. Watch' /\ Writes'
    <2>1. \A x \in Processes : x > started => stop'[x] = stop[x]
      BY <1>2 DEF Sent, PInv, TypeOK, Watch
    <2> QED
      BY <1>2, <2>1 DEF PInv, Watch, ReadyRuns, Writes, FileTellsEnd
  <1>6. ~Launched(r)' /\ \A q \in Requests \ {r} : Launched(q)' <=> Launched(q)
    BY <1>1 DEF Launched
  <1>7. Asking'
    BY <1>1, <1>2, <1>3, <1>6 DEF PInv, Asking
  <1>8. Leaving'
    <2>1. \A x \in Processes : stop[x] \in Allowed => stop'[x] \in Allowed
      BY <1>2 DEF Sent, Allowed, PInv, TypeOK
    <2>2. ASSUME NEW x \in kept'
          PROVE  /\ stop'[x] \in Allowed /\ reason'[x] \in Allowed
                 /\ \A q \in Requests : Launched(q)' /\ req'[q].p = x =>
                      req'[q].kind = "background" /\ ~req'[q].lease
      BY <1>1, <1>2, <1>6, <2>1, <2>2 DEF PInv, TypeOK, Leaving
    <2>3. ASSUME NEW q \in Requests, Launched(q)', req'[q].kind = "background",
                 req'[q].pc \in Starting
          PROVE  stop'[req'[q].p] \in Allowed /\ reason'[req'[q].p] \in Allowed
      <3>1. q # r /\ req[q].p \in Processes
        BY <1>1, <1>6, <2>3, HasProcess DEF Starting
      <3> QED
        BY <1>1, <1>2, <1>6, <2>1, <2>3, <3>1 DEF PInv, Leaving
    <2> QED
      BY <2>2, <2>3 DEF Leaving
  <1>9. OneInBackground'
    <2>1. ASSUME NEW a \in running', NEW b \in running', a < b, NEW q \in Requests,
                 req'[q].p = b, req'[q].kind = "background", ~req'[q].reused
          PROVE  FALSE
      <3>1. q # r
        BY <1>1, <2>1
      <3> QED
        BY <1>1, <1>2, <2>1, <3>1 DEF PInv, OneInBackground
    <2> QED
      BY <2>1 DEF OneInBackground
  <1> QED
    BY <1>4, <1>5, <1>7, <1>8, <1>9 DEF PInv

\* The new process has no trace in a file, in the registry or at a request.
LEMMA LaunchKeeps ==
    ASSUME PInv, NEW r \in Requests, NEW kind \in {"foreground", "background"},
           Launch(r, kind)
    PROVE  PInv'
  <1> USE ProjectProcessAssumption
  <1> DEFINE p == started + 1
  <1>1. /\ req[r].pc = "new" /\ started < MaxProcesses
        /\ kind = "background" => Reusable = {}
        /\ started' = p
        /\ registered' = (registered \ Evicted) \cup {p}
        /\ os' = [os EXCEPT ![p] = "alive"]
        /\ supervisor' = [supervisor EXCEPT ![p] = "watch"]
        /\ running' = running \cup {p}
        /\ req' = [req EXCEPT ![r] = [req[r] EXCEPT !.kind = kind, !.pc = "persist",
                                                    !.p = p, !.lease = TRUE]]
        /\ UNCHANGED <<stop, reason, ready, file, writer, copy, stray, unread, kept>>
    BY DEF Launch, At, MayStart, Lease, disk
  <1>2. started \in Nat /\ p \in Processes /\ p > started /\ p \in 0..MaxProcesses
    BY <1>1 DEF PInv, TypeOK, Processes
  <1> HIDE DEF p
  <1>3. /\ req' \in ReqType /\ \A q \in Requests \ {r} : req'[q] = req[q]
        /\ req'[r].kind = kind /\ req'[r].pc = "persist" /\ req'[r].p = p
        /\ req'[r].lease /\ req'[r].reused = req[r].reused
    BY <1>1, <1>2, Typed DEF ReqType, Kinds
  <1>4. supervisor[p] = "none" /\ p \notin kept /\ stop[p] = "none" /\ reason[p] = "none"
    BY <1>2 DEF PInv, Watch
  <1>5. Evicted \cap running = {}
    BY DEF Evicted
  <1>6. TypeOK'
    <2>1. started' \in 0..MaxProcesses /\ registered' \subseteq 1..started'
      BY <1>1, <1>2 DEF p, PInv, TypeOK
    <2>2. /\ os' \in [Processes -> {"none", "alive", "dead"}]
          /\ supervisor' \in [Processes ->
                {"none", "watch", "drain", "marked", "writing", "gone"}]
          /\ running' \subseteq Processes
          /\ \A x \in Processes : supervisor'[x] = "writing" <=> supervisor[x] = "writing"
      BY <1>1, <1>2, <1>4 DEF PInv, TypeOK
    <2>3. \A q \in Requests : req'[q].pc = "write" => req[q].pc = "write" /\ req'[q] = req[q]
      BY <1>3
    <2> QED
      BY <1>1, <1>3, <2>1, <2>2, <2>3 DEF PInv, TypeOK, ReqType, At
  <1>7. Watch'
    <2>1. \A x \in Processes : x > started' => x > started /\ x # p
      BY <1>1, <1>2 DEF p, Processes
    <2>2. running' \subseteq registered'
      BY <1>1, <1>5 DEF PInv, Watch
    <2> QED
      BY <1>1, <1>2, <2>1, <2>2 DEF PInv, TypeOK, Watch, ReadyRuns
  <1>8. Writes'
    BY <1>1, <1>2, <1>4 DEF PInv, TypeOK, Writes, FileTellsEnd
  <1>9. \A q \in Requests \ {r} : /\ Launched(q)' <=> Launched(q)
                                  /\ Launched(q) => req[q].p \in 1..started /\ req[q].p # p
    <2>1. \A q \in Requests : Launched(q) => req[q].pc # "new"
      BY DEF PInv, Asking, Launched
    <2> QED
      BY <1>2, <1>3, <2>1 DEF p, PInv, Asking, Launched
  <1>10. Asking'
    <2>1. 1..started \subseteq 1..started' /\ p \in 1..started'
      BY <1>1, <1>2 DEF p
    <2>2. ~req'[r].reused
      BY <1>1, <1>3 DEF PInv, Asking
    <2>3. ASSUME NEW q \in Requests
          PROVE  /\ req'[q].pc = "new" =>
                      req'[q].kind = "none" /\ ~req'[q].reused /\ ~req'[q].lease
                 /\ req'[q].pc # "new" => req'[q].p \in 1..started'
                 /\ req'[q].lease => Launched(q)'
                 /\ req'[q].pc = "wait" => req'[q].kind = "foreground"
                 /\ req'[q].kind = "foreground" => ~req'[q].reused
      <3>1. CASE q = r
        BY <1>3, <2>1, <2>2, <3>1 DEF Launched
      <3>2. CASE q # r
        BY <1>3, <1>9, <2>1, <3>2 DEF PInv, Asking
      <3> QED
        BY <3>1, <3>2
    <2>4. ASSUME NEW a \in Requests, NEW b \in Requests, Launched(a)', Launched(b)',
                 req'[a].p = req'[b].p
          PROVE  a = b
      BY <1>3, <1>9, <2>4 DEF PInv, Asking
    <2> QED
      BY <2>3, <2>4 DEF Asking
  <1>11. Leaving'
    <2>1. ASSUME NEW x \in kept'
          PROVE  /\ stop'[x] \in Allowed /\ reason'[x] \in Allowed
                 /\ \A q \in Requests : Launched(q)' /\ req'[q].p = x =>
                      req'[q].kind = "background" /\ ~req'[q].lease
      BY <1>1, <1>3, <1>4, <1>9, <2>1 DEF PInv, Leaving
    <2>2. ASSUME NEW q \in Requests, Launched(q)', req'[q].kind = "background",
                 req'[q].pc \in Starting
          PROVE  stop'[req'[q].p] \in Allowed /\ reason'[req'[q].p] \in Allowed
      BY <1>1, <1>3, <1>4, <1>9, <2>2 DEF PInv, Leaving, Allowed
    <2> QED
      BY <2>1, <2>2 DEF Leaving
  <1>12. OneInBackground'
    <2>1. ASSUME NEW a \in running', NEW b \in running', a < b, NEW q \in Requests,
                 req'[q].p = b, req'[q].kind = "background", ~req'[q].reused
          PROVE  FALSE
      <3>1. CASE q = r
        <4>1. b = p /\ kind = "background" /\ a # p
          BY <1>2, <1>3, <2>1, <3>1
        <4>2. a \in registered /\ a \in running
          BY <1>1, <2>1, <4>1 DEF PInv, Watch
        <4> QED
          BY <1>1, <4>1, <4>2 DEF Reusable
      <3>2. CASE q # r
        <4>1. req[q].p = b /\ req[q].kind = "background" /\ ~req[q].reused
          BY <1>3, <2>1, <3>2
        <4>2. b \in 1..started
          BY <1>9, <3>2, <4>1 DEF Launched
        <4>3. a \in running /\ b \in running
          BY <1>1, <1>2, <2>1, <4>2 DEF p, PInv, TypeOK, Processes
        <4> QED
          BY <2>1, <4>1, <4>3 DEF PInv, OneInBackground
      <3> QED
        BY <3>1, <3>2
    <2> QED
      BY <2>1 DEF OneInBackground
  <1> QED
    BY <1>6, <1>7, <1>8, <1>10, <1>11, <1>12 DEF PInv

LEMMA PInvStep == PInv /\ [Next]_vars => PInv'
  <1> SUFFICES ASSUME PInv, [Next]_vars PROVE PInv'
    OBVIOUS
  <1>1. ASSUME NEW r \in Requests, Ask(r) PROVE PInv'
    BY <1>1, LaunchKeeps, GuestKeeps DEF Ask
  <1>2. ASSUME NEW r \in Requests, Proceed(r) PROVE PInv'
    BY <1>2, PersistKeeps, PersistedKeeps, StepsOnTheWay, InterruptKeeps DEF Proceed
  <1>3. ASSUME NEW r \in Requests,
               Dropped(r) \/ Interrupt(r, "request_cancelled") \/ StrayWrite(r)
        PROVE  PInv'
    BY <1>3, DroppedKeeps, InterruptKeeps, StrayKeeps
  <1>4. ASSUME NEW p \in Processes, Supervise(p) PROVE PInv'
    BY <1>4, EndsKeep, MarkKeeps, WriteEndKeeps DEF Supervise
  <1>5. ASSUME NEW p \in Processes, Output(p) \/ Push(p) \/ Exit(p)
        PROVE  PInv'
    BY <1>5, OutputKeeps, EndsKeep
  <1>6. CASE UNCHANGED vars
    <2>1. UNCHANGED <<started, registered, os, supervisor, stop, reason, running, ready,
                      file, writer, copy, stray, kept, req, unread>>
      BY <1>6 DEF vars, child, meta, disk
    <2> QED
      BY <2>1, Typed, QuietKeeps DEF SameRequests, PInv, TypeOK, Watch, ReadyRuns
  <1> QED
    BY <1>1, <1>2, <1>3, <1>4, <1>5, <1>6 DEF Next

-----------------------------------------------------------------------------
(* What holds in every run *)

LEMMA AlwaysPInv == Spec => []PInv
  BY PInvInit, PInvStep, PTL DEF Spec

(* The variables keep their types, and only one writer at a time is at the *)
(* metadata file of a process.                                             *)
THEOREM TypesOfProcesses == Spec => []TypeOK
  <1>1. PInv => TypeOK
    BY DEF PInv
  <1> QED
    BY <1>1, AlwaysPInv, PTL

(* However long a probe looks, what it saw of a listener is not written    *)
(* down of a process that has ended meanwhile.                             *)
THEOREM ProbesAreNotStale == Spec => []ReadyRuns
  <1>1. PInv => ReadyRuns
    BY DEF PInv, Watch
  <1> QED
    BY <1>1, AlwaysPInv, PTL

(* The last state written of a process is that it ended, whoever else was  *)
(* writing, unless a write of a dropped request came over it or the write  *)
(* itself failed.                                                          *)
THEOREM EndIsWrittenLast == Spec => []FileTellsEnd
  <1>1. PInv => FileTellsEnd
    BY DEF PInv, Writes
  <1> QED
    BY <1>1, AlwaysPInv, PTL

(* Records make room for others without a process getting out of reach.    *)
THEOREM RegistryReaches == Spec => []AliveIsReachable
  <1>1. PInv => AliveIsReachable
    BY DEF PInv, Watch, AliveIsReachable
  <1> QED
    BY <1>1, AlwaysPInv, PTL

(* No cancel, timeout or dropped request ends a process after a background *)
(* launch left it to the host.                                             *)
THEOREM LeftProcessesStay == Spec => []HostKeeps
  <1>1. PInv => HostKeeps
    BY DEF PInv, Leaving, Allowed, HostKeeps
  <1> QED
    BY <1>1, AlwaysPInv, PTL

(* Background launches never start the script beside one that runs.        *)
THEOREM BackgroundStartsOnce == Spec => []OneInBackground
  <1>1. PInv => OneInBackground
    BY DEF PInv
  <1> QED
    BY <1>1, AlwaysPInv, PTL
=============================================================================
