----------------------------- MODULE AsyncJobs -----------------------------
(***************************************************************************)
(* Work that outlives the call that started it: image checks on executors  *)
(* of this process (visual_jobs.rs) and tasks of plugins                   *)
(* (plugin_jobs.rs), how single_agent.rs brings their results into the     *)
(* context of the conversation, and how a turn waits for them.             *)
(*                                                                         *)
(* One worker (TaskRuns) and one frame: a job that belongs to another      *)
(* frame waits for that frame in the same way.  The calls themselves and   *)
(* their answers are the subject of ToolCalls; a repeated identical check  *)
(* returns the job there is and is not a step.  What a plugin answers when *)
(* it is asked about a task is its own affair, and so is whether it ever   *)
(* finishes.                                                               *)
(***************************************************************************)
EXTENDS Naturals, FiniteSets

CONSTANTS
    Checks,      \* image checks, each asked for once
    Tasks,       \* background tasks of plugins
    Lanes,       \* permits of LIMIT: checks that run at a time
    QueueLimit,  \* checks queued or running
    MaxTurns     \* bound: turns, each answered, failed or cut off by a crash

ASSUME AsyncJobsAssumption ==
    /\ Checks \cap Tasks = {}
    /\ Lanes \in Nat \ {0} /\ QueueLimit \in Nat \ {0} /\ MaxTurns \in Nat

Jobs == Checks \cup Tasks

VARIABLES
    check,      \* agent_visual_jobs: status
    delivered,  \* agent_visual_jobs: rows marked delivered
    task,       \* agent_plugin_jobs: status
    saved,      \* results of each job in the saved context
    events,     \* jobs with a tool/async_result or tool/result event
    executor,   \* RUNNING and the tasks of the runtime behind it
    stopped,    \* executors whose token is cancelled
    pc, aim,    \* the worker, and where it goes once it has looked at the jobs
    mine,       \* results of each job in its context
    left,       \* jobs still to handle in this pass
    taken,      \* checks whose event is written, not yet delivered
    fresh,      \* a plugin task was delivered in this pass
    waits,      \* what the turn waits for before it ends
    late,       \* the deadline of the wait for plugin tasks has passed
    published,  \* the reply was shown as an answer, not as a draft
    turns,
    cut         \* history: tasks whose result went down with a worker

rows     == <<check, delivered, task, saved, events>>
engine   == <<executor, stopped>>
pass     == <<mine, left, taken, fresh>>
reply    == <<waits, late, published>>
jvars     == <<rows, engine, pc, aim, pass, reply, turns, cut>>

Live  == {c \in Checks : check[c] \in {"queued", "running"}}
Final == {"completed", "failed", "cancelled", "interrupted"}

JInit ==
    /\ check = [c \in Checks |-> "none"] /\ delivered = {}
    /\ task = [t \in Tasks |-> "none"]
    /\ saved = [j \in Jobs |-> 0] /\ events = {}
    /\ executor = [c \in Checks |-> "none"] /\ stopped = {}
    /\ pc = "off" /\ aim = "model"
    /\ mine = saved /\ left = {} /\ taken = {} /\ fresh = FALSE
    /\ waits = "no" /\ late = FALSE /\ published = FALSE
    /\ turns = 0 /\ cut = {}

-----------------------------------------------------------------------------
(* Executors of checks *)

Working == {c \in Checks : executor[c] = "working"}

Admitted(c) ==
    /\ executor[c] = "waiting" /\ c \notin stopped
    /\ Cardinality(Working) < Lanes
    /\ executor' = [executor EXCEPT ![c] = "working"]
    /\ check' = [check EXCEPT ![c] = "running"]
    /\ UNCHANGED <<delivered, task, saved, events, stopped, pc, aim, pass,
                   reply, turns, cut>>

Refused(c) ==
    /\ executor[c] = "waiting" /\ c \in stopped
    /\ executor' = [executor EXCEPT ![c] = "cancelled"]
    /\ UNCHANGED <<rows, stopped, pc, aim, pass, reply, turns, cut>>

\* A check that comes to its end after it was cancelled counts as cancelled.
Finish(c) ==
    /\ executor[c] = "working"
    /\ \E outcome \in {"completed", "failed", "cancelled"} :
          /\ (outcome = "cancelled") <=> (c \in stopped)
          /\ executor' = [executor EXCEPT ![c] = outcome]
    /\ UNCHANGED <<rows, stopped, pc, aim, pass, reply, turns, cut>>

\* Status and result in one transaction, whose failure nobody hears of.
Store(c) ==
    /\ executor[c] \in Final
    /\ executor' = [executor EXCEPT ![c] = "leaving"]
    /\ check' = [check EXCEPT ![c] = executor[c]] \/ UNCHANGED check
    /\ UNCHANGED <<delivered, task, saved, events, stopped, pc, aim, pass,
                   reply, turns, cut>>

\* Guard::drop, also when the check panics.
Depart(c) ==
    /\ executor[c] \in {"leaving", "working"}
    /\ executor' = [executor EXCEPT ![c] = "none"]
    /\ UNCHANGED <<rows, stopped, pc, aim, pass, reply, turns, cut>>

-----------------------------------------------------------------------------
(* The worker.  Whoever looks at the checks reaps first: it lists the live *)
(* ones, then settles those that have no executor.                         *)

Moves(from, to) == pc = from /\ pc' = to
LookThen(goal) == pc' = "list" /\ aim' = goal

StartTurn ==
    /\ pc \in {"off", "answered"} /\ turns < MaxTurns
    /\ turns' = turns + 1
    /\ LookThen("ready")
    /\ mine' = saved /\ left' = {} /\ taken' = {} /\ fresh' = FALSE
    /\ waits' = "no" /\ late' = FALSE /\ published' = FALSE
    /\ UNCHANGED <<rows, engine, cut>>

List ==
    /\ Moves("list", "reap")
    /\ left' = Live
    /\ UNCHANGED <<rows, engine, aim, mine, taken, fresh, reply, turns, cut>>

OrphanUnguarded(c) == executor[c] = "none"
OrphanOfQueue(c) == executor[c] = "none" /\ check[c] = "queued"
Orphan(c) == executor[c] = "none" /\ c \in Live

Reap(c) ==
    /\ pc = "reap" /\ c \in left
    /\ left' = left \ {c}
    /\ check' = IF Orphan(c) THEN [check EXCEPT ![c] = "interrupted"] ELSE check
    /\ UNCHANGED <<delivered, task, saved, events, engine, pc, aim, mine,
                   taken, fresh, reply, turns, cut>>

ReadyChecks == {c \in Checks : check[c] \in Final /\ c \notin delivered}
HasChecks     == Live \cup ReadyChecks
HasTasks      == {t \in Tasks : task[t] = "pending"}

AfterChecks == IF waits = "checks" THEN "waiting" ELSE "tasks"

\* deliver_visual_jobs: what is ready now ...
Collect ==
    /\ pc = "reap" /\ left = {} /\ aim = "ready"
    /\ left' = ReadyChecks /\ taken' = {}
    /\ pc' = IF ReadyChecks = {} THEN AfterChecks ELSE "note"
    /\ UNCHANGED <<rows, engine, aim, mine, fresh, reply, turns, cut>>

\* ... is recorded job by job,
Note(c) ==
    /\ pc = "note" /\ c \in left
    /\ events' = events \cup {c}
    /\ left' = left \ {c} /\ taken' = taken \cup {c}
    /\ UNCHANGED <<check, delivered, task, saved, engine, pc, aim, mine, fresh,
                   reply, turns, cut>>

With(context, jobs) ==
    [j \in Jobs |-> context[j] + IF j \in jobs THEN 1 ELSE 0]

\* ... and enters the context together with the mark on its rows.
Marked == delivered \cup taken

Deliver ==
    /\ Moves("note", AfterChecks) /\ left = {}
    /\ saved' = With(mine, taken)
    /\ mine' = saved'
    /\ delivered' = Marked
    /\ taken' = {}
    /\ UNCHANGED <<check, task, events, engine, aim, left, fresh, reply, turns,
                   cut>>

\* deliver_plugin_jobs: ask about every pending task.
AskPlugins ==
    /\ Moves("tasks", "ask")
    /\ left' = HasTasks /\ fresh' = FALSE
    /\ UNCHANGED <<rows, engine, aim, mine, taken, reply, turns, cut>>

StillRunning(t) ==
    /\ pc = "ask" /\ t \in left
    /\ left' = left \ {t}
    /\ UNCHANGED <<rows, engine, pc, aim, mine, taken, fresh, reply, turns, cut>>

\* It finished; a query that fails counts as finished too.
Finished(t) ==
    /\ pc = "ask" /\ t \in left
    /\ events' = events \cup {t}
    /\ mine' = With(mine, {t})
    /\ pc' = "complete" /\ taken' = {t}
    /\ UNCHANGED <<check, delivered, task, saved, engine, aim, left, fresh,
                   reply, turns, cut>>

Complete(t) ==
    /\ Moves("complete", "ask") /\ t \in taken
    /\ task' = [task EXCEPT ![t] = "delivered"]
    /\ left' = left \ {t} /\ taken' = {} /\ fresh' = TRUE
    /\ UNCHANGED <<check, delivered, saved, events, engine, aim, mine, reply,
                   turns, cut>>

SavedNever == saved
SavedNow == IF fresh THEN mine ELSE saved

\* Back to the top of the loop when something arrived that was waited for.
Asked ==
    /\ pc = "ask" /\ left = {}
    /\ saved' = SavedNow
    /\ \/ waits = "no" /\ pc' = "model" /\ UNCHANGED <<aim, reply>>
       \/ waits = "tasks" /\ fresh /\ LookThen("ready")
          /\ waits' = "no" /\ UNCHANGED <<late, published>>
       \/ waits = "tasks" /\ ~fresh /\ pc' = "waiting" /\ UNCHANGED <<aim, reply>>
    /\ UNCHANGED <<check, delivered, task, events, engine, pass, turns, cut>>

\* The model asks for a check (submit), looks at the checks
\* (image_analysis_results) ...
Submit(c) ==
    /\ pc = "model" /\ check[c] = "none" /\ Cardinality(Live) < QueueLimit
    /\ check' = [check EXCEPT ![c] = "queued"]
    /\ executor' = [executor EXCEPT ![c] = "waiting"]
    /\ LookThen("ready")
    /\ UNCHANGED <<delivered, task, saved, events, stopped, pass, reply, turns,
                   cut>>

Look ==
    /\ pc = "model" /\ LookThen("top")
    /\ UNCHANGED <<rows, engine, pass, reply, turns, cut>>

Looked ==
    /\ pc = "reap" /\ left = {} /\ aim = "top"
    /\ LookThen("ready")
    /\ UNCHANGED <<rows, engine, pass, reply, turns, cut>>

\* ... starts a task of a plugin, which is recorded once it was accepted,
Accept(t) ==
    /\ Moves("model", "record") /\ task[t] = "none"
    /\ taken' = {t}
    /\ UNCHANGED <<rows, engine, aim, mine, left, fresh, reply, turns, cut>>

Record(t) ==
    /\ pc = "record" /\ t \in taken
    /\ task' = [task EXCEPT ![t] = "pending"]
    /\ taken' = {} /\ LookThen("ready")
    /\ UNCHANGED <<check, delivered, saved, events, engine, mine, left, fresh,
                   reply, turns, cut>>

\* ... or asks about one itself: a finished task needs no delivery then, and
\* the answer of the call holds the result.
QueryTask(t) ==
    /\ Moves("model", "answering") /\ t \in HasTasks
    /\ task' = [task EXCEPT ![t] = "delivered"]
    /\ mine' = With(mine, {t})
    /\ taken' = {t}
    /\ UNCHANGED <<check, delivered, saved, events, engine, aim, left, fresh,
                   reply, turns, cut>>

AnswerCall ==
    /\ pc = "answering"
    /\ events' = events \cup taken
    /\ saved' = mine
    /\ taken' = {} /\ LookThen("ready")
    /\ UNCHANGED <<check, delivered, task, engine, mine, left, fresh, reply,
                   turns, cut>>

\* ... or replies.  While jobs are out the reply is a draft.
AwaitingAsync == HasChecks \cup HasTasks

Reply ==
    /\ pc = "model" /\ LookThen("decide")
    /\ published' = (AwaitingAsync = {})
    /\ UNCHANGED <<rows, engine, pass, waits, late, turns, cut>>

MayAnswerEarly == HasTasks = {} /\ Live = {}
MayAnswer      == HasTasks = {} /\ HasChecks = {}

\* Nothing is out: the turn is answered, unless the user said something.
Decide ==
    /\ pc = "reap" /\ left = {} /\ aim = "decide"
    /\ \/ /\ HasTasks # {}
          /\ pc' = "tasks" /\ waits' = "tasks"
          /\ UNCHANGED <<aim, published>>
       \/ /\ HasTasks = {} /\ HasChecks # {}
          /\ LookThen("ready") /\ waits' = "checks"
          /\ UNCHANGED published
       \/ /\ MayAnswer
          /\ \/ pc' = "answered" /\ UNCHANGED <<aim, published>>
             \/ LookThen("ready") /\ published' = FALSE
          /\ UNCHANGED waits
    /\ late' = FALSE
    /\ UNCHANGED <<rows, engine, pass, turns, cut>>

\* A wait: the checks that were waited for are all there, or another look.
Wait ==
    /\ pc = "waiting"
    /\ \/ /\ waits = "checks"
          /\ LookThen("ready")
          /\ waits' = IF HasChecks = {} THEN "no" ELSE "checks"
          /\ UNCHANGED published
       \/ /\ waits = "tasks" /\ ~late
          /\ pc' = "tasks" /\ UNCHANGED <<aim, waits, published>>
    /\ UNCHANGED <<rows, engine, pass, late, turns, cut>>

DeadlinePasses ==
    /\ waits = "tasks" /\ ~late
    /\ late' = TRUE
    /\ UNCHANGED <<rows, engine, pc, aim, pass, waits, published, turns, cut>>

Worker == pc \notin {"off", "answered"}
Lost == {t \in Tasks : task[t] = "delivered" /\ saved[t] = 0}

EndWith(status) ==
    /\ pc' = status /\ aim' = "model" /\ waits' = "no" /\ late' = FALSE
    /\ published' = FALSE
    /\ mine' = saved /\ left' = {} /\ taken' = {} /\ fresh' = FALSE
    /\ cut' = cut \cup Lost

\* run_task ends without an answer (a cancel, the deadline, an error, no more
\* rounds): visual_jobs::cancel, and the context in memory is dropped.
Fail ==
    /\ Worker /\ EndWith("off")
    /\ stopped' = stopped \cup {c \in Checks : executor[c] # "none"}
    /\ UNCHANGED <<rows, executor, turns>>

Overdue == pc = "waiting" /\ waits = "tasks" /\ late /\ Fail

\* The process ends, and with it every executor.
Crash ==
    /\ Worker \/ \E c \in Checks : executor[c] # "none"
    /\ IF Worker THEN EndWith("off")
       ELSE UNCHANGED <<pc, aim, waits, late, published, pass, cut>>
    /\ executor' = [c \in Checks |-> "none"] /\ stopped' = {}
    /\ UNCHANGED <<rows, turns>>

-----------------------------------------------------------------------------
Execute(c) == Admitted(c) \/ Refused(c) \/ Finish(c) \/ Store(c) \/ Depart(c)

\* What the worker does without the model, the user or a fault.
Handle ==
    \/ List \/ Collect \/ Deliver \/ AskPlugins \/ Asked \/ Looked \/ AnswerCall
    \/ Decide \/ Wait \/ Overdue
    \/ \E c \in Checks : Reap(c) \/ Note(c)
    \/ \E t \in Tasks : StillRunning(t) \/ Finished(t) \/ Complete(t) \/ Record(t)

Model ==
    \/ Look \/ Reply
    \/ \E c \in Checks : Submit(c)
    \/ \E t \in Tasks : Accept(t) \/ QueryTask(t)

JNext ==
    \/ StartTurn \/ Handle \/ Model \/ DeadlinePasses \/ Fail \/ Crash
    \/ \E c \in Checks : Execute(c)

JSpec == JInit /\ [][JNext]_jvars

\* The worker and the executors run, a vision request ends, a deadline passes.
JFairness ==
    /\ WF_jvars(Handle) /\ WF_jvars(DeadlinePasses)
    /\ \A c \in Checks : WF_jvars(Execute(c))
JFairSpec == JSpec /\ JFairness

-----------------------------------------------------------------------------
JTypeOK ==
    /\ check \in [Checks -> {"none", "queued", "running"} \cup Final]
    /\ delivered \subseteq Checks /\ events \subseteq Jobs
    /\ task \in [Tasks -> {"none", "pending", "delivered"}]
    /\ saved \in [Jobs -> 0..1] /\ mine \in [Jobs -> 0..1]
    /\ executor \in [Checks -> {"none", "waiting", "working", "leaving"} \cup Final]
    /\ stopped \subseteq Checks /\ left \subseteq Jobs /\ taken \subseteq Jobs
    /\ pc \in {"off", "list", "reap", "note", "tasks", "ask", "complete",
               "model", "record", "answering", "waiting", "answered"}
    /\ aim \in {"model", "ready", "top", "decide"}
    /\ waits \in {"no", "tasks", "checks"}
    /\ late \in BOOLEAN /\ fresh \in BOOLEAN /\ published \in BOOLEAN
    /\ turns \in 0..MaxTurns /\ cut \subseteq Tasks

(* The mark on a check and its result in the saved context are one: no     *)
(* result is marked and missing, and none is there twice, whatever stops   *)
(* the worker (deliver_visual_jobs writes both in one transaction).        *)
CheckHeardOnce ==
    \A c \in Checks : saved[c] = IF c \in delivered THEN 1 ELSE 0

(* The result of a plugin task is at risk only while the pass that handles *)
(* it runs: it is in the saved context, or in the context that is about to *)
(* be saved, unless a worker stopped in between; and it is never there     *)
(* twice.                                                                  *)
TaskHeard ==
    \A t \in Tasks : task[t] = "delivered" =>
        \/ saved[t] = 1
        \/ t \in cut
        \/ mine[t] = 1 /\ pc \in {"ask", "complete", "answering"}

(* A turn that ends with an answer has heard of every job the conversation *)
(* ever started, those of turns that failed or crashed included.           *)
AnswerHasHeard ==
    pc = "answered" =>
        /\ \A c \in Checks : check[c] # "none" => saved[c] = 1
        /\ \A t \in Tasks : task[t] # "none" => saved[t] = 1 \/ t \in cut

(* A result is final: the reader that settles checks without an executor   *)
(* never overwrites one that an executor stored after it was listed.       *)
ResultsAreFinal ==
    [][\A c \in Checks : check[c] \in Final => check'[c] = check[c]]_jvars

(* A turn does not wait for ever: a check whose executor died, panicked or *)
(* could not store its result is settled by the reader, and a plugin that  *)
(* never finishes is given up on.                                          *)
WaitsEnd == waits # "no" ~> waits = "no"
=============================================================================
