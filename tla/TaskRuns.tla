------------------------------ MODULE TaskRuns ------------------------------
(***************************************************************************)
(* The life of one conversation ("task") of the agent service:             *)
(* agent_service.rs with the outline of single_agent::run_task and the     *)
(* messages of interjections.rs.  A conversation has a row in agent_tasks  *)
(* (status), an append-only event table, and, in memory, one entry of the  *)
(* `cancellations` map while a run is registered.  HTTP handlers, the      *)
(* worker of a run, its supervisor, a crash and the recovery at the next   *)
(* start interleave over them.                                             *)
(*                                                                         *)
(* A request h stands for one POST and, once accepted, for the run it      *)
(* spawns: pc[h] first walks through the handler, then through the worker  *)
(* and its supervisor.  Conversations share no state but the plugin-wide   *)
(* stop flag, so one of them is modelled.                                  *)
(*                                                                         *)
(* Some definitions have a variant in front of them that no action uses    *)
(* (AcceptingAny before Accepting): a plausible mistake in that piece of   *)
(* code, against which the properties are tried.                           *)
(***************************************************************************)
EXTENDS Naturals, FiniteSets, FiniteSetsExt

CONSTANTS
    Requests,          \* HTTP requests that may start a run (their run_id)
    RequestIds,        \* requestId values clients attach to a message
    NoId, NoRun,       \* absent requestId; empty entry of `cancellations`
    MaxTurn,           \* bound: turns
    MaxInterjections,  \* bound: messages sent while a turn runs
    LoopFailures,      \* how a loop may give up: "failed", "max_steps"
    MaxFaults,         \* bound: failed database writes or worker panics
    MaxCrashes,        \* bound: process exits (crash or shutdown)
    MaxMishaps         \* bound: both together

ASSUME BoundsAssumption ==
    /\ MaxTurn \in Nat \ {0} /\ MaxInterjections \in Nat
    /\ MaxFaults \in Nat /\ MaxCrashes \in Nat /\ MaxMishaps \in Nat
    /\ LoopFailures \subseteq {"failed", "max_steps"}
ASSUME NamesAssumption == NoRun \notin Requests /\ NoId \notin RequestIds

VARIABLES
    status,        \* agent_tasks.status
    highWater,     \* agent_tasks.event_high_water
    events,        \* rows of agent_task_events
    admitted,      \* rows of agent_attachment_messages, keyed by turn
    interjections, \* rows of agent_interjections
    window,        \* event sequences the saved agent_runtime_windows refer to
    snapshots,     \* rows of agent_window_snapshots: the window before a turn
    deltas,        \* turns with assistant/delta rows (text as it streams in)
    host,          \* "down" from a crash until recovery has finished
    active,        \* the entry of AgentServiceState.cancellations
    cancelled,     \* runs whose CancellationToken is cancelled
    stopped,       \* plugin_cancel is cancelled
    pc, turn, requestId, mine, outcome,
    faults, crashes

stored   == <<status, highWater, events, admitted, interjections, window,
              snapshots, deltas>>
memory   == <<host, active, cancelled, stopped>>
run      == <<pc, turn, requestId, mine, outcome>>
budget   == <<faults, crashes>>
vars     == <<stored, memory, run, budget>>

-----------------------------------------------------------------------------
Turns == 1..MaxTurn

Terminal == {"completed", "failed", "cancelled", "max_steps", "interrupted"}
Statuses == {"absent", "draft", "running"} \cup Terminal

Kinds == {"context/main_reset", "turn/start", "user/message", "task/opened",
          "task/returned", "user/interjection", "user/interjection_delivered",
          "turn/end"}

\* Where a request stands.  Handler: created, accepted.  Worker: setup ...
\* finish.  Supervisor: fail ... clear.  gone: the handler ended after the
\* commit without a run.  dead: the process crashed.
WorkerSteps     == {"setup", "reset", "start", "message", "save", "open",
                    "loop", "ending", "end", "finish"}
SupervisorSteps == {"fail", "failfinish", "cleanup", "clear"}
Labels == {"idle", "created", "accepted", "gone", "done", "dead"}
              \cup WorkerSteps \cup SupervisorSteps

\* The phases in which a request has made the conversation 'running' and the
\* terminal status has not been written.
Holding    == {"created", "accepted", "fail", "failfinish"} \cup WorkerSteps
Registered == Holding \ {"created", "accepted"}

\* append_event_tx: the next sequence number, never one used before.
\* An event carries its turn (0: none), the reason of a turn/end and the
\* interjection a delivery refers to.
Event(i, kind, t, reason, refers) ==
    [seq |-> highWater + i, kind |-> kind, turn |-> t, reason |-> reason,
     refers |-> refers]

Append(kind, t, reason) ==
    /\ events' = events \cup {Event(1, kind, t, reason, 0)}
    /\ highWater' = highWater + 1

Of(kind)  == {e \in events : e.kind = kind}
Newest(E) == CHOOSE e \in E : \A f \in E : f.seq <= e.seq

\* continue_task numbers a turn after the largest turn any event carries.
NextTurn == Max({0} \cup {e.turn : e \in events}) + 1

\* recover_orphaned_tasks: the turn of the newest turn/start, 1 without one.
LastStarted ==
    IF Of("turn/start") = {} THEN 1 ELSE Newest(Of("turn/start")).turn

\* function_frames::active: a main task is still open under the conversation.
TaskOpen ==
    LET frames == Of("task/opened") \cup Of("task/returned")
    IN  frames # {} /\ Newest(frames).kind = "task/opened"

Pending == {i \in interjections : ~i.delivered}
Waiting == {i.seq : i \in Pending}

\* The statuses in which a conversation takes a message; those in which its
\* delta rows may go; the one recovery looks for.
AcceptingAny == Statuses \ {"absent"}
Accepting    == {"draft"} \cup Terminal

Resting == status \in Terminal

OrphanedActive == status = "running" /\ active # NoRun
Orphaned       == status = "running"

\* attachments::already, by the requestId; the primary key, by the turn.
SeenThisTurn(id) == [turn |-> NextTurn, id |-> id] \in admitted
AcceptedIds      == {a.id : a \in admitted} \ {NoId}
Seen(id)         == id \in AcceptedIds

Occupied(t)      == t \in {a.turn : a \in admitted}

\* The token of a run; the map entry after its supervisor is done.
StopOnly(h)  == stopped
Cancelled(h) == h \in cancelled

ReleasedAlways(h) == NoRun
Released(h)       == IF active = h THEN NoRun ELSE active

Unmarked(i) == i
Marked(i)   == [i EXCEPT !.delivered = TRUE]

Go(h, label) == pc' = [pc EXCEPT ![h] = label]

-----------------------------------------------------------------------------
(* HTTP handlers                                                           *)

Init ==
    /\ status = "absent"
    /\ highWater = 0
    /\ events = {} /\ admitted = {} /\ interjections = {}
    /\ window = {} /\ snapshots = {} /\ deltas = {}
    /\ host = "up" /\ active = NoRun /\ cancelled = {} /\ stopped = FALSE
    /\ pc = [h \in Requests |-> "idle"]
    /\ turn = [h \in Requests |-> 0]
    /\ requestId = [h \in Requests |-> NoId]
    /\ mine = [h \in Requests |-> {}]
    /\ outcome = [h \in Requests |-> "none"]
    /\ faults = 0 /\ crashes = 0

Serving == host = "up" /\ ~stopped

\* create_draft_task: an empty conversation.
CreateDraft ==
    /\ Serving /\ status = "absent"
    /\ status' = "draft"
    /\ UNCHANGED <<highWater, events, admitted, interjections, window,
                   snapshots, deltas, memory, run, budget>>

\* create_task up to the committed INSERT: born running, turn 1.
Create(h) ==
    /\ Serving /\ status = "absent" /\ pc[h] = "idle"
    /\ status' = "running"
    /\ turn' = [turn EXCEPT ![h] = 1]
    /\ Go(h, "created")
    /\ UNCHANGED <<highWater, events, admitted, interjections, window,
                   snapshots, deltas, memory, requestId, mine, outcome,
                   budget>>

\* continue_task up to its commit, one IMMEDIATE transaction: a requestId seen
\* before is answered "already accepted", a busy conversation 409, and the
\* message row is keyed by turn, so an occupied turn refuses the message too.
Continue(h, id) ==
    /\ Serving /\ pc[h] = "idle"
    /\ ~Seen(id)
    /\ status \in Accepting
    /\ NextTurn \in Turns /\ ~Occupied(NextTurn)
    /\ admitted' = admitted \cup {[turn |-> NextTurn, id |-> id]}
    /\ status' = "running"
    /\ turn' = [turn EXCEPT ![h] = NextTurn]
    /\ requestId' = [requestId EXCEPT ![h] = id]
    /\ Go(h, "accepted")
    /\ UNCHANGED <<highWater, events, interjections, window, snapshots,
                   deltas, memory, mine, outcome, budget>>

\* The saved provider is gone (409 after the commit), or the client hangs up
\* while the handler waits and the server drops it: no run is spawned.
Abandon(h) ==
    /\ pc[h] \in {"created", "accepted"}
    /\ Go(h, "gone")
    /\ UNCHANGED <<stored, memory, turn, requestId, mine, outcome, budget>>

\* The second half of create_task and continue_task: the new token (a child of
\* plugin_cancel) replaces the map entry and the supervised worker is spawned.
Register(h) ==
    /\ pc[h] \in {"created", "accepted"}
    /\ active' = h
    /\ cancelled' = IF stopped THEN cancelled \cup {h} ELSE cancelled
    /\ Go(h, "setup")
    /\ UNCHANGED <<stored, host, stopped, turn, requestId, mine, outcome,
                   budget>>

\* cancel_task, and interrupt_flow_node on the node it names: cancel the token
\* in the map, whichever run that is.  Without an entry the answer is 404.
Cancel ==
    /\ host = "up" /\ active # NoRun
    /\ cancelled' = cancelled \cup {active}
    /\ UNCHANGED <<stored, host, active, stopped, run, budget>>

\* interjections::submit, one transaction.
Interject ==
    /\ host = "up" /\ status = "running"
    /\ Cardinality(interjections) < MaxInterjections
    /\ Append("user/interjection", 0, "none")
    /\ interjections' =
           interjections \cup {[seq |-> highWater + 1, delivered |-> FALSE]}
    /\ UNCHANGED <<status, admitted, window, snapshots, deltas, memory,
                   run, budget>>

-----------------------------------------------------------------------------
(* The worker: single_agent::run_task                                      *)

\* rewind::snapshot: what the agent knew before this turn (INSERT OR REPLACE).
Snapshot(h) ==
    /\ pc[h] = "setup"
    /\ snapshots' = {s \in snapshots : s.turn # turn[h]}
                        \cup {[turn |-> turn[h], window |-> window]}
    /\ Go(h, "reset")
    /\ UNCHANGED <<status, highWater, events, admitted, interjections, window,
                   deltas, memory, turn, requestId, mine, outcome, budget>>

\* An open main task continues in its own context; otherwise the conversation
\* starts from a clean main window.
Reset(h) ==
    /\ pc[h] = "reset"
    /\ \/ /\ TaskOpen
          /\ mine' = [mine EXCEPT ![h] = window]
          /\ UNCHANGED <<events, highWater>>
       \/ /\ ~TaskOpen
          /\ mine' = [mine EXCEPT ![h] = {}]
          /\ Append("context/main_reset", turn[h], "none")
    /\ Go(h, "start")
    /\ UNCHANGED <<status, admitted, interjections, window, snapshots,
                   deltas, memory, turn, requestId, outcome, budget>>

Start(h) ==
    /\ pc[h] = "start"
    /\ Append("turn/start", turn[h], "none")
    /\ Go(h, "message")
    /\ UNCHANGED <<status, admitted, interjections, window, snapshots,
                   deltas, memory, turn, requestId, mine, outcome, budget>>

Message(h) ==
    /\ pc[h] = "message"
    /\ Append("user/message", turn[h], "none")
    /\ mine' = [mine EXCEPT ![h] = @ \cup {highWater + 1}]
    /\ Go(h, "save")
    /\ UNCHANGED <<status, admitted, interjections, window, snapshots,
                   deltas, memory, turn, requestId, outcome, budget>>

Save(h) ==
    /\ pc[h] = "save"
    /\ window' = mine[h]
    /\ Go(h, "open")
    /\ UNCHANGED <<status, highWater, events, admitted, interjections,
                   snapshots, deltas, memory, turn, requestId, mine,
                   outcome, budget>>

\* task_frames::open_main_task, unless the turn continues an open one.
Open(h) ==
    /\ pc[h] = "open"
    /\ IF TaskOpen
       THEN UNCHANGED <<events, highWater>>
       ELSE Append("task/opened", turn[h], "none")
    /\ Go(h, "loop")
    /\ UNCHANGED <<status, admitted, interjections, window, snapshots,
                   deltas, memory, turn, requestId, mine, outcome, budget>>

\* deliver_interjections: in one transaction every waiting message is marked
\* delivered, recorded as such and written into the saved window.
Deliver(h) ==
    LET Place(s) == Cardinality({r \in Waiting : r <= s})
    IN  /\ interjections' = {Marked(i) : i \in interjections}
        /\ events' = events \cup
               {Event(Place(s), "user/interjection_delivered", 0, "none", s) :
                    s \in Waiting}
        /\ highWater' = highWater + Cardinality(Waiting)
        /\ mine' = [mine EXCEPT ![h] = @ \cup Waiting]
        /\ window' = IF Waiting = {} THEN window ELSE mine[h] \cup Waiting

\* One pass of run_loop: deliver what the user said, then stop when cancelled,
\* else a model round, whose text streams into assistant/delta rows.
Round(h) ==
    /\ pc[h] = "loop"
    /\ Deliver(h)
    /\ \/ /\ Cancelled(h)
          /\ outcome' = [outcome EXCEPT ![h] = "failed"]
          /\ Go(h, "ending")
          /\ UNCHANGED deltas
       \/ /\ ~Cancelled(h)
          /\ deltas' = deltas \cup {turn[h]}
          /\ UNCHANGED <<pc, outcome>>
    /\ UNCHANGED <<status, admitted, snapshots, memory, turn, requestId, budget>>

\* The model answered.  A message that arrived meanwhile is delivered and the
\* loop goes on; else the main task returns and the loop ends with Answer.
Answer(h) ==
    /\ pc[h] = "loop" /\ Pending = {}
    /\ IF TaskOpen
       THEN Append("task/returned", turn[h], "none")
       ELSE UNCHANGED <<events, highWater>>
    /\ outcome' = [outcome EXCEPT ![h] = "completed"]
    /\ Go(h, "ending")
    /\ UNCHANGED <<status, admitted, interjections, window, snapshots,
                   deltas, memory, turn, requestId, mine, budget>>

\* A model or tool error ends the loop, or its rounds are used up.
GiveUp(h) ==
    /\ pc[h] = "loop"
    /\ \E result \in LoopFailures :
           outcome' = [outcome EXCEPT ![h] = result]
    /\ Go(h, "ending")
    /\ UNCHANGED <<stored, memory, turn, requestId, mine, budget>>

\* After the loop: a cancelled token turns any result into "cancelled".
Settle(h) ==
    /\ pc[h] = "ending"
    /\ outcome' =
           [outcome EXCEPT ![h] = IF Cancelled(h) THEN "cancelled" ELSE @]
    /\ Go(h, "end")
    /\ UNCHANGED <<stored, memory, turn, requestId, mine, budget>>

EndTurn(h) ==
    /\ pc[h] = "end"
    /\ Append("turn/end", turn[h], outcome[h])
    /\ Go(h, "finish")
    /\ UNCHANGED <<status, admitted, interjections, window, snapshots,
                   deltas, memory, turn, requestId, mine, outcome, budget>>

\* agent_service::finish, a write of its own.
Finish(h) ==
    /\ pc[h] = "finish"
    /\ status' = outcome[h]
    /\ mine' = [mine EXCEPT ![h] = {}]
    /\ outcome' = [outcome EXCEPT ![h] = "none"]
    /\ Go(h, "cleanup")
    /\ UNCHANGED <<highWater, events, admitted, interjections, window,
                   snapshots, deltas, memory, turn, requestId, budget>>

\* The worker returns an error (a write that failed for good) or panics.
Fault ==
    /\ faults < MaxFaults /\ faults + crashes < MaxMishaps
    /\ faults' = faults + 1

WorkerFails(h) ==
    /\ pc[h] \in WorkerSteps
    /\ Fault
    /\ mine' = [mine EXCEPT ![h] = {}]
    /\ outcome' = [outcome EXCEPT ![h] = "none"]
    /\ Go(h, "fail")
    /\ UNCHANGED <<stored, memory, turn, requestId, crashes>>

-----------------------------------------------------------------------------
(* The supervisor: spawn_supervised_task                                   *)

\* An error is recorded as turn/end WORKER_FAILED; a failure to record it is
\* only logged.
RecordFailure(h) ==
    /\ pc[h] = "fail"
    /\ \/ Append("turn/end", turn[h], "failed") /\ UNCHANGED faults
       \/ Fault /\ UNCHANGED <<events, highWater>>
    /\ Go(h, "failfinish")
    /\ UNCHANGED <<status, admitted, interjections, window, snapshots,
                   deltas, memory, turn, requestId, mine, outcome, crashes>>

\* A supervisor that leaves the status to the worker.
FinishNothing(h) ==
    /\ pc[h] = "failfinish"
    /\ Go(h, "cleanup")
    /\ UNCHANGED <<stored, memory, turn, requestId, mine, outcome, budget>>

\* finish(.., "failed"); a failure is only logged and leaves 'running'.
FinishFailed(h) ==
    /\ pc[h] = "failfinish"
    /\ \/ status' = "failed" /\ UNCHANGED faults
       \/ Fault /\ UNCHANGED status
    /\ Go(h, "cleanup")
    /\ UNCHANGED <<highWater, events, admitted, interjections, window,
                   snapshots, deltas, memory, turn, requestId, mine,
                   outcome, crashes>>

\* cleanup_terminal_task_data: nothing while the conversation is not terminal
\* (a next turn may already be running).
Cleanup(h) ==
    /\ pc[h] = "cleanup"
    /\ \/ Resting /\ deltas' = {} /\ UNCHANGED faults
       \/ ~Resting /\ UNCHANGED <<deltas, faults>>
       \/ Fault /\ UNCHANGED deltas
    /\ Go(h, "clear")
    /\ UNCHANGED <<status, highWater, events, admitted, interjections, window,
                   snapshots, memory, turn, requestId, mine, outcome, crashes>>

\* clear_active_task: only the entry of this very run is removed.
Clear(h) ==
    /\ pc[h] = "clear"
    /\ active' = Released(h)
    /\ cancelled' = cancelled \ {h}
    /\ Go(h, "done")
    /\ UNCHANGED <<stored, host, stopped, turn, requestId, mine, outcome,
                   budget>>

-----------------------------------------------------------------------------
(* Process                                                                 *)

MayExit == crashes < MaxCrashes /\ faults + crashes < MaxMishaps

\* Disposal of the agent-tasks plugin at shutdown cancels every run; the
\* process ends soon after (Crash), with runs that are still winding down.
Stop ==
    /\ Serving /\ MayExit
    /\ stopped' = TRUE
    /\ cancelled' = cancelled \cup
           {h \in Requests : pc[h] \in WorkerSteps \cup SupervisorSteps}
    /\ UNCHANGED <<stored, host, active, run, budget>>

Crash ==
    /\ host = "up" /\ MayExit
    /\ crashes' = crashes + 1
    /\ host' = "down" /\ active' = NoRun /\ cancelled' = {} /\ stopped' = FALSE
    /\ pc' = [h \in Requests |-> IF pc[h] = "idle" THEN "idle" ELSE "dead"]
    /\ mine' = [h \in Requests |-> {}]
    /\ outcome' = [h \in Requests |-> "none"]
    /\ UNCHANGED <<stored, turn, requestId, faults>>

\* recover_orphaned_tasks, before the service listens: a conversation left
\* 'running' gets turn/end and 'interrupted' in one transaction; then the
\* delta rows of every terminal conversation go.
Recover ==
    /\ host = "down"
    /\ host' = "up"
    /\ IF Orphaned
       THEN /\ Append("turn/end", LastStarted, "interrupted")
            /\ status' = "interrupted"
       ELSE UNCHANGED <<events, highWater, status>>
    /\ deltas' = IF status' \in Terminal THEN {} ELSE deltas
    /\ UNCHANGED <<admitted, interjections, window, snapshots, active,
                   cancelled, stopped, run, budget>>

-----------------------------------------------------------------------------
Handler(h) ==
    Create(h) \/ (\E id \in RequestIds \cup {NoId} : Continue(h, id))

\* What the process does by itself once a run is spawned, the loop excepted.
Proceed(h) ==
    \/ Register(h) \/ Snapshot(h) \/ Reset(h) \/ Start(h) \/ Message(h)
    \/ Save(h) \/ Open(h) \/ Settle(h) \/ EndTurn(h) \/ Finish(h)
    \/ RecordFailure(h) \/ FinishFailed(h) \/ Cleanup(h) \/ Clear(h)

Next ==
    \/ CreateDraft \/ Cancel \/ Interject \/ Stop \/ Crash \/ Recover
    \/ \E h \in Requests :
          \/ Handler(h) \/ Abandon(h) \/ Proceed(h)
          \/ Round(h) \/ Answer(h) \/ GiveUp(h) \/ WorkerFails(h)

Spec == Init /\ [][Next]_vars

\* Spawned futures are polled until they complete.  The loop itself may go on
\* for as long as the model asks for rounds; only a cancelled one must leave,
\* because every wait inside it selects on the token.
Fairness ==
    /\ WF_vars(Recover)
    /\ \A h \in Requests :
          WF_vars(Proceed(h)) /\ WF_vars(h \in cancelled /\ Round(h))

FairSpec == Spec /\ Fairness

-----------------------------------------------------------------------------
(* Properties                                                              *)

EventType == [seq : Nat, kind : Kinds, turn : 0..MaxTurn,
              reason : Terminal \cup {"none"}, refers : Nat]

TypeOK ==
    /\ status \in Statuses
    /\ highWater \in Nat
    /\ events \subseteq EventType
    /\ admitted \subseteq [turn : Turns, id : RequestIds \cup {NoId}]
    /\ interjections \subseteq [seq : Nat, delivered : BOOLEAN]
    /\ window \in SUBSET Nat
    /\ snapshots \subseteq [turn : Turns, window : SUBSET Nat]
    /\ deltas \in SUBSET Turns
    /\ host \in {"up", "down"}
    /\ active \in Requests \cup {NoRun}
    /\ cancelled \in SUBSET Requests
    /\ stopped \in BOOLEAN
    /\ pc \in [Requests -> Labels]
    /\ turn \in [Requests -> 0..MaxTurn]
    /\ requestId \in [Requests -> RequestIds \cup {NoId}]
    /\ mine \in [Requests -> SUBSET Nat]
    /\ outcome \in [Requests -> Terminal \cup {"none"}]
    /\ faults \in 0..MaxFaults /\ crashes \in 0..MaxCrashes

\* Two runs of one conversation never overlap: whoever is between the commit
\* that set 'running' and its terminal write is alone, even while the
\* supervisor of the previous turn is still cleaning up.
OneRun ==
    \A g, h \in Requests : pc[g] \in Holding /\ pc[h] \in Holding => g = h

\* Nobody takes the status away from a run that is not over: no late finish of
\* an earlier turn, no recovery, no rejected request.
HoldingIsRunning == \A h \in Requests : pc[h] \in Holding => status = "running"

\* cancel_task can reach every run from the moment it is spawned until its
\* terminal write: the map entry is its own, never removed or replaced by the
\* supervisor of an earlier run (clear_active_task compares run ids).
Cancellable == \A h \in Requests : pc[h] \in Registered => active = h

\* A retry of the same requestId does not start a second turn
\* (attachments::already and the unique index behind it).
RequestStartsOnce ==
    \A g, h \in Requests :
        requestId[g] = requestId[h] /\ requestId[g] # NoId => g = h

\* A conversation is 'running' without a run only after a handler was abandoned
\* between its commit and the spawn, or after two faults in one wind-down.
RunningHasRun ==
    status = "running" /\ host = "up" =>
        \/ \E h \in Requests : pc[h] \in Holding \cup {"gone"}
        \/ faults >= 2

\* Cleanup and recovery never take the delta rows of a turn in progress, from
\* which its text is shown.
DeltasKept ==
    [][deltas \subseteq deltas'
          \/ \A h \in Requests : pc[h] \notin Holding]_vars

\* A cancelled run, and any run past its loop, winds down and releases its
\* entry; nothing but a crash keeps it from doing so.
RunsWindDown ==
    \A h \in Requests :
        (\/ pc[h] \in WorkerSteps /\ h \in cancelled
         \/ pc[h] \in {"ending", "end", "finish"} \cup SupervisorSteps)
        ~> pc[h] \in {"done", "dead"}

\* After a crash the conversation is not left 'running'.
RecoveryEnds == host = "down" ~> (host = "up" /\ status # "running")

\* The service is a Conversation: whoever has made it 'running' holds it until
\* its terminal write; a run that is abandoned, crashes or cannot write its end
\* is lost; only recovery takes the status back from nobody; what is waiting is
\* heard by the run and never again.
HolderIn(labels) ==
    LET holding == {h \in Requests : labels[h] \in Holding}
    IN  IF holding = {} THEN NoRun ELSE CHOOSE h \in holding : TRUE

Heard   == {e.refers : e \in Of("user/interjection_delivered")}

Service ==
    INSTANCE Conversation WITH
        Holders  <- Requests, Nobody <- NoRun, Ids <- RequestIds,
        Outcomes <- Terminal, holder <- HolderIn(pc), seen <- AcceptedIds,
        waiting <- Waiting, heard <- Heard

Implements == Service!Spec

\* A conversation at rest takes the next message.  The turn it would get may
\* already be occupied in agent_attachment_messages, after a crash.
NextTurnFree ==
    status \in {"draft"} \cup Terminal =>
        NextTurn \notin {a.turn : a \in admitted}
=============================================================================
