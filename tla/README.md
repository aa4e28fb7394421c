# A verification project for codex-workspace-mcp

TLA+ modules that model the parts of the server where concurrency, crashes and
partial failure decide whether it is correct, TLC runs that check them on small
instances, and theorems about them checked by TLAPS. Paths below are relative
to the repository (`src/...` is the Rust crate, `frontend/...` the web client).

## The system

The server keeps *conversations* ("tasks"). A conversation is a row of
`agent_tasks` with a status, an append-only event table, a saved model context
("window"), and further tables keyed by task and turn, all in one SQLite
database. A user message starts a *turn*: a run, i.e. a worker future in the
tokio runtime that talks to a model in rounds, executes the tool calls the model
asks for and records everything as events. The web client follows a
conversation by loading its history and then its event stream.

| Component | State | Operations | Meets |
|---|---|---|---|
| Conversation lifecycle (`agent_service.rs`, `single_agent::run_task`) | `agent_tasks`, `agent_task_events`, the in-memory `cancellations` map | create, draft, continue, cancel, interrupt, supervise, finish, clean up, recover at start | everything else, through the status |
| Interjections (`interjections.rs`) | `agent_interjections` | submit (HTTP), take (worker) | the window of the run |
| Message admission (`attachments.rs`) | `agent_attachment_messages`, receipts | `already`, `admit` inside `continue_task` | retries by clients |
| Rewind (`rewind.rs`) | `agent_window_snapshots`, deletes from every per-turn table | snapshot (worker), rewind (HTTP) | status, files, events, windows |
| Undo of file changes (`workspace_changes.rs`) | `agent_file_changes`, the workspace, the lock `MUTATIONS` | record, undo a turn | tools, rewind |
| Tool approvals (`tool_approvals.rs`) | `tool_approvals`, `_grants`, `_pending` | wait (worker), decide (HTTP) | other calls of the session or project |
| Event stream (`agent_service::stream_events`, `frontend/src/useSession.ts`) | a cursor per connection; the client's list of events | poll; load, follow, reconnect, settle | the event table and the status |
| Database writer (`db_writer.rs`) | one thread and queue per database | submit, idle exit, restart | every write of the worker |
| Tool calls and their recovery (`single_agent.rs`) | calls and results in window and events | execute, record, recover | crashes |
| Background jobs (`plugin_jobs.rs`, `visual_jobs.rs`) | job rows, `delivered` | start, poll, deliver | window, crashes |
| Programs and frames (`program_flow.rs`, `paused_programs.rs`, `function_frames.rs`, `task_frames.rs`) | a tree of frames, the paused program | call, return, pause, resume, discard | interjections, concurrent calls |
| Project processes (`project_process.rs`) | a registry, a metadata file and output per process, leases | launch, reuse, probe, query, stop, supervise | the requests of tools, timeouts and cancels |
| Plugin runtime and skill packages (`plugin_runtime.rs`, `skill_packages.rs`, `skill_packages/remote.rs`) | a tree of scopes, services, disposers; the registry of packages, the handlers of tools, the settings file | mount, unmount, provide; install, connect, reload, reconnect, enable, disable, remove, restore | the skills a conversation has read, remote services |
| Remote sessions, model transport, browser control, code indexes, memory, MCP dispatch, the rest of the web client | I/O and data | | |

Hard behaviours: HTTP handlers are futures that are dropped when the client
hangs up; a run outlives its terminal status by the time its supervisor cleans
up; several tables are written in separate transactions; a crash can come
between any two of them; recovery runs once at the start; the user can rewind
history under all of this. `PROJECT.json` lists each hazard at its line with
the properties that guard it.

## The modules

**`TaskRuns`** is the life of one conversation. Conversations share nothing but
the plugin-wide stop flag, so one is enough. A *request* `h` stands for one
POST and, when it is accepted, for the run it spawns. `pc[h]` walks through the
handler (`created`/`accepted`: after the commit that set `running`, before the
run is registered), the worker (`setup` … `finish`, one label per database
write of `run_task`) and the supervisor (`fail` … `clear`). The variables in
`stored` are database tables, those in `memory` are lost in a crash. Rounds of
the model are abstract: what matters is that a round delivers waiting
interjections, streams text (`assistant/delta` rows) and checks the token.
Events carry only what the code reads back: number, kind, turn, the reason of a
`turn/end`, the interjection a delivery refers to. A database write that fails
for good (after the retries of `write_db_retry`) or a panic is `WorkerFails`.

**`Conversation`** is what all this promises, in seven actions: somebody holds
the conversation or nobody does; a message is accepted only when nobody does,
and a retry never; only the holder ends its turn, unless it is lost, and then the
conversation is taken back from nobody; what is said meanwhile is heard by a
holder, once. `TaskRuns` implements it (`Implements`) under the mapping at its
end: the holder is the request between its commit and its terminal write, what
was heard is read off the delivery events.

**`TaskRewind`** extends `TaskRuns` with `rewind.rs` and the turn-level view of
`workspace_changes.rs`. A rewind reads status, snapshot and the turns to undo
once (`RewindCheck`; a list that cannot be read is an empty one), undoes turn
after turn (`RewindUndo`) and deletes the records in one transaction that
restores the window it read at the start (`RewindCommit`). The lock `MUTATIONS`
is the handler's, the work a blocking thread's: `job[c]` is the thread of client
`c`, its field `held` the handler's guard. `HangUp` drops the guard and nothing
else, so that tools, undos and other rewinds come in between; the undo of one
turn and the record of a tool whose worker panicked can go on in the same way
(`late`). `overlapped` is a history variable: a message was accepted, or another
rewind begun, while a rewind was at work. In these histories the modelled code
misbehaves, and the remaining properties are stated for all others; the fields
`listed` and `alone` of a job say the same of the list of turns and of the files.

**`Approvals`** is `tool_approvals.rs`, one action per SQL statement of `wait`,
because each opens its own connection. Any number of calls, conversations and
projects.

**`EventStream`** is the path of an event to the user: the server's poll (events,
then status, as two reads), the wire, `EventSource` reconnection with
`Last-Event-ID`, and the states of `useSession`.

**`ToolCalls`** is the model's actions against a worker that stops anywhere:
the tool calls of `single_agent.rs` (`Reply`, `Keep`, `Call`, `Execute`,
`Record`, `Tell`: event, window, event, effect, event, window), the tool steps
of programs in `program_flow.rs` (`Dispatch`, `ExecuteStep`, `RecordStep`,
`Resolve`), and what the next turn makes of a saved window (`Recover`,
`Consume`). `Stop` is whatever ends the worker early: a crash, a cancel, a write
or a model request that fails. The window holds only which message asked for
which ids and which event answered. `ranCalls`, `ranSteps` and `cut` are history
variables: which effects happened, and which steps were stopped in the middle.

**`DbWriter`** is `db_writer.rs`: the map of writers under its lock, `write`
(register or start a writer, send, wait), the thread that opens the database,
takes one job at a time, commits, fails, panics or leaves when it is idle, and
`forget`. What a job does to the database is one set of its own writes, so that
a transaction left open by one job and inherited by the next is visible.

**`WriteQueue`** is what a caller of `db_writer::write` relies on: whole writes,
applied at most once, in the order they were accepted, confirmed only when they
are applied and never applied after an error was reported. `DbWriter` implements
it (`Implements`); generations, channels and threads are hidden.

**`AsyncJobs`** composes the three places where background work and a turn meet:
`visual_jobs.rs` (checks of an image: a row, an executor in a lane, the reader
that settles rows without an executor), `plugin_jobs.rs` (tasks of a plugin: a
row and a `delivered` flag) and the rounds of `single_agent.rs` that poll, insert
results into the context, mark, save and decide whether a turn may end.
Results of checks are marked in the transaction that saves the window; those of
tasks are not, which is why the two are described by different properties.

**`ProjectProcess`** is `project_process.rs`: requests that launch (in front or in
the background), reuse, probe, query and stop processes of one script, and the
supervisor of each process. Every `await` is a step at which a request can be
dropped. The flags in memory, the record in the registry, the state of the
operating system's process, the lease of the request and the metadata file are
separate variables, since what the code can get wrong is their agreement. A write
of the metadata file may fail, of which the code only logs a warning (`End`); the
file, old or cut short, is then `"unsure"` until the next write, as it is after
the write of a request that was dropped under it (`StrayWrite`). Output is counted in
chunks.

**`FileChanges`** is `workspace_changes.rs` file by file: a tool reads, runs,
compares and records; an undo request checks every file, replaces them one by
one, marks the log, rolls back what it did when a step fails, and marks the
turn incomplete when that fails too. The user may write any file at any time, a
client may hang up, a write may fail. The guard `MUTATIONS` is held by the
*request*, the work goes on in a blocking thread: the two are separate
variables. The call of a tool may get lost (`Lose`): its future is dropped with
the guard, or neither its rows nor the mark of the turn can be written. What it
had started, a write or the record itself, may then come at any later time
(`WriteLate`, `RecordLate`). `Logged` are the files that no lost call used.

**`Frames`** is a turn with programs: the main loop, a loop per function frame,
serial and concurrent calls, a program that is paused because the user said
something, moved into a frame of its own (`paused_programs.rs`), resumed by a
call of the main loop, or discarded with its turn. Rows of frames are in the
database, loops and their joins are in memory; a crash keeps the first and loses
the second. What a program computes is left out: it makes a bounded number of
calls, serially or concurrently, and returns or throws.

**`SkillPackages`** composes the package registry of `skill_packages.rs` and
`remote.rs` with the scopes of `plugin_runtime.rs`, the handlers of the tool catalog
(`builtin_plugins/services.rs`) and the skills a conversation has active
(`single_agent.rs`). The transition lock is held through an operation, but readers
do not take it, so an operation is one action per change that they can see: the
entry loses its scope, the handlers and the scope go, the new scope and handlers
come, the entry gets its scope, the settings are saved. What a remote service says
is fetched before the lock. `disk` is what a directory or service says at the
moment; anybody may change it. `Begin`, `Load` and `Serve` are the start: one package
of the settings after the other, and the restore of remote packages then runs beside
the requests. A skill is read in three steps without the lock, as `Registry::read`
does: the entry (`ReadSkill`), the manifest on disk, which must be the mounted one
(`Compare`), and the instructions, which are not compared (`ReadBody`, from `skill`,
which somebody may change apart from `disk`). `known` and `lost` are history variables:
the manifest whose instructions the conversation read (none, if they were of no
manifest or of another), and the packages that could be neither renewed nor restored, or whose
settings were written by a request that failed at their permissions (`CannotSave`).

**`MC*`** modules give the constants small values. Definitions that stand in
front of a definition and are used by no action (`AcceptingAny` before
`Accepting`) are plausible mistakes against which each property was tried; the
list is `mutants` in `PROJECT.json`.

## The runs

| Run | Shows | Bounds |
|---|---|---|
| `TaskRuns_safety` | runs do not overlap; retries start nothing; every step is one of `Conversation` | 2 requests, 2 turns, 1 requestId, 1 interjection, 1 fault or exit; 1.2 M states |
| `TaskRuns_live` | every run can be cancelled, `running` has a run; runs wind down, recovery closes what a crash left | as above without interjections and requestIds, 1 fault and 1 exit; 0.23 M |
| `TaskRewind_safety` | files, windows and turns across rewinds whose clients may hang up | 2 requests, 2 turns, 2 rewinds at a time; 1 of: a fault, an exit, a hang-up (or another dropped guard); 1.6 M |
| `Approvals_waits` | permission, cards, records; every answered wait ends | 2 calls of a conversation with a project, 1 fault, 1 crash; 34 k |
| `EventStream_follow` | nothing skipped, nothing missing at the end, the end is noticed | 3 events, 2 turns, 2 errors |
| `ToolCalls_safety` | every call is answered by its own result; no outcome doubled, lost or made up | 2 ids, 2 messages, 1 program of up to 2 steps, 3 turns; 1.4 M |
| `DbWriter_answers` | no write is stranded between writers, transactions are not inherited, everyone is answered; implements `WriteQueue` | 4 writes, 4 generations of writers; 105 k |
| `AsyncJobs_deliver` | results are final, heard once and before the answer; every wait of a turn ends | 2 checks, 1 task, 1 lane, a queue of 2, 2 turns; 0.36 M |
| `ProjectProcess_lifetimes` | nothing ended is called ready, the file tells the end if it could be written, no process is left to nobody | 2 requests, 2 processes, 2 running, 1 record, 1 chunk; 0.46 M |
| `FileChanges_undo` | the log is right, an undo is whole or marked, the user's edits survive | 2 files, 2 contents, 3 tools, 2 undo requests, 2 edits or late writes, 1 lost call; 3.1 M |
| `Frames_programs` | frames return to callers that wait, no two loops run one frame, no call runs twice, no turn gets stuck | 3 programs, 2 calls, 2 frames deep, 2 messages, 2 turns, 1 crash; 0.7 M |
| `SkillPackages_roster` | registry, scopes, handlers and settings agree between operations, failed ones included; tools come with the instructions of their own manifest | 2 packages (one remote) of 2 manifests each, 2 requests, 5 scopes; 2 of: a change of a directory or service, a failing save, a start; 2.8 M |

Why the bounds are enough: the interesting case of the lifecycle is two runs of
one conversation, the tail of the first overlapping the second; a third request
adds nothing but another such pair (the theorems cover any number). One fault
and one exit put a failure at every single point, and `TaskRuns_live` has both
in one history (`MaxMishaps` bounds the two together elsewhere). `LoopFailures`
is one value where the two ways a loop can give up need not be told apart. Two
turns are the least that can be rewound past each other. Two approval calls of
one conversation meet in both of its scopes; that permission does not leak
between conversations, or without a project, is proved. Two messages with two
ids give the reuse of an id while the first answer is on record, within a
message and across a stop; three turns let recovery itself be cut off and start
over. Four writes are two in the channel of a writer that goes, one that is in
its hands and one that comes late; each of the four can need a writer of its
own. Two checks in one lane make one wait for the other; two turns let the
second hear of what the first left behind. Two requests on two processes give
every pair of launch, reuse and stop, and one free record makes the registry
evict. Two files are the least of which one can be undone and the other not;
three tools are two on one file and one that meets both. One lost call shows what it
does to the log of the others. Two rewinds are the least that can follow each other
through a lock that was dropped. Three
programs and depth 2 give a paused program inside a paused program's frame. The two
packages can come to declare the same tool and one can come to need the other, which
are the two reasons for which a mount or unmount is refused; two requests give one
that waits for a service while the other changes the package; five scopes are three
for a reload that is rolled back and two for what comes between. Requests are made once
each: a longer history only starts from another registry that satisfies the invariants.

Three runs have a `CONSTRAINT`, each of what no property speaks about any more or no
operation looks at. `NothingFollows`: what follows upon an overlapped rewind is searched
while a rewind is at work and no worker has failed. `Searched`: not what follows
upon a mark of the turn, nor a lost call beside an undo that was cut off.
`HalvesAreForReads`: no operation of the packages beside a directory whose instructions and
manifest differ, since none looks at instructions. The theorems have no such limits.

`MaxFrames` stands for the depth limit of the code (`TASK_DEPTH_LIMIT`): a call
at the bound fails with the code's error. All other bounds (`Max...`) are guards
named in the actions they limit. `CHECK_DEADLOCK FALSE`: requests, faults and
exits are bounded, so every instance comes to rest; where rest could hide a
deadlock of the code there is a property that says who may rest (`NobodyWaits`,
and the liveness properties).

Fairness: spawned futures are polled until they complete (`WF` of each step of
worker, supervisor, recovery, executor, writer thread and process supervisor).
The loop of a run may go on for ever, as the model may ask for ever more rounds;
only a cancelled run must leave it, since every wait inside selects on its
token. A vision request ends (it has a timeout); what a plugin answers about
its task, and whether it ever finishes, is unconstrained. No fairness for HTTP
clients, users, faults or the process ending. In `EventStream` the server polls,
the browser dispatches events and answers and keeps reconnecting; appending,
finishing and reloading need not happen. `Frames` states no fairness: its
histories are finite within the bounds, and `NobodyWaits` says that a loop that has
not ended can take a step.

## What the code does and its documents do not say

The following were met while modelling. They are guarded around in the
properties or lie outside them, and are listed for the reader of the code:

* `mark_paused` (`paused_programs.rs:184`) sets `safe_stop` for every live frame under
  the paused program. A concurrent call that a crash cut off in an earlier turn is
  still live in the table; the pause marks it, and resuming runs it again, although
  the comment (`:171`) says that a frame cut off any other way never does. `Frames`
  states the comment (`CutOffNeverRuns`, in no run); TLC refutes it in 20 steps with 2
  programs, 2 calls and a crash. The existing test covers the crash without a pause
  after it.

* A rewind reads the status once, before files are undone, and its closing
  transaction does not look again (`rewind.rs:106`). `overlapped` in `TaskRewind`
  records that history, and `WindowRefsExist` and `ReplayFits` are stated for the
  others.
* `MUTATIONS` is a guard in the handler's future, the rewind runs in
  `spawn_blocking` (`rewind.rs:224-226`). When the client hangs up, the guard goes and
  the rewind works on. A second rewind may then run beside it, and the later
  commit restores a window that refers to events the other one has deleted
  (`overlapped` again); a tool of a new run may change files whose records the closing
  transaction deletes (`alone` in `FilesBeforeTalk`). The undo of a turn has the same
  shape (`workspace_changes.rs:651`), and so has a tool whose worker panics while its change is
  recorded (`:417`).
* When the turns to undo cannot be read, the list is empty (`unwrap_or_default`,
  `rewind.rs:140`), and the records go with no file undone, although a comment above says
  "Files first" (`:135`). `FilesBeforeTalk` is stated for lists that were read (`listed`).
* A tool whose future is dropped between its effect and the record
  (`workspace_changes.rs:417`), and one for which neither rows nor mark can be written
  (`:435-444`: the failure of the mark is dropped, only the first error becomes an event),
  leave changes that no log tells of, and the turn is offered for undo all the same.
  The properties of `FileChanges` except the files of such calls.
* A metadata file whose last write failed goes on saying that the process runs
  (`project_process.rs:415-419` logs a warning). `FileTellsEnd` excepts it.
* Interjections sent before turn *N* and delivered in it keep `delivered=1` when
  turn *N* is rewound (`rewind.rs:172`).
* Turn numbers are computed from events, message rows are keyed by them; after a
  crash before the first event of a turn its row refuses every later message
  (`attachments.rs:334`), and so it does after two writes have failed, that of the first
  event and that of the failure. `ReplayFits` is stated for fewer.
* The card of an approval is cleared after the polling loop, which a dropped
  future never leaves (`tool_approvals.rs:141`).
* A history loaded just before the end of a turn may lack its last events until
  it is loaded again (`useSession.ts:40`).
* The pending tool step of a program without a receipt is handed out again after
  a crash (`program_flow.rs:656`); the model's own calls are reported as interrupted.
* A background launch reuses a running process that another request's timeout
  may then end (`project_process.rs:2483`).
* A crash between the replacement of a file and its mark in the log leaves a file
  that the next undo refuses (`workspace_changes.rs:591`); nothing is lost, but
  the turn can no longer be undone as a whole.
* A message that arrives between the check for interjections and their delivery
  (`single_agent.rs:1505` and `:1530`) enters the window of a program that is not
  paused. When the paused program of a saved `resume` step is gone, the step
  fails in this and every later turn. A program that throws with concurrent
  calls in flight leaves their frames `running`.

* Packages: the directory of one that is removed while it is gone stays in the
  settings (`skill_packages.rs:791` compares resolved paths), and the next start
  fails until the directory is there again; so it does when a directory has become
  invalid, or when a local package needs a remote one, which is connected only after
  the start.
* The reload of a disabled package lists its new manifest without the checks of a
  start (`skill_packages.rs:766`). Its tools then count as taken, and another package
  whose reload fails may not be mountable again (`:762`), where
  `docs/skill_packages.md:122` promises that it is kept. `lost` records this, and
  `SettingsTell` excepts it.
* The restore decides from settings read before it connects (`remote.rs:421`): a package
  enabled in the meantime may be disabled again, until the next start.
* Numbers of scopes start again with the process, but the active skills of a saved
  window keep them: after a restart a skill may count as read though another
  manifest was. `ReadIsMounted` is stated for the life of one process.
* The tools offered in a request are chosen before the model answers, and a call is
  checked against them by name (`single_agent.rs:1537`): a tool of a package reloaded
  meanwhile can run before its new instructions are read (`docs/skill_packages.md:117`
  says that a reload ends the activation). The run of the tool is not modelled.
* `save_settings` reports a failed `chmod` after the file has been written
  (`skill_packages.rs:705`): the request takes back what it did to the registry, the
  settings keep it, and the next start does it after all. `SettingsTell` excepts the
  package (`lost`).
* `Registry::read` compares `plugin.json` with the mounted manifest and then reads
  `SKILL.md` (`skill_packages.rs:347-352`). Instructions that were changed apart from their
  manifest, or just after the comparison, enter the conversation with the tools
  of the mounted manifest. `ReadIsMounted` excepts them.

## What is proved

`TaskRuns_proofs`, for any set of requests and any bounds:

* `OwnershipInvariant`: the inductive invariant. `OneRun` alone is not
  inductive: it needs that a run in progress implies status `running`
  (`HoldingIsRunning`), that the newly accepted request is therefore alone, and
  that recovery only acts when nobody holds the conversation (`host = "down"`
  implies every request is idle or dead).
* `RunsAreExclusive`: `OneRun` and `HoldingIsRunning` follow from it.
* `DeltaRowsKept`: the action property `DeltasKept`.
* `RetriesStartOnce`: `RequestStartsOnce`, from the invariant that the
  requestId of every request that has one is on record (`IdsOnRecord`).
* `TypeInvariant`: `TypeOK`. Its hard steps are that recovery writes the turn
  of an event that exists (`LastStartedType`, over `NewestExists`: a finite
  non-empty set of events has a newest one) and that delivery numbers are
  natural (`DeliverType`).
* `RunningIsBacked`: `RunningHasRun`. The invariant `Supervised` counts faults: whoever
  stands at the write of a failure, or at the one after it, has met one.
* `RunsAreReachable`: `Cancellable` follows from ownership.
* `ServiceIsAConversation`, i.e. `Implements`. Every step of `TaskRuns` is a step of
  `Conversation` or a stutter, in states that satisfy `Ownership` (the holder is unique
  and the status is 'running' under it), the type invariant and `Said` (numbers of
  messages are numbers of events, and what waits has not been heard: otherwise a new
  message could be taken for an old one). The lemmas say when the holder stays, leaves or
  is not concerned, and which appended events leave `Heard` alone.

In the same module, for `TaskRewind` and any number of rewinds: `WindowsAreBacked`,
`ReplaysFit`, `FilesGoFirst`, `RewindsKeepOwnership`, `RewindTypes`, from `RewindInvariant`.
`RInv` is the type invariant, `Listed` (a rewind that read its list, and beside which nobody
else was at the files, has on it what is still changed) and, until a message was accepted or
another rewind begun beside a rewind (`overlapped`), the parts of
`Careful`. A rewind in progress, with or without its client, is then alone, has the conversation at
rest, cuts it before the first event of the turns it drops and holds a window from before
that event (`Cut`): this is what carries the ownership of `TaskRuns`
through the closing transaction. No part of it uses the lock: what `MUTATIONS` is for shows in
`alone`, which `FilesGoFirst` rests on. Whatever refers to events finds them (`Refer`); for the
snapshots, from which the rewind restores the window, this must hold of every earlier
one too, so each refers only to events from before its turn (`Backward`), and the turn
before it has left one behind (`Footing`: the number of the replayed turn is one more than that
of an event). A turn that has not taken its snapshot has no events yet (`Fresh`), and a
turn with a row has an event or will have one (`Replayable`).

`Screen_proofs` is about what a window shows. For any calls, conversations and projects of
`Approvals`: `OnlyPermittedCallsRun`, i.e. `RunsAllowed` and `GrantsChosen`, from the inductive
invariant `Permitted`, which adds what each label of a wait knows (an answer read is the
stored answer; a call on its way to run had one or saw a grant); `CardsAreTrue`; and
`TypeInvariant`. For any events, connections and reloads of `EventStream`: `NoEventIsSkipped`,
`NothingIsMissing` and `StreamTypes`, from `Followed`: what is on the wire follows what the
client has without a gap (`OnTheWire`), whatever the client knows is on record
(`OnRecord`), and a window that is about to settle has loaded a history as new as
what it knows (`Complete`).

`ToolCalls_proofs`, for any ids, messages, programs and turns:

* `EffectsAreOnRecord`: `EffectsAreKnown` and `OneResult`.
* `StepsAreKept`: `StepsAccounted` and `RecordedStepsOnce`.
* `AnswersAreOwn`: `OwnAnswers`, from a further invariant, `Told`: the results on record
  follow the message they answer and belong to its calls (`Fits`), what is not yet
  answered is still to be done (`Outstanding`), and each step knows which message its results
  are for (`Handed`).
* `TypeInvariant`: `TypeOK`.

They follow from one inductive invariant, `IInv`, which adds four facts. From
the end of the recovery to the end of the run the context in memory is the
saved one, and recovery only adds answers to it (`Working`, `Carried`): without
it, nothing said of the worker would say anything of what the next turn finds.
Numbers in contexts and results are numbers of events, and a result follows the
message it answers (`Numbered`): recovery looks for results by number. The calls
still to make belong to the newest message that asked, and at most the one in
hand has a result (`InHand`): so `Record` adds no second outcome. The pending
step has no receipt while it is made (`Stepping`). The lemmas split the invariant
in two: what calls change (`CallsStep`), what steps of programs change
(`StepsStep`). That the newest message exists at all (`NewestIs`, for the
`CHOOSE` in `Call`) is by the well-founded order on the distances from `seq`.

`Storage_proofs` holds what is kept in storage: the database writer and the log of file
changes. For any number of callers and generations of `DbWriter`: `WritersAreExclusive`,
`NoJobIsStranded`, `TransactionsAreOwned`. The inductive invariant adds to the
three that a writer that still takes jobs is the registered one (`Registration`:
this is what the removal under the map's lock is for), that a connection is
clean whenever no job is in hand (`Clean`), and that a job in hand is nobody
else's (`Busy`).

`WriterIsAQueue`, in the same module, is the refinement of `WriteQueue`. It needs
more: every accepted write is in exactly one place (a channel, a pair of hands or applied), the
places are ordered as `WriteQueue` accepted them (`Order`), what is in hand was
at the head of the queue (`Hands`), and a new writer starts empty (`NewIsNew`).

Also there, for any files, contents, tools and undos of `FileChanges`: `LogsAreRight`,
`UndosAreWhole`, `EditsAreKept`, `TypesOfFiles`. No undo meets a tool of its turn (`Apart`),
or, until one is cut off or meets another (`broken`), another undo (`Alone`). What an
undo has read of the rows is still so but for the marks that undos set, and what it
has to do lies in them (`Walking`). While nothing has failed, a file nobody works on
holds what the log says, or something the user wrote (`Honest`). An undo that goes
forward has marked exactly what it has put back, one that goes back has still to
unmark what is marked (`Whole`). All of this is said of the files that no lost call used
(`Logged`, `Ours`): a late write or record touches only others. A file in which an edit was lost to the turn
(`blended`) has a row in conflict, or a tool or the file itself still has an edit that
no row tells of (`Kept`), and no undo has it in hand (`Edited`).

`Background_proofs` holds what runs beside the turns. For any checks, tasks, lanes and
limits of `AsyncJobs`: `ResultsStay`, `ResultsAreHeard`, `AnswersHaveHeard`, `TypesOfJobs`.
An executor is alone with its row and the row is unsettled while it runs (`Executing`); the context in
memory extends the saved one (`Contexts`); a pass over the jobs has handled all
it has left behind (`Passes`); a mark and the result in the saved window come
and go together for checks (`Unheard`), and lag by at most the pass in progress
for tasks (`TaskHeard`). `AnswersHaveHeard` follows because the last pass before an
answer sees every job.

In the same module, for any requests and processes of `ProjectProcess`:
`ProbesAreNotStale`, `EndIsWrittenLast`, `RegistryReaches`, `LeftProcessesStay`,
`BackgroundStartsOnce`, `TypesOfProcesses`. `Watch` says what the flags of a process
tell of its supervisor,
`Writes` that one writer is at the file and what an older writer may still write (or leave unsure),
`Asking` and `Leaving` what a request knows of the process it holds between two
awaits.

`SkillPackages_proofs`, for any packages, manifests, tools and requests: `RegistryIsOne`,
`ReadsAreMounted`, `SettingsAreTrue`, `TypeInvariant`. `RegistryAgrees` speaks of the moments between
operations, so the inductive invariant says what the registry is like at each step of
one (`Midway`): between the halves of a mount or unmount the registry would agree were
the entry what it was before or is about to be (`Coming`, `Leaving`), and nothing yet
requires the scope that comes or goes. `MountAgrees` and `UnmountAgrees` are the two
facts about the data; the rest shows that the lock keeps every other request out of
the way (`OthersAsk`, `Changed`) and that a step without a change of the host needs only
its own bookkeeping (`Handed`). `ReadsAreMounted` follows because numbers are not used
twice (`Numbers`): what was read under the number of a mount is of that mount, from the first
step of the read to the activation (`Reads`). That the comparison establishes this against
the manifest on disk, and that the instructions count only if they are still of that
manifest, are `CompareHolds` and `BodyHolds`.

`SettingsAreTrue` needs an invariant of its own, `Told`, proved beside the first: of a package
nobody works on and that is not in `lost`, registry and settings say the same (`AtRest`); of
the one in hand, each
step knows what is still to be done or to be taken back, and that the settings say what
they said until the operation has saved (`InHand`; a request that fails after the
settings were written puts its package into `lost`); a start that has not come to a package
still has it before it (`Loaded`). With larger bounds than the run has, TLC refuted an
earlier form of the property, in which a package that could not be restored counted as
restored once it was mounted again: an enabling that cannot be saved takes it out
again. `lost` now forgets a package only with a setting that is saved.

`Frames_proofs`, for any number of frames, calls, programs, messages, turns and crashes:

* `FramesInvariant`: the inductive invariant `IInv`.
* `CallersWait`: `CallerWaits`. `CallsOpenOneFrame`: `CallOnce`. `LoopsAreApart`:
  `LoopsOwnFrames`. `FrameTypes`: `TypeOK`.

`FrameStacks`, which it extends, holds the invariant and the lemmas. What is hard
is that no variable says which frames a loop has in its stack: a caller is found by the
row of a frame, a waiting program by the number of its call, a loop by its name. So
`IInv` says that there are two functions, of no variable of the code: `base` gives
for every frame the first frame of its stack, after which the loop is named that runs it
(`Bases`), and `top` the main task or the paused program it belongs to (`Places`). Given
them:

* frames are opened in the order of their numbers, each below one that is there
  (`Tree`), and a frame for a paused program is left, since each pause takes a message
  or a crash (`Numbered`);
* a call is of one window, opens one frame, and that frame belongs to the program that
  waits for the call (`CallsAreOne`, `Owners`, `Apart`). Between the two writes of a
  pause the main window still holds the program that the new frame has too
  (`Saving`);
* the caller of a serial call that has not returned waits for it (`Waits`), what waits for
  an interrupted call was interrupted (`Deads`), and a suspended frame has such a call
  (`Stacks`);
* a loop is at the end of its stack, except where its program is about to pause
  (`Leaves`), concurrent frames have a loop of their own, which the loop of their
  caller joins (`Loops`), and of the loops that hear the user one goes on, the others
  wait for the next (`Hearing`).

TLC checked `IInv` on the run's instance before it was proved. A step is proved by its
shape and not by its name: it edits a window (`Edits`), joins loops (`Joins`), opens a
frame (`Opens`), ends frames and loops (`Kills`), returns, marks frames for a pause,
moves a program to a frame of its own, starts it again, or gives a turn up; each
action is shown to have one of the shapes. What a step does to a whole subtree is a
closure over links, which the model computes by a recursive function:
`ClosureIsLeast` shows, by the well-founded order on sets that shrink, that it is the
least set no link leaves, and the rest uses only that.

The theorems except histories in which the process died between the two writes of a
pause (`torn`): the main window and the paused frame then hold the same program for good,
a frame has two callers that wait for its call, and `base` is not a function. Of those
histories `Frames_programs` checks what it checks of the others.

Assumptions: `BoundsAssumption` (of `TaskRuns` and of `Frames`), `NamesAssumption`, `ApprovalsAssumption`,
`ToolCallsAssumption`, `DbWriterAssumption`, `AsyncJobsAssumption`,
`ProjectProcessAssumption`, `FileChangesAssumption`, `StreamAssumption`,
`NoRowAssumption`, `PackagesAssumption`
(types of the constants; an absent value is not a name, a row or a list; a
conversation is not a project).

Only model-checked: everything under fairness (`RunsWindDown`, `RecoveryEnds`,
`AnswerEndsWait`, `FollowerSettles`, `Answered`, `WaitsEnd`, `NobodysProcessEnds`,
which the prover cannot treat); `NobodyWaits` of `Frames`, which says what is enabled; and
the invariants of `Frames` after a pause that a crash has torn.

## The plan

What a next step would take up, most valuable first:

1. The theorems about `Frames` after a torn pause: `base` becomes a relation, and what is
   said of the one program that waits for a call is said of the one in whose window a
   loop is.
2. Resource claims of `workspace_changes.rs` against the tools of several conversations.
3. Frames inside `AsyncJobs`: jobs started by a function frame.

## What is not modelled

Settings of a conversation (`update_task` runs several statements after one
check; the values are data), listings and searches, uploads and previews, the
text of messages and the compaction of windows; the program language (compiler
and interpreter: a pure function with its own large test suite, and the largest
part of the crate); parsers and indexes; network and process I/O (model
transport, remote sessions, browser); the rendering of the web client. Of the
modelled files: the log ring, the search for processes of an earlier server and
the ownership of listeners in `project_process.rs`; resource claims and the
text of diffs in `workspace_changes.rs`; the migration of old rows and the
recognition of identical checks in the job tables; built-in packages, library
namespaces, pages, event listeners and the shutdown of the plugin runtime.
