---------------------------- MODULE EventStream ----------------------------
(***************************************************************************)
(* How the UI follows a conversation: agent_service::stream_events, which  *)
(* polls the event table and then the status and ends once the task stops, *)
(* and the client hook useSession, which loads the history, follows the    *)
(* stream and re-reads status and history whenever the stream breaks.      *)
(* Events are their sequence numbers, 1..last on record.                   *)
(***************************************************************************)
EXTENDS Naturals, Sequences

CONSTANTS
    MaxEvents,   \* bound: events of the conversation
    MaxTurns,    \* bound: turns after the first one
    MaxErrors    \* bound: broken connections and failed requests

ASSUME StreamAssumption ==
    MaxEvents \in Nat /\ MaxTurns \in Nat /\ MaxErrors \in Nat

VARIABLES
    last,     \* the newest event on record
    status,   \* agent_tasks.status: "running" or "ended"
    turns, errors,
    stream,   \* "closed", "open", "empty" (no new event), "ended", "waiting"
    sent,     \* last_seq of the stream
    wire,     \* events sent and not yet received
    phase,    \* the client: see Phases
    task,     \* what the load read as the task, or "none"
    history,  \* what a read of the events returned, or NoHistory
    shown, batch, lastSeq,
    known     \* events on record when the client last read a final status

server == <<last, status, turns>>
link   == <<stream, sent, wire>>
view   == <<shown, batch, lastSeq>>
svars  == <<server, errors, link, phase, task, history, view, known>>

\* loading: both requests of load() are out.  following: live, EventSource
\* attached.  asking, refreshing: onError re-reads the task, then the events.
\* idle: loaded as not live.  settled: ended after the refresh.
Phases    == {"loading", "following", "asking", "refreshing", "idle",
              "settled", "broken"}
Attached  == {"following", "asking", "refreshing"}
NoHistory == MaxEvents + 1

UpTo(n) == [i \in 1..n |-> i]

\* The event a stream sends next; the history the client settles on; what
\* onError does, unless one is already being handled (EventSource reconnects).
NewestOnly == last
NextUp     == sent + 1

Gathered  == shown \o batch
Refreshed == UpTo(history)

ErrorIgnored == stream' = "waiting" /\ UNCHANGED phase
Error ==
    /\ stream' = "waiting"
    /\ phase' = IF phase = "following" THEN "asking" ELSE phase

SInit ==
    /\ last = 0 /\ status = "running" /\ turns = 0 /\ errors = 0
    /\ stream = "closed" /\ sent = 0 /\ wire = <<>>
    /\ phase = "loading" /\ task = "none" /\ history = NoHistory
    /\ shown = <<>> /\ batch = <<>> /\ lastSeq = 0 /\ known = 0

-----------------------------------------------------------------------------
(* The conversation (TaskRuns in detail)                                   *)

AppendEvent ==
    /\ status = "running" /\ last < MaxEvents
    /\ last' = last + 1
    /\ UNCHANGED <<status, turns, errors, link, phase, task, history, view, known>>

Finish ==
    /\ status = "running"
    /\ status' = "ended"
    /\ UNCHANGED <<last, turns, errors, link, phase, task, history, view, known>>

Continue ==
    /\ status = "ended" /\ turns < MaxTurns
    /\ status' = "running" /\ turns' = turns + 1
    /\ UNCHANGED <<last, errors, link, phase, task, history, view, known>>

-----------------------------------------------------------------------------
(* stream_events                                                           *)

\* One read of the events newer than last_seq: the first of them is sent.
ReadEvents ==
    /\ stream = "open"
    /\ IF last > sent
       THEN /\ wire' = Append(wire, NextUp)
            /\ sent' = NextUp
            /\ UNCHANGED stream
       ELSE /\ stream' = "empty"
            /\ UNCHANGED <<wire, sent>>
    /\ UNCHANGED <<server, errors, phase, task, history, view, known>>

\* The status is a second query: events may have come in between.
ReadStatus ==
    /\ stream = "empty"
    /\ stream' = IF status = "running" THEN "open" ELSE "ended"
    /\ UNCHANGED <<server, errors, sent, wire, phase, task, history, view, known>>

-----------------------------------------------------------------------------
(* useSession                                                              *)

\* reload(), or another conversation and back: a new generation; answers to
\* the old one are dropped.
Reload ==
    /\ phase' = "loading" /\ task' = "none" /\ history' = NoHistory
    /\ stream' = "closed" /\ wire' = <<>>
    /\ batch' = <<>>
    /\ UNCHANGED <<server, errors, sent, shown, lastSeq, known>>

\* The two requests of load() are answered in either order.
LoadTask ==
    /\ phase = "loading" /\ task = "none"
    /\ task' = status
    /\ known' = IF status = "running" THEN known ELSE last
    /\ UNCHANGED <<server, errors, link, phase, history, view>>

LoadEvents ==
    /\ phase = "loading" /\ history = NoHistory
    /\ history' = last
    /\ UNCHANGED <<server, errors, link, phase, task, view, known>>

Loaded ==
    /\ phase = "loading" /\ task # "none" /\ history # NoHistory
    /\ shown' = UpTo(history) /\ lastSeq' = history
    /\ \/ /\ task = "ended"
          /\ phase' = "idle"
          /\ UNCHANGED link
       \/ /\ task = "running"
          /\ phase' = "following"
          /\ stream' = "open" /\ sent' = history /\ wire' = <<>>
    /\ task' = "none" /\ history' = NoHistory
    /\ UNCHANGED <<server, errors, batch, known>>

\* onEvent, also while the error handler's requests are out.
Receive ==
    /\ phase \in Attached /\ wire # <<>>
    /\ wire' = Tail(wire)
    /\ IF Head(wire) > lastSeq
       THEN /\ lastSeq' = Head(wire)
            /\ batch' = Append(batch, Head(wire))
       ELSE UNCHANGED <<lastSeq, batch>>
    /\ UNCHANGED <<server, errors, stream, sent, phase, task, history, shown, known>>

Flush ==
    /\ batch # <<>>
    /\ shown' = shown \o batch /\ batch' = <<>>
    /\ UNCHANGED <<server, errors, link, phase, task, history, lastSeq, known>>

StreamEnds ==
    /\ phase \in Attached /\ stream = "ended" /\ wire = <<>>
    /\ Error
    /\ UNCHANGED <<server, errors, sent, wire, task, history, view, known>>

Fault == errors < MaxErrors /\ errors' = errors + 1

ConnectionBreaks ==
    /\ phase \in Attached /\ stream \in {"open", "empty", "ended"}
    /\ Fault
    /\ Error
    /\ wire' = <<>>
    /\ UNCHANGED <<server, sent, task, history, view, known>>

\* EventSource resumes after the last event it dispatched (Last-Event-ID).
Reconnect ==
    /\ phase \in Attached /\ stream = "waiting"
    /\ stream' = "open" /\ sent' = lastSeq
    /\ UNCHANGED <<server, errors, wire, phase, task, history, view, known>>

AskTask ==
    /\ phase = "asking"
    /\ \/ /\ status = "running"
          /\ phase' = "following"
          /\ UNCHANGED known
       \/ /\ status = "ended"
          /\ phase' = "refreshing"
          /\ known' = last
    /\ UNCHANGED <<server, errors, link, task, history, view>>

RefreshRead ==
    /\ phase = "refreshing" /\ history = NoHistory
    /\ history' = last
    /\ UNCHANGED <<server, errors, link, phase, task, view, known>>

Settle ==
    /\ phase = "refreshing" /\ history # NoHistory
    /\ shown' = Refreshed /\ lastSeq' = history /\ batch' = <<>>
    /\ stream' = "closed" /\ wire' = <<>>
    /\ phase' = "settled"
    /\ history' = NoHistory
    /\ UNCHANGED <<server, errors, sent, task, known>>

\* A request of the client fails: load gives up with an error, the error
\* handler leaves it to the next reconnection.
RequestFails ==
    /\ Fault
    /\ \/ phase = "loading" /\ phase' = "broken"
       \/ phase \in {"asking", "refreshing"} /\ phase' = "following"
    /\ task' = "none" /\ history' = NoHistory
    /\ UNCHANGED <<server, link, view, known>>

-----------------------------------------------------------------------------
Client == Receive \/ Flush \/ StreamEnds \/ Reconnect \/ AskTask
              \/ RefreshRead \/ Settle

SNext ==
    \/ AppendEvent \/ Finish \/ Continue \/ ReadEvents \/ ReadStatus
    \/ Reload \/ LoadTask \/ LoadEvents \/ Loaded \/ Client
    \/ ConnectionBreaks \/ RequestFails

SSpec == SInit /\ [][SNext]_svars

\* The server polls, the browser dispatches events and answers, and an
\* EventSource reconnects for as long as it is not closed.
SFairSpec ==
    /\ SSpec
    /\ WF_svars(ReadEvents) /\ WF_svars(ReadStatus) /\ WF_svars(Receive)
    /\ WF_svars(StreamEnds) /\ WF_svars(Reconnect) /\ WF_svars(AskTask)
    /\ WF_svars(RefreshRead) /\ WF_svars(Settle)

-----------------------------------------------------------------------------
STypeOK ==
    /\ last \in 0..MaxEvents /\ status \in {"running", "ended"}
    /\ turns \in 0..MaxTurns /\ errors \in 0..MaxErrors
    /\ stream \in {"closed", "open", "empty", "ended", "waiting"}
    /\ sent \in 0..MaxEvents /\ wire \in Seq(1..MaxEvents)
    /\ phase \in Phases /\ task \in {"none", "running", "ended"}
    /\ history \in 0..NoHistory
    /\ shown \in Seq(1..MaxEvents) /\ batch \in Seq(1..MaxEvents)
    /\ lastSeq \in 0..MaxEvents /\ known \in 0..MaxEvents

\* "Preserve every event and its ordering in history" (useSession.ts): through
\* reconnections and refreshes the attached client holds every event up to
\* lastSeq, once and in order.
NothingSkipped == phase \in Attached => shown \o batch = UpTo(lastSeq)

\* The stream may end without the last events, because it reads the status
\* after them; the refresh makes up for it: a client that settles shows every
\* event that was on record when the final status was read.
SettledComplete == phase = "settled" => Len(shown) >= known

\* An attached client does not miss the end: it settles unless another turn
\* starts, the user reloads or a request of the load fails.
FollowerSettles ==
    phase \in Attached /\ status = "ended"
        ~> phase \notin Attached \/ status = "running"
=============================================================================
