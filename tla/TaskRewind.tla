----------------------------- MODULE TaskRewind -----------------------------
(***************************************************************************)
(* "Rewind to before turn N" (rewind.rs) and "undo turn N" running against *)
(* the life of the conversation in TaskRuns.  A handler takes MUTATIONS    *)
(* and has a blocking thread do the work: it checks the status, undoes     *)
(* file changes turn by turn (newest first, see workspace_changes::undo)   *)
(* and, for a rewind, drops the conversation records in one transaction.   *)
(* Status, snapshot and turns are read once, before the undo.  The guard   *)
(* is the handler's: when the client hangs up it goes, and the thread      *)
(* works on beside whoever takes MUTATIONS next.                           *)
(***************************************************************************)
EXTENDS TaskRuns

CONSTANTS
    Clients,  \* requests to rewind whose work may go on together
    MaxLost   \* bound: guards of MUTATIONS dropped under their work

ASSUME LostAssumption == MaxLost \in Nat

VARIABLES
    job,        \* what the blocking thread of each such request is doing
    changed,    \* turns with rows in agent_file_changes that are not reverted
    late,       \* undos and records of tools that go on without MUTATIONS
    overlapped, \* history: a message was accepted, or another rewind begun,
                \* while a rewind was at work
    lost

rvars == <<vars, job, changed, late, overlapped, lost>>

\* held: the handler is there, with MUTATIONS.  listed: all turns to undo were
\* found.  alone: nobody else took MUTATIONS or changed the log of file changes
\* while the rewind was at work.
Job == [turn : 0..MaxTurn, held : BOOLEAN, listed : BOOLEAN, alone : BOOLEAN,
        start : Nat, window : SUBSET Nat, todo : SUBSET Turns]

NoJob == [turn |-> 0, held |-> FALSE, listed |-> TRUE, alone |-> TRUE,
          start |-> 0, window |-> {}, todo |-> {}]

Rewinding == {c \in Clients : job[c].turn # 0}
Unlocked  == \A c \in Clients : ~job[c].held

Beset == [c \in Clients |->
             IF c \in Rewinding THEN [job[c] EXCEPT !.alone = FALSE] ELSE job[c]]
Ends(c) == job' = [job EXCEPT ![c] = NoJob]

\* A guard of MUTATIONS is dropped and the work under it goes on.  This counts
\* among the mishaps.
Spared == lost + faults + crashes < MaxMishaps
Loses  == lost < MaxLost /\ Spared /\ lost' = lost + 1
GoesOn(t, undo) == Loses /\ late' = late \cup {[turn |-> t, undo |-> undo]}

RInit ==
    /\ Init /\ job = [c \in Clients |-> NoJob]
    /\ changed = {} /\ late = {} /\ overlapped = FALSE /\ lost = 0

\* A tool that does not take MUTATIONS.
ChangeUnguarded(h) ==
    /\ pc[h] = "loop"
    /\ changed' = changed \cup {turn[h]}
    /\ UNCHANGED <<vars, job, late, overlapped, lost>>

\* A tool of the run changes a file and records it, under MUTATIONS.
ChangeFiles(h) ==
    /\ pc[h] = "loop" /\ Unlocked
    /\ changed' = changed \cup {turn[h]}
    /\ job' = Beset
    /\ UNCHANGED <<vars, late, overlapped, lost>>

\* The worker panics under a tool: the future of the tool is dropped with its
\* guard, and a thread that has begun to record goes on.
FailsRecording(h) ==
    /\ WorkerFails(h) /\ Spared
    /\ \/ UNCHANGED <<late, lost>>
       \/ pc[h] = "loop" /\ GoesOn(turn[h], FALSE)
    /\ UNCHANGED <<job, changed, overlapped>>

\* workspace_changes::undo restores one turn's files unless a task is running.
CanUndo == status # "running"

\* undo_turn: the files of one turn, asked for by the user under MUTATIONS; the
\* client may hang up.
UndoTurn(t) ==
    /\ host = "up" /\ Unlocked /\ CanUndo /\ t \in changed
    /\ \/ changed' = changed \ {t} /\ UNCHANGED <<late, lost>>
       \/ GoesOn(t, TRUE) /\ UNCHANGED changed
    /\ job' = Beset
    /\ UNCHANGED <<vars, overlapped>>

\* What went on without MUTATIONS reaches the log.
FinishLate(work) ==
    /\ work \in late
    /\ IF work.undo THEN CanUndo /\ changed' = changed \ {work.turn}
       ELSE changed' = changed \cup {work.turn}
    /\ late' = late \ {work}
    /\ job' = Beset
    /\ UNCHANGED <<vars, overlapped, lost>>

\* rewind() up to its list of turns to undo; a list that cannot be read is an
\* empty one (unwrap_or_default).
RewindCheck(c, n) ==
    LET later  == {e.seq : e \in {e \in events : e.turn >= n}}
        before == (CHOOSE s \in snapshots : s.turn = n).window
        undo   == {t \in changed : t >= n}
    IN  /\ host = "up" /\ Unlocked /\ job[c] = NoJob
        /\ status \notin {"absent", "running"}
        /\ n \in {s.turn : s \in snapshots}
        /\ later # {}
        /\ \E todo \in {undo, {}} :
               job' = [Beset EXCEPT ![c] =
                   [turn |-> n, held |-> TRUE, listed |-> todo = undo,
                    alone |-> Rewinding = {}, start |-> Min(later),
                    window |-> before, todo |-> todo]]
        /\ overlapped' = (overlapped \/ Rewinding # {})
        /\ UNCHANGED <<vars, changed, late, lost>>

\* The client hangs up: the handler goes and MUTATIONS is free, the thread
\* works on.
HangUp(c) ==
    /\ job[c].held /\ Loses
    /\ job' = [job EXCEPT ![c].held = FALSE]
    /\ UNCHANGED <<vars, changed, late, overlapped>>

\* workspace_changes::undo of the newest turn on the list.
RewindUndo(c) ==
    LET t == Max(job[c].todo) IN
    /\ job[c].todo # {} /\ CanUndo
    /\ changed' = changed \ {t}
    /\ job' = [job EXCEPT ![c].todo = @ \ {t}]
    /\ UNCHANGED <<vars, late, overlapped, lost>>

\* A conflict, or a statement that fails, ends the rewind; turns already undone
\* stay undone.
RewindConflict(c) ==
    /\ c \in Rewinding
    /\ Ends(c)
    /\ UNCHANGED <<vars, changed, late, overlapped, lost>>

\* The rows that stay, and the window as it was before turn n when the rewind
\* looked.
KeptAlso(rows, n) == {r \in rows : r.turn <= n}
Kept(rows, n)     == {r \in rows : r.turn < n}

NotRestored(c) == window
Restored(c)    == job[c].window

\* The closing transaction: every record from the turn's first event on goes,
\* the window becomes what it was, and turn 1 leaves a draft behind.
RewindCommit(c) ==
    LET n == job[c].turn
    IN  /\ c \in Rewinding /\ job[c].todo = {}
        /\ events' = {e \in events : e.seq < job[c].start}
        /\ admitted' = Kept(admitted, n)
        /\ snapshots' = Kept(snapshots, n)
        /\ interjections' = {i \in interjections : i.seq < job[c].start}
        /\ window' = Restored(c)
        /\ deltas' = {t \in deltas : t < n}
        /\ changed' = {t \in changed : t < n}
        /\ status' = IF n = 1 THEN "draft" ELSE status
        /\ Ends(c)
        /\ UNCHANGED <<highWater, memory, run, budget, late, overlapped, lost>>

RNext ==
    \/ /\ \E h \in Requests : Handler(h)
       /\ overlapped' = (overlapped \/ Rewinding # {})
       /\ UNCHANGED <<job, changed, late, lost>>
    \/ /\ \/ CreateDraft \/ Cancel \/ Interject \/ Stop \/ Recover
          \/ \E h \in Requests :
                Abandon(h) \/ Proceed(h) \/ Round(h) \/ Answer(h) \/ GiveUp(h)
       /\ UNCHANGED <<job, changed, late, overlapped, lost>>
    \/ /\ Crash /\ Spared
       /\ job' = [c \in Clients |-> NoJob] /\ late' = {}
       /\ UNCHANGED <<changed, overlapped, lost>>
    \/ \E h \in Requests : ChangeFiles(h) \/ FailsRecording(h)
    \/ \E t \in Turns : UndoTurn(t)
    \/ \E work \in late : FinishLate(work)
    \/ \E c \in Clients :
          \/ \E n \in Turns : RewindCheck(c, n)
          \/ HangUp(c) \/ RewindUndo(c) \/ RewindConflict(c) \/ RewindCommit(c)

RSpec == RInit /\ [][RNext]_rvars

-----------------------------------------------------------------------------
RTypeOK ==
    /\ TypeOK
    /\ job \in [Clients -> Job]
    /\ changed \subseteq Turns /\ overlapped \in BOOLEAN
    /\ late \subseteq [turn : Turns, undo : BOOLEAN]
    /\ lost \in 0..MaxLost

\* Unless a message was accepted or another rewind begun during a rewind, the
\* restored window, and the one of the next turn, refer to events that are
\* still on record; also if the client of the rewind has gone and undos or late
\* records of tools come in between.
WindowRefsExist == ~overlapped => window \subseteq {e.seq : e \in events}

\* Unless a message was accepted or another rewind begun during a rewind, the
\* process ended early, or two writes failed so that a turn ended with no event
\* of it on record (see NextTurnFree), the turn that is replayed finds its
\* number free.
ReplayFits == ~overlapped /\ crashes = 0 /\ faults < 2 => NextTurnFree

\* Files before talk: when a rewind drops the records of turns, none of the
\* file changes in their log is left in the workspace with nothing to undo it.
\* This holds also for a message accepted during the rewind, whose tools wait
\* for MUTATIONS; not for a rewind whose list of turns could not be read, nor
\* for one beside which another took MUTATIONS after a hang-up or the tool of
\* a failed worker recorded late.
FilesBeforeTalk ==
    [][~(events \subseteq events') =>
          \A c \in Clients :
              job'[c] # job[c] /\ job[c].listed /\ job[c].alone
                  => changed \subseteq changed']_rvars

\* Refuted, FilesBeforeTalk without its exceptions: "Files first ... A conflict
\* stops here with the conversation untouched" (rewind.rs), but the records go
\* with no file undone when the list of turns cannot be read, and with files a
\* later turn has just changed when the client hung up.
\* Refuted, OneRun (TaskRuns): turn 1 rewound sets 'draft' under a run that
\* started during the rewind, and "task is still running" is not answered to
\* the next message.
\* Refuted: the delivered flag of a message says whether its delivery is on record. The
\* flag outlives the rewound delivery, though a rewind is to "restore what the agent
\* knew when turn N began" (rewind.rs).
=============================================================================
