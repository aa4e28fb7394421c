---------------------------- MODULE FileChanges ----------------------------
(***************************************************************************)
(* src/workspace_changes.rs: what a turn did to the files of the project,  *)
(* and how it is undone.                                                   *)
(*                                                                         *)
(* A mutating tool holds a guard (its file, or the whole workspace) while  *)
(* it takes an image of the files, works, takes another and records the    *)
(* difference; undo_turn holds the guard of the workspace while a blocking *)
(* thread puts one file after the other back.  The rows are those of one   *)
(* turn.  Contents are told apart, names and line counts are not; what a   *)
(* tool, another turn or the user writes is not known, and the user may    *)
(* write at any time.  The future of a tool may be dropped, or the process *)
(* may end, before the change is recorded, and what was started may go on  *)
(* without the guard.  A file that was too big to keep ("unavailable") is  *)
(* as good as an incomplete turn and left out.                             *)
(***************************************************************************)
EXTENDS Naturals, FiniteSets

CONSTANTS
    MaxFile,   \* files 1..MaxFile, in the order of their paths
    Contents,  \* what tools write; absent is one of them
    Original,  \* what the files hold before the turn
    Foreign,   \* what the user writes
    NoRow,
    Tools, Undoers,
    MaxEdits,  \* bound: writes of the user, and late ones of tools
    MaxLost    \* bound: calls whose change is not recorded

Files == 1..MaxFile

ASSUME FileChangesAssumption ==
    /\ MaxFile \in Nat /\ MaxEdits \in Nat /\ MaxLost \in Nat
    /\ Original \in Contents /\ Foreign \notin Contents

Bytes == Contents \cup {Foreign}

VARIABLES
    disk,        \* the files
    row,         \* agent_file_changes of the turn
    incomplete,  \* agent_change_turns
    active,      \* the turn runs
    call,        \* the tool calls of the turn
    undo,        \* the requests to undo it
    edits,
    blended,     \* history: files where a tool of the turn wrote over an edit
    broken       \* history: an undo was cut off, or met another one

fvars == <<disk, row, incomplete, active, call, undo, edits, blended, broken>>

Rows  == [before : Bytes, after : Bytes, conflicted : BOOLEAN, reverted : BOOLEAN]
ASSUME NoRowAssumption == NoRow \notin Rows
Known == {f \in Files : row[f] # NoRow}

NewCall == [pc |-> "new", files |-> {}, image |-> [f \in Files |-> Original],
            captured |-> FALSE, background |-> FALSE]
NewUndo == [pc |-> "new", todo |-> {}, applied |-> {}, rows |-> [f \in Files |-> NoRow],
            guard |-> FALSE, trouble |-> FALSE, seen |-> Original]

FInit ==
    /\ disk = [f \in Files |-> Original]
    /\ row = [f \in Files |-> NoRow]
    /\ incomplete = FALSE /\ active = TRUE
    /\ call = [t \in Tools |-> NewCall]
    /\ undo = [u \in Undoers |-> NewUndo]
    /\ edits = 0 /\ blended = {} /\ broken = FALSE

-----------------------------------------------------------------------------
(* Tools of the turn *)

Working == {t \in Tools : call[t].pc \in {"before", "after"}}

\* mutation_guard: a file tool shares the workspace with tools of other
\* files, any other tool has it alone, and nobody has it beside an undo.
GuardIgnored(files) == \A u \in Undoers : ~undo[u].guard
Guarded(files) ==
    /\ \A u \in Undoers : ~undo[u].guard
    /\ \A t \in Working : call[t].files \cap files = {}

\* execute_tracked: the image before ...
Begin(t, files) ==
    /\ active /\ call[t].pc = "new" /\ Guarded(files)
    /\ \E captured \in BOOLEAN :
          call' = [call EXCEPT ![t] =
              [@ EXCEPT !.pc = "before", !.files = files, !.captured = captured,
                        !.image = [f \in Files |->
                            IF captured /\ f \in files THEN disk[f] ELSE Original]]]
    /\ UNCHANGED <<disk, row, incomplete, active, undo, edits, blended, broken>>

\* ... the tool itself, whose process may stay in the background.  An edit
\* under a working tool looks like the tool's own ...
Work(t) ==
    /\ call[t].pc = "before"
    /\ \E some \in SUBSET call[t].files, bytes \in Contents :
          /\ disk' = [f \in Files |-> IF f \in some THEN bytes ELSE disk[f]]
          /\ blended' = blended \cup
                 {f \in some \cap Known :
                     disk[f] = Foreign /\ call[t].image[f] = Foreign
                     /\ row[f].after # Foreign}
    /\ \E background \in IF call[t].files = Files THEN BOOLEAN ELSE {FALSE} :
          call' = [call EXCEPT ![t] = [@ EXCEPT !.pc = "after",
                                         !.background = background]]
    /\ UNCHANGED <<row, incomplete, active, undo, edits, broken>>

\* ... and record.  The first image of the turn stays the one to go back to.
ConflictLast(f, old) == row[f] # NoRow /\ row[f].after # old
Conflict(f, old) ==
    row[f] # NoRow /\ (row[f].conflicted \/ row[f].after # old)

FirstOld(f, old) == old
First(f, old) == IF row[f] = NoRow THEN old ELSE row[f].before

Recorded(f, old, new) ==
    IF old = new THEN row[f]
    ELSE IF First(f, old) = new THEN NoRow
    ELSE [before |-> First(f, old), after |-> new,
          conflicted |-> Conflict(f, old), reverted |-> FALSE]

Record(t) ==
    /\ call[t].captured
    /\ row' = [f \in Files |->
          IF f \in call[t].files THEN Recorded(f, call[t].image[f], disk[f])
          ELSE row[f]]
    /\ blended' = {f \in blended : row'[f] # NoRow}

\* A change that is not recorded, or a process that stays, is marked.
Marks(t) == call[t].background

Finish(t) ==
    /\ call[t].pc = "after"
    /\ \/ Record(t) /\ incomplete' \in {incomplete \/ Marks(t), TRUE}
       \/ incomplete' = TRUE /\ UNCHANGED <<row, blended>>
    /\ call' = [call EXCEPT ![t] =
          IF @.background THEN [@ EXCEPT !.pc = "left"]
          ELSE [NewCall EXCEPT !.pc = "done"]]
    /\ UNCHANGED <<disk, active, undo, edits, broken>>

\* The future of the tool is dropped, with its guard, or neither the rows nor
\* the mark can be written, which nobody hears of.
Lost   == {t \in Tools : call[t].pc = "lost"}
Logged == {f \in Files : \A t \in Lost : f \notin call[t].files}

Lose(t) ==
    /\ t \in Working /\ Cardinality(Lost) < MaxLost
    /\ call' = [call EXCEPT ![t] = [@ EXCEPT !.pc = "lost"]]
    /\ UNCHANGED <<disk, row, incomplete, active, undo, edits, blended, broken>>

\* What a lost call had started goes on: a write ...
WriteLate(t) ==
    /\ call[t].pc \in {"left", "lost"}
    /\ edits < MaxEdits /\ edits' = edits + 1
    /\ \E some \in SUBSET call[t].files, bytes \in Contents :
          disk' = [f \in Files |-> IF f \in some THEN bytes ELSE disk[f]]
    /\ UNCHANGED <<row, incomplete, active, call, undo, blended, broken>>

\* ... or the record, of what the files then hold.
RecordLate(t) ==
    /\ call[t].pc = "lost" /\ Record(t)
    /\ call' = [call EXCEPT ![t] = [@ EXCEPT !.captured = FALSE]]
    /\ UNCHANGED <<disk, incomplete, active, undo, edits, broken>>

EndTurn ==
    /\ active /\ Working = {}
    /\ active' = FALSE
    /\ UNCHANGED <<disk, row, incomplete, call, undo, edits, blended, broken>>

-----------------------------------------------------------------------------
(* The user, and everybody else *)

Edit(f) ==
    /\ edits < MaxEdits /\ disk[f] # Foreign
    /\ disk' = [disk EXCEPT ![f] = Foreign]
    /\ edits' = edits + 1
    /\ UNCHANGED <<row, incomplete, active, call, undo, blended, broken>>

-----------------------------------------------------------------------------
(* undo *)

Available ==
    /\ Known # {} /\ ~incomplete
    /\ \A f \in Known : ~row[f].conflicted

Open == {f \in Known : ~row[f].reverted}
NextFile(files) == CHOOSE f \in files : \A g \in files : f <= g
LastFile(files) == CHOOSE f \in files : \A g \in files : f >= g

Undoing(u) == undo[u].pc \notin {"new", "undone", "failed"}
Becomes(u, this) == undo' = [undo EXCEPT ![u] = this]

\* Nothing is touched while a file does not hold what the turn left in it.
StartUndo(u) ==
    /\ undo[u].pc = "new" /\ ~active /\ Available /\ Open # {}
    /\ Working = {} /\ \A v \in Undoers : ~undo[v].guard
    /\ \A f \in Open : disk[f] = row[f].after
    /\ Becomes(u, [undo[u] EXCEPT !.pc = "check", !.todo = Open, !.rows = row,
                                  !.guard = TRUE])
    /\ broken' = (broken \/ \E v \in Undoers : Undoing(v))
    /\ UNCHANGED <<disk, row, incomplete, active, call, edits, blended>>

Holds(f, bytes) == disk[f] = bytes

\* File by file: look again, replace it, mark its row.
Check(u) ==
    LET this == undo[u]
        f    == NextFile(this.todo)
    IN  /\ this.pc = "check" /\ this.todo # {}
        /\ Becomes(u, [this EXCEPT !.seen = disk[f], !.pc =
               IF Holds(f, this.rows[f].after) THEN "replace" ELSE "rollback"])
        /\ UNCHANGED <<disk, row, incomplete, active, call, edits, blended,
                       broken>>

Replace(u) ==
    LET this == undo[u]
        f    == NextFile(this.todo)
    IN  /\ this.pc = "replace"
        /\ \/ /\ disk' = [disk EXCEPT ![f] = this.rows[f].before]
              /\ Becomes(u, [this EXCEPT !.pc = "mark"])
           \/ Becomes(u, [this EXCEPT !.pc = "rollback"]) /\ UNCHANGED disk
        /\ UNCHANGED <<row, incomplete, active, call, edits, blended, broken>>

Reverted(f, flag) ==
    IF row[f] = NoRow THEN row
    ELSE [row EXCEPT ![f] = [@ EXCEPT !.reverted = flag]]

\* The row cannot be written: the file goes back as well.
Mark(u) ==
    LET this == undo[u]
        f    == NextFile(this.todo)
    IN  /\ this.pc = "mark"
        /\ \/ /\ row' = Reverted(f, TRUE)
              /\ Becomes(u, [this EXCEPT !.pc = "check", !.todo = @ \ {f},
                                         !.applied = @ \cup {f}])
           \/ /\ Becomes(u, [this EXCEPT !.pc = "rollback",
                                         !.applied = @ \cup {f}])
              /\ UNCHANGED row
        /\ UNCHANGED <<disk, incomplete, active, call, edits, blended, broken>>

\* Rollback, in the opposite order.
CheckBack(u) ==
    LET this == undo[u]
        f    == LastFile(this.applied)
    IN  /\ this.pc = "rollback" /\ this.applied # {}
        /\ IF Holds(f, this.rows[f].before)
           THEN Becomes(u, [this EXCEPT !.pc = "putback"])
           ELSE Becomes(u, [this EXCEPT !.applied = @ \ {f}, !.trouble = TRUE])
        /\ UNCHANGED <<disk, row, incomplete, active, call, edits, blended,
                       broken>>

PutBack(u) ==
    LET this == undo[u]
        f    == LastFile(this.applied)
    IN  /\ this.pc = "putback"
        /\ \/ /\ disk' = [disk EXCEPT ![f] = this.rows[f].after]
              /\ Becomes(u, [this EXCEPT !.pc = "unmark"])
           \/ /\ Becomes(u, [this EXCEPT !.pc = "rollback", !.trouble = TRUE,
                                         !.applied = @ \ {f}])
              /\ UNCHANGED disk
        /\ UNCHANGED <<row, incomplete, active, call, edits, blended, broken>>

Unmark(u) ==
    LET this == undo[u]
        f    == LastFile(this.applied)
    IN  /\ this.pc = "unmark"
        /\ row' = Reverted(f, FALSE)
        /\ Becomes(u, [this EXCEPT !.pc = "rollback", !.applied = @ \ {f}])
        /\ UNCHANGED <<disk, incomplete, active, call, edits, blended, broken>>

Over(pc) == [NewUndo EXCEPT !.pc = pc]

TroubleForgotten(u) == incomplete
TroubleTold(u) == incomplete \/ undo[u].trouble

Undone(u) ==
    /\ undo[u].pc = "check" /\ undo[u].todo = {}
    /\ Becomes(u, Over("undone"))
    /\ UNCHANGED <<disk, row, incomplete, active, call, edits, blended, broken>>

GiveUp(u) ==
    /\ undo[u].pc = "rollback" /\ undo[u].applied = {}
    /\ incomplete' = TroubleTold(u)
    /\ Becomes(u, Over("failed"))
    /\ UNCHANGED <<disk, row, active, call, edits, blended, broken>>

\* The process ends, or a row cannot be written during a rollback.
CutOff(u) ==
    /\ Undoing(u)
    /\ Becomes(u, Over("failed"))
    /\ broken' = TRUE
    /\ UNCHANGED <<disk, row, incomplete, active, call, edits, blended>>

\* The client goes away: the handler and its guard are dropped, the blocking
\* thread goes on.
Abandon(u) ==
    /\ Undoing(u) /\ undo[u].guard
    /\ Becomes(u, [undo[u] EXCEPT !.guard = FALSE])
    /\ UNCHANGED <<disk, row, incomplete, active, call, edits, blended, broken>>

-----------------------------------------------------------------------------
FileSets == {{f} : f \in Files} \cup {Files}

FNext ==
    \/ \E t \in Tools :
          \/ Work(t) \/ Finish(t) \/ Lose(t) \/ WriteLate(t) \/ RecordLate(t)
          \/ \E files \in FileSets : Begin(t, files)
    \/ EndTurn
    \/ \E f \in Files : Edit(f)
    \/ \E u \in Undoers :
          \/ StartUndo(u) \/ Check(u) \/ Replace(u) \/ Mark(u)
          \/ CheckBack(u) \/ PutBack(u) \/ Unmark(u) \/ Undone(u) \/ GiveUp(u)
          \/ CutOff(u) \/ Abandon(u)

FSpec == FInit /\ [][FNext]_fvars

-----------------------------------------------------------------------------
FTypeOK ==
    /\ disk \in [Files -> Bytes]
    /\ row \in [Files -> Rows \cup {NoRow}]
    /\ incomplete \in BOOLEAN /\ active \in BOOLEAN /\ broken \in BOOLEAN
    /\ call \in [Tools ->
          [pc : {"new", "before", "after", "done", "left", "lost"},
           files : SUBSET Files,
           image : [Files -> Bytes], captured : BOOLEAN, background : BOOLEAN]]
    /\ undo \in [Undoers ->
          [pc : {"new", "check", "replace", "mark", "rollback", "putback",
                 "unmark", "undone", "failed"},
           todo : SUBSET Files, applied : SUBSET Files,
           rows : [Files -> Rows \cup {NoRow}],
           guard : BOOLEAN, trouble : BOOLEAN, seen : Bytes]]
    /\ edits \in 0..MaxEdits /\ blended \subseteq Files
    /\ \A s, t \in Working : s # t => call[s].files \cap call[t].files = {}

Quiet == \A u \in Undoers : ~Undoing(u)

(* While no tool works, the log of a complete turn says what the turn did: *)
(* a file it does not list is as it was, and a listed one came from what   *)
(* it was before the turn and holds what the row says, as far as the user  *)
(* did not write; also if tools ran together, and after an undo that went  *)
(* through.  The exceptions are the files of a call that was dropped, or   *)
(* whose mark could not be written either; they do not spoil the others.   *)
LogIsRight ==
    (/\ Working = {} /\ Quiet /\ ~incomplete /\ ~broken
     /\ \A u \in Undoers : undo[u].pc # "failed") =>
        \A f \in Logged :
            /\ row[f] # NoRow => row[f].before \in {Original, Foreign}
            /\ \/ disk[f] = Foreign
               \/ disk[f] = IF row[f] = NoRow THEN Original
                           ELSE IF row[f].reverted THEN row[f].before
                           ELSE row[f].after

(* An undo is whole: when it is over, all files of the turn are reverted   *)
(* or none is, or the turn is marked and never offered for undo again;     *)
(* unless the process was cut off in the middle, and but for the files of  *)
(* calls whose change was not recorded in time.                            *)
UndoIsWhole ==
    (Quiet /\ ~incomplete /\ ~broken) =>
        Open \cap Logged \in {{}, Known \cap Logged}

(* An undo takes back only what the turn wrote: it never goes for a file   *)
(* where the turn wrote over an edit of the user's, as far as the write    *)
(* was recorded, nor for one that the user edited after the turn, not even *)
(* if the edit came after the undo had looked at all files; up to the      *)
(* moment between look and replacement.                                    *)
EditsSurvive ==
    \A u \in Undoers : undo[u].pc = "replace" =>
        LET f == NextFile(undo[u].todo) IN
        /\ f \in Logged => f \notin blended
        /\ undo[u].seen = Foreign => undo[u].rows[f].after = Foreign
=============================================================================
