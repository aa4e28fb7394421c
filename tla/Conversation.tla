---------------------------- MODULE Conversation ----------------------------
(***************************************************************************)
(* What a conversation promises, without workers, supervisors, tokens,     *)
(* events or recovery: who holds it, how it stands, whose retries it has   *)
(* seen, and what the user said meanwhile.  TaskRuns implements it.        *)
(***************************************************************************)
CONSTANTS
    Holders, Nobody,  \* whoever may hold the conversation; none does
    Ids, NoId,        \* what a client gives a message to recognise its retries
    Outcomes          \* how a turn ends

VARIABLES
    status,   \* "absent", "draft", "running" or an outcome
    holder,   \* whose turn is in progress
    seen,     \* ids of accepted messages
    waiting,  \* said while a turn was in progress, and not heard yet
    heard     \* said, and heard in a turn

vars == <<status, holder, seen, waiting, heard>>

Init ==
    /\ status = "absent" /\ holder = Nobody
    /\ seen = {} /\ waiting = {} /\ heard = {}

Draft ==
    /\ status = "absent" /\ status' = "draft"
    /\ UNCHANGED <<holder, seen, waiting, heard>>

\* A message is accepted when no turn is in progress, and only once.
Accept(h, id) ==
    /\ status # "running" /\ holder = Nobody /\ id \notin seen
    /\ status' = "running" /\ holder' = h
    /\ seen' = seen \cup ({id} \ {NoId})
    /\ UNCHANGED <<waiting, heard>>

\* Only the holder ends its turn ...
Conclude ==
    /\ status = "running" /\ status' \in Outcomes
    /\ holder # Nobody /\ holder' = Nobody
    /\ UNCHANGED <<seen, waiting, heard>>

\* ... unless it is lost, which leaves the conversation 'running',
Lose ==
    /\ holder # Nobody /\ holder' = Nobody
    /\ UNCHANGED <<status, seen, waiting, heard>>

\* until it is taken back from nobody.
Reclaim ==
    /\ status = "running" /\ holder = Nobody
    /\ status' = "interrupted"
    /\ UNCHANGED <<holder, seen, waiting, heard>>

\* Something new is said.
Say ==
    /\ status = "running"
    /\ waiting \subseteq waiting' /\ waiting' \cap heard = {}
    /\ UNCHANGED <<status, holder, seen, heard>>

\* The holder hears all that waits, and nobody hears it again.
Hear ==
    /\ waiting # {} /\ holder # Nobody
    /\ heard' = heard \cup waiting /\ waiting' = {}
    /\ UNCHANGED <<status, holder, seen>>

Next ==
    \/ Draft \/ Say \/ Hear \/ Conclude \/ Lose \/ Reclaim
    \/ \E h \in Holders, id \in Ids \cup {NoId} : Accept(h, id)

Spec == Init /\ [][Next]_vars
=============================================================================
