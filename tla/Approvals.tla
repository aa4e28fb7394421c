----------------------------- MODULE Approvals -----------------------------
(***************************************************************************)
(* "Ask before running" (tool_approvals.rs): a tool call waits, in its own *)
(* loop over the database, for the user's decision or for a wider grant    *)
(* that another call of the session or project brought about.              *)
(*                                                                         *)
(* Every statement of wait() opens its own connection, so other calls and  *)
(* the user step in between any two of them.  Its only await is the sleep  *)
(* between two polls: that is where a dropped caller (an aborted           *)
(* concurrent function of run_loop) stops.                                 *)
(***************************************************************************)
EXTENDS Naturals, FiniteSets

CONSTANTS
    Tasks, Calls,    \* conversations; tool calls, each with its own call_id
    TaskOf,          \* the conversation of a call
    ProjectOf,       \* the project of a conversation, or NoProject
    NoProject,
    MaxFaults,       \* bound: failed database statements
    MaxCrashes       \* bound: process exits

ASSUME ApprovalsAssumption ==
    /\ TaskOf \in [Calls -> Tasks]
    /\ MaxFaults \in Nat /\ MaxCrashes \in Nat
    /\ Tasks \cap {ProjectOf[t] : t \in Tasks} = {}
    /\ NoProject \notin Tasks

VARIABLES
    decisions,  \* rows of tool_approvals: the first decision on a call
    grants,     \* rows of tool_approval_grants: scopes allowed for good
    pending,    \* rows of tool_approval_pending: cards the task list shows
    recorded,   \* the approval/decision event of a call
    pc,         \* where a call's wait() stands
    waited,     \* what its loop returned
    cancelled,  \* conversations whose token is cancelled
    faults, crashes

avars == <<decisions, grants, pending, recorded, pc, waited, cancelled,
           faults, crashes>>

Decisions == {"once", "session", "project", "deny"}
Undecided == "undecided"

\* ask: the first look at the grants.  card, request: the question is put.
\* look, peek: the two queries of one poll.  sleep: between two polls.
\* clear: the card is removed.  grant, record: the answer is written down.
\* running: wait() returned Ok.  refused: it returned an error.
Waiting == {"request", "look", "peek", "sleep", "clear"}
Labels  == Waiting \cup {"idle", "ask", "card", "grant", "record", "running",
                         "refused", "dropped", "dead"}
Ended   == {"idle", "running", "refused", "dropped", "dead"}

\* grant_scopes: the conversation, then its project if it has one.
Scopes(c) == {TaskOf[c]} \cup ({ProjectOf[TaskOf[c]]} \ {NoProject})
Granted(c) == grants \cap Scopes(c) # {}

\* What a "project" decision allows: the last scope.
Widest(c) == IF ProjectOf[TaskOf[c]] = NoProject THEN TaskOf[c]
                                                ELSE ProjectOf[TaskOf[c]]

\* The grants once the answer of a call is written down.
GrantsAfter(c) ==
    CASE waited[c] = "session" -> grants \cup {TaskOf[c]}
      [] waited[c] = "project" -> grants \cup {Widest(c)}
      [] OTHER -> grants

\* The rows of tool_approval_pending a returning call deletes.
CardsOfTask(c) == {d \in Calls : TaskOf[d] = TaskOf[c]}
CardOf(c)      == {c}

\* INSERT OR IGNORE into tool_approvals.
Decided(old, d) == IF old = Undecided THEN d ELSE old

Go(c, label) == pc' = [pc EXCEPT ![c] = label]

Init ==
    /\ decisions = [c \in Calls |-> Undecided]
    /\ grants = {} /\ pending = {}
    /\ recorded = [c \in Calls |-> Undecided]
    /\ pc = [c \in Calls |-> "idle"]
    /\ waited = [c \in Calls |-> Undecided]
    /\ cancelled = {}
    /\ faults = 0 /\ crashes = 0

-----------------------------------------------------------------------------
(* wait()                                                                  *)

Call(c) ==
    /\ pc[c] = "idle"
    /\ Go(c, "ask")
    /\ UNCHANGED <<decisions, grants, pending, recorded, waited, cancelled,
                   faults, crashes>>

Ask(c) ==
    /\ pc[c] = "ask"
    /\ Go(c, IF Granted(c) THEN "running" ELSE "card")
    /\ UNCHANGED <<decisions, grants, pending, recorded, waited, cancelled,
                   faults, crashes>>

Card(c) ==
    /\ pc[c] = "card"
    /\ pending' = pending \cup {c}
    /\ Go(c, "request")
    /\ UNCHANGED <<decisions, grants, recorded, waited, cancelled, faults,
                   crashes>>

\* The approval/request event the UI draws the card from.
Request(c) ==
    /\ pc[c] = "request"
    /\ Go(c, "look")
    /\ UNCHANGED <<decisions, grants, pending, recorded, waited, cancelled,
                   faults, crashes>>

\* One poll: the token, then the user's decision on this very call ...
Look(c) ==
    /\ pc[c] = "look"
    /\ \/ /\ TaskOf[c] \in cancelled
          /\ recorded' = [recorded EXCEPT ![c] = "cancelled"]
          /\ waited' = [waited EXCEPT ![c] = "error"]
          /\ Go(c, "clear")
       \/ /\ TaskOf[c] \notin cancelled /\ decisions[c] # Undecided
          /\ waited' = [waited EXCEPT ![c] = decisions[c]]
          /\ Go(c, "clear")
          /\ UNCHANGED recorded
       \/ /\ TaskOf[c] \notin cancelled /\ decisions[c] = Undecided
          /\ Go(c, "peek")
          /\ UNCHANGED <<recorded, waited>>
    /\ UNCHANGED <<decisions, grants, pending, cancelled, faults, crashes>>

\* A poll that only looks at this call.
PeekNothing(c) ==
    /\ pc[c] = "peek"
    /\ Go(c, "sleep")
    /\ UNCHANGED <<decisions, grants, pending, recorded, waited, cancelled,
                   faults, crashes>>

\* ... then a wider grant another call may have brought.
Peek(c) ==
    /\ pc[c] = "peek"
    /\ IF Granted(c)
       THEN waited' = [waited EXCEPT ![c] = "granted"] /\ Go(c, "clear")
       ELSE UNCHANGED waited /\ Go(c, "sleep")
    /\ UNCHANGED <<decisions, grants, pending, recorded, cancelled, faults,
                   crashes>>

Wake(c) ==
    /\ pc[c] = "sleep"
    /\ Go(c, "look")
    /\ UNCHANGED <<decisions, grants, pending, recorded, waited, cancelled,
                   faults, crashes>>

Clear(c) ==
    /\ pc[c] = "clear"
    /\ pending' = pending \ CardOf(c)
    /\ Go(c, IF waited[c] = "error" THEN "refused" ELSE "grant")
    /\ UNCHANGED <<decisions, grants, recorded, waited, cancelled, faults,
                   crashes>>

Grant(c) ==
    /\ pc[c] = "grant"
    /\ grants' = GrantsAfter(c)
    /\ Go(c, "record")
    /\ UNCHANGED <<decisions, pending, recorded, waited, cancelled, faults,
                   crashes>>

\* A wait() that records a refusal and lets the call go on.
RecordAndRun(c) ==
    /\ pc[c] = "record"
    /\ recorded' = [recorded EXCEPT ![c] = waited[c]]
    /\ Go(c, "running")
    /\ UNCHANGED <<decisions, grants, pending, waited, cancelled, faults,
                   crashes>>

Record(c) ==
    /\ pc[c] = "record"
    /\ recorded' = [recorded EXCEPT ![c] = waited[c]]
    /\ Go(c, IF waited[c] = "deny" THEN "refused" ELSE "running")
    /\ UNCHANGED <<decisions, grants, pending, waited, cancelled, faults,
                   crashes>>

\* A statement fails.  Inside the loop the card is still cleared; anywhere
\* else `?` leaves wait() at once.
StatementFails(c) ==
    /\ faults < MaxFaults /\ faults' = faults + 1
    /\ \/ /\ pc[c] \in {"look", "peek"}
          /\ waited' = [waited EXCEPT ![c] = "error"]
          /\ Go(c, "clear")
       \/ /\ pc[c] \in {"ask", "card", "request", "clear", "grant", "record"}
          /\ Go(c, "refused")
          /\ UNCHANGED waited
    /\ UNCHANGED <<decisions, grants, pending, recorded, cancelled, crashes>>

-----------------------------------------------------------------------------
(* The others                                                              *)

\* decide: the first decision stays (INSERT OR IGNORE), whether or not the
\* call still waits; the UI offers it once the request event is out.
Decide(c, d) ==
    /\ pc[c] \notin {"idle", "ask", "card", "request"}
    /\ d \in Decisions
    /\ decisions' = [decisions EXCEPT ![c] = Decided(@, d)]
    /\ UNCHANGED <<grants, pending, recorded, pc, waited, cancelled, faults,
                   crashes>>

Cancel(t) ==
    /\ cancelled' = cancelled \cup {t}
    /\ UNCHANGED <<decisions, grants, pending, recorded, pc, waited, faults,
                   crashes>>

\* The loop that runs this call in a concurrent function returns and drops its
\* JoinSet.
Drop(c) ==
    /\ pc[c] = "sleep"
    /\ Go(c, "dropped")
    /\ UNCHANGED <<decisions, grants, pending, recorded, waited, cancelled,
                   faults, crashes>>

Crash ==
    /\ crashes < MaxCrashes /\ crashes' = crashes + 1
    /\ pc' = [c \in Calls |-> IF pc[c] \in Ended THEN pc[c] ELSE "dead"]
    /\ cancelled' = {}
    /\ UNCHANGED <<decisions, grants, pending, recorded, waited, faults>>

Step(c) ==
    Ask(c) \/ Card(c) \/ Request(c) \/ Look(c) \/ Peek(c) \/ Wake(c)
        \/ Clear(c) \/ Grant(c) \/ Record(c)

Next ==
    \/ \E c \in Calls : Call(c) \/ Step(c) \/ StatementFails(c) \/ Drop(c)
    \/ \E c \in Calls, d \in Decisions : Decide(c, d)
    \/ \E t \in Tasks : Cancel(t)
    \/ Crash

Spec == Init /\ [][Next]_avars

\* The future of a call is polled until it completes.
FairSpec == Spec /\ \A c \in Calls : WF_avars(Step(c))

-----------------------------------------------------------------------------
TypeOK ==
    /\ decisions \in [Calls -> Decisions \cup {Undecided}]
    /\ grants \subseteq UNION {Scopes(c) : c \in Calls}
    /\ pending \subseteq Calls
    /\ recorded \in [Calls -> Decisions \cup {Undecided, "granted", "cancelled"}]
    /\ pc \in [Calls -> Labels]
    /\ waited \in [Calls -> Decisions \cup {Undecided, "granted", "error"}]
    /\ cancelled \subseteq Tasks
    /\ faults \in 0..MaxFaults /\ crashes \in 0..MaxCrashes

\* A scope is granted only by a user who chose "session" or "project" for a
\* call of that conversation or project: neither "once" nor an answer for
\* another project ever widens.
GrantsChosen ==
    \A s \in grants : \E c \in Calls :
        \/ decisions[c] = "session" /\ s = TaskOf[c]
        \/ decisions[c] = "project" /\ s = Widest(c)

\* A call runs only if the user allowed that call, or a scope it lies in.
RunsAllowed ==
    \A c \in Calls : pc[c] = "running" =>
        Granted(c) \/ decisions[c] \in {"once", "session", "project"}

\* The list, the event and the stored answer tell the user the same: a call that
\* waits has its card on the list, across the races of other calls of the
\* conversation, and of several answers to one card the event the conversation
\* keeps is the first one, before and after it was read.
CardsTell ==
    \A c \in Calls :
        /\ pc[c] \in Waiting => c \in pending
        /\ recorded[c] \in Decisions => recorded[c] = decisions[c]

\* An answered, cancelled or granted call does not wait for ever.
AnswerEndsWait ==
    \A c \in Calls :
        pc[c] \in Waiting
          /\ (decisions[c] # Undecided \/ Granted(c) \/ TaskOf[c] \in cancelled)
          ~> pc[c] \in Ended
=============================================================================
