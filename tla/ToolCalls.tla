----------------------------- MODULE ToolCalls -----------------------------
(***************************************************************************)
(* How the actions of the model survive a worker that stops at any point:  *)
(* the tool-call part of single_agent.rs (model_round, run_loop,           *)
(* execute_call, the recovery in run_task) and the tool steps of programs  *)
(* in program_flow.rs.                                                     *)
(*                                                                         *)
(* The worker keeps a context ("window") in memory and saves it; each call *)
(* and result is also an event.  Saving and appending are separate writes. *)
(* A call asked for by the model is a tool call of a message and answered  *)
(* in the window; a call made by a program is a step of it, and its result *)
(* becomes the value of an expression.  Runs of one conversation do not    *)
(* overlap (TaskRuns), so there is one worker; Stop stands for everything  *)
(* that ends it early: a crash, a cancel, a failed write, a model error.   *)
(***************************************************************************)
EXTENDS Naturals, Sequences

CONSTANTS
    Ids,          \* tool call ids; a provider may use one again in a later message
    NoId,
    MaxMessages,  \* bound: messages with tool calls
    MaxPrograms,  \* bound: programs the model writes
    MaxSteps,     \* tool steps of a program
    MaxTurns      \* bound: turns, each ended by an answer or cut off

ASSUME ToolCallsAssumption ==
    /\ MaxMessages \in Nat /\ MaxPrograms \in Nat
    /\ MaxSteps \in Nat \ {0} /\ MaxTurns \in Nat
    /\ NoId \notin Ids

VARIABLES
    seq,        \* newest event number
    results,    \* tool/result events of the model's calls
    receipts,   \* tool/result events of program steps, by action id
    saved,      \* agent_runtime_windows: the saved context
    taskOpen,   \* the main task has not returned: the next turn continues it
    pc, mine,   \* the worker and its context
    todo, at,   \* calls of the message still to run; the one in hand
    ranCalls,   \* history: calls of the open main task whose effect happened
    ranSteps,   \* history: steps whose effect happened, and how often
    cut,        \* history: steps in whose middle the worker stopped
    messages, programs, actions, turns

durable == <<seq, results, receipts, saved, taskOpen>>
worker  == <<pc, mine, todo, at>>
history == <<ranCalls, ranSteps, cut>>
budget  == <<messages, programs, actions, turns>>
vars    == <<durable, worker, history, budget>>

-----------------------------------------------------------------------------
\* A context: its messages, and the program it runs with the step in flight.
NoProgram == [left |-> 0, pending |-> 0]
Empty     == [talk |-> <<>>, running |-> FALSE, program |-> NoProgram]

Asks(n, ids)  == [kind |-> "asks", seq |-> n, ids |-> ids]
Tells(n, id)  == [kind |-> "tells", seq |-> n, ids |-> {id}]
Say(w, entry) == [w EXCEPT !.talk = Append(@, entry)]

Questions(w) ==
    {w.talk[i] : i \in {i \in DOMAIN w.talk : w.talk[i].kind = "asks"}}

\* Calls of a context without an answer after them: run_task's map from id to
\* the number of the (last) message that asked.
Unanswered(w) ==
    {call \in [asked : {w.talk[i].seq : i \in DOMAIN w.talk}, id : Ids] :
        \E i \in DOMAIN w.talk :
            /\ w.talk[i].kind = "asks"
            /\ w.talk[i].seq = call.asked /\ call.id \in w.talk[i].ids
            /\ \A j \in i + 1 .. Len(w.talk) : call.id \notin w.talk[j].ids}

\* The recorded results of a call that recovery looks at: those after the
\* message.
RecordedEver(call)  == {r \in results : r.id = call.id}
Recorded(call)      == {r \in results : r.id = call.id /\ r.seq > call.asked}

\* Whether a step has its result on record.
ReceiptIgnored(action) == FALSE
Receipt(action)        == action \in receipts

NoCall == [asked |-> 0, id |-> NoId]

Newest(R) == CHOOSE r \in R : \A s \in R : s.seq <= r.seq

Init ==
    /\ seq = 0 /\ results = {} /\ receipts = {}
    /\ saved = Empty /\ taskOpen = FALSE
    /\ pc = "idle" /\ mine = Empty /\ todo = {} /\ at = NoCall
    /\ ranCalls = {} /\ ranSteps = <<>> /\ cut = {}
    /\ messages = 0 /\ programs = 0 /\ actions = 0 /\ turns = 0

-----------------------------------------------------------------------------
(* A turn begins                                                           *)

\* The saved context of an open main task, else a clean one.
Begin ==
    /\ pc = "idle"
    /\ turns < MaxTurns /\ turns' = turns + 1
    /\ mine' = IF taskOpen THEN saved ELSE Empty
    /\ pc' = "recover"
    /\ UNCHANGED <<durable, todo, at, history, messages, programs, actions>>

\* A call that was cut off takes its recorded result, or one is recorded that
\* says its completion is unknown; it is not made again.
Recover(call) ==
    /\ pc = "recover"
    /\ call \in Unanswered(mine)
    /\ IF Recorded(call) # {}
       THEN /\ mine' = Say(mine, Tells(Newest(Recorded(call)).seq, call.id))
            /\ UNCHANGED <<seq, results>>
       ELSE /\ seq' = seq + 1
            /\ results' = results \cup {[seq |-> seq + 1, id |-> call.id,
                                         of |-> call.asked, known |-> FALSE]}
            /\ mine' = Say(mine, Tells(seq + 1, call.id))
    /\ UNCHANGED <<receipts, saved, taskOpen, pc, todo, at, history, budget>>

\* turn/start, user/message and the context with it are written.
Open ==
    /\ pc = "recover" /\ Unanswered(mine) = {}
    /\ seq' = seq + 1
    /\ saved' = mine /\ taskOpen' = TRUE
    /\ pc' = "loop"
    /\ UNCHANGED <<results, receipts, mine, todo, at, history, budget>>

-----------------------------------------------------------------------------
(* The model asks for tools                                                *)

\* model_round: a reply with tool calls is appended ...
Reply(ids) ==
    /\ pc = "loop" /\ ~mine.running
    /\ messages < MaxMessages /\ messages' = messages + 1
    /\ seq' = seq + 1
    /\ todo' = ids
    /\ pc' = "replied"
    /\ UNCHANGED <<results, receipts, saved, taskOpen, mine, at, history,
                   programs, actions, turns>>

Retain ==
    /\ pc = "replied"
    /\ mine' = Say(mine, Asks(seq, todo))
    /\ pc' = "calls"
    /\ UNCHANGED <<seq, results, receipts, taskOpen, todo, at, history, budget>>

\* A model_round that keeps the reply in memory only.
KeepUnsaved == Retain /\ UNCHANGED saved

\* ... and saved with the context, before any of them is made.
Keep == Retain /\ saved' = mine'

\* execute_call appends tool/call.
Call(id) ==
    /\ pc = "calls" /\ id \in todo
    /\ at' = [asked |-> Newest(Questions(mine)).seq, id |-> id]
    /\ seq' = seq + 1
    /\ pc' = "calling"
    /\ UNCHANGED <<results, receipts, saved, taskOpen, mine, todo, history, budget>>

\* The tool runs, or refuses before it did anything.
Execute ==
    /\ pc = "calling"
    /\ ranCalls' \in {ranCalls, ranCalls \cup {at}}
    /\ pc' = "called"
    /\ UNCHANGED <<durable, mine, todo, at, ranSteps, cut, budget>>

\* tool/result, whatever it was.
Record ==
    /\ pc = "called"
    /\ seq' = seq + 1
    /\ results' = results \cup
           {[seq |-> seq + 1, id |-> at.id, of |-> at.asked, known |-> TRUE]}
    /\ pc' = "recorded"
    /\ UNCHANGED <<receipts, saved, taskOpen, mine, todo, at, history, budget>>

\* The result goes into the context, which is saved call by call.
Tell ==
    /\ pc = "recorded"
    /\ mine' = Say(mine, Tells(seq, at.id)) /\ saved' = mine'
    /\ todo' = todo \ {at.id}
    /\ at' = NoCall
    /\ pc' = IF todo' = {} THEN "loop" ELSE "calls"
    /\ UNCHANGED <<seq, results, receipts, taskOpen, history, budget>>

-----------------------------------------------------------------------------
(* The model writes a program                                              *)

\* A reply with source: the program is compiled, installed and saved.
Install ==
    /\ pc = "loop" /\ ~mine.running
    /\ programs < MaxPrograms /\ programs' = programs + 1
    /\ seq' = seq + 1
    /\ \E n \in 1..MaxSteps :
           mine' = [mine EXCEPT !.running = TRUE,
                                !.program = [left |-> n, pending |-> 0]]
    /\ saved' = mine'
    /\ UNCHANGED <<results, receipts, taskOpen, pc, todo, at, history,
                   messages, actions, turns>>

Resolved(w) == [w EXCEPT !.program = [left |-> @.left - 1, pending |-> 0]]

\* program_flow::recover: the step in flight has its result on record.
Consume ==
    /\ pc = "loop" /\ mine.program.pending # 0 /\ Receipt(mine.program.pending)
    /\ mine' = Resolved(mine) /\ saved' = mine'
    /\ UNCHANGED <<seq, results, receipts, taskOpen, pc, todo, at, history, budget>>

StoppedAt(w, action) == [w EXCEPT !.program.pending = action]

\* next: the program stops at its next tool step, under a new id; a step that
\* is pending already is handed out as it is.
HandOut ==
    /\ pc = "loop" /\ mine.program.left > 0
    /\ \/ /\ mine.program.pending = 0
          /\ actions' = actions + 1
          /\ mine' = StoppedAt(mine, actions')
       \/ /\ mine.program.pending # 0 /\ ~Receipt(mine.program.pending)
          /\ UNCHANGED <<actions, mine>>
    /\ pc' = "step"
    /\ UNCHANGED <<seq, results, receipts, taskOpen, todo, at, history,
                   messages, programs, turns>>

\* The context is saved before the step is made.
Dispatch == HandOut /\ saved' = mine'

Times(action) == IF action \in DOMAIN ranSteps THEN ranSteps[action] ELSE 0

\* execute_call for a step: tool/call, then the tool runs or refuses.
ExecuteStep ==
    /\ pc = "step"
    /\ seq' = seq + 1
    /\ \/ UNCHANGED ranSteps
       \/ LET a == mine.program.pending
          IN  ranSteps' = [b \in DOMAIN ranSteps \cup {a} |->
                               Times(b) + IF a = b THEN 1 ELSE 0]
    /\ pc' = "stepped"
    /\ UNCHANGED <<results, receipts, saved, taskOpen, mine, todo, at,
                   ranCalls, cut, budget>>

RecordStep ==
    /\ pc = "stepped"
    /\ seq' = seq + 1
    /\ receipts' = receipts \cup {mine.program.pending}
    /\ pc' = "resolve"
    /\ UNCHANGED <<results, saved, taskOpen, mine, todo, at, history, budget>>

Resolve ==
    /\ pc = "resolve"
    /\ mine' = Resolved(mine) /\ saved' = mine'
    /\ pc' = "loop"
    /\ UNCHANGED <<seq, results, receipts, taskOpen, todo, at, history, budget>>

\* A program that failed between steps goes back to its author.
Rewrite ==
    /\ pc = "loop" /\ mine.running /\ mine.program.pending = 0
    /\ seq' = seq + 1
    /\ mine' = [mine EXCEPT !.running = FALSE, !.program = NoProgram]
    /\ saved' = mine'
    /\ UNCHANGED <<results, receipts, taskOpen, pc, todo, at, history, budget>>

-----------------------------------------------------------------------------
(* The end of a run                                                        *)

\* A reply without calls, or the end of the program (its return, or a failure
\* that is not rewritten), ends the main task: the next turn starts clean.
Finish ==
    /\ pc = "loop" /\ mine.program.pending = 0
    /\ seq' = seq + 1
    /\ saved' = Empty /\ taskOpen' = FALSE
    /\ mine' = Empty /\ pc' = "idle"
    /\ ranCalls' = {}
    /\ UNCHANGED <<results, receipts, todo, at, ranSteps, cut, budget>>

Stop ==
    /\ pc # "idle"
    /\ pc' = "idle" /\ mine' = Empty /\ todo' = {} /\ at' = NoCall
    /\ cut' = IF pc = "stepped" THEN cut \cup {mine.program.pending} ELSE cut
    /\ UNCHANGED <<durable, ranCalls, ranSteps, budget>>

Next ==
    \/ Begin \/ Open \/ Keep \/ Execute \/ Record \/ Tell
    \/ \E call \in Unanswered(mine) : Recover(call)
    \/ \E ids \in SUBSET Ids \ {{}} : Reply(ids)
    \/ \E id \in Ids : Call(id)
    \/ Install \/ Consume \/ Dispatch \/ ExecuteStep \/ RecordStep \/ Resolve
    \/ Rewrite \/ Finish \/ Stop

Spec == Init /\ [][Next]_vars

-----------------------------------------------------------------------------
(* Properties                                                              *)

Entries == [kind : {"asks", "tells"}, seq : Nat, ids : SUBSET Ids]
Windows == [talk : Seq(Entries), running : BOOLEAN,
            program : [left : 0..MaxSteps, pending : Nat]]
Labels  == {"idle", "recover", "loop", "replied", "calls", "calling", "called",
            "recorded", "step", "stepped", "resolve"}

TypeOK ==
    /\ seq \in Nat
    /\ results \subseteq [seq : Nat, id : Ids, of : Nat, known : BOOLEAN]
    /\ receipts \in SUBSET (1..actions)
    /\ saved \in Windows /\ mine \in Windows /\ taskOpen \in BOOLEAN
    /\ pc \in Labels
    /\ todo \in SUBSET Ids /\ at \in [asked : Nat, id : Ids \cup {NoId}]
    /\ ranCalls \subseteq [asked : Nat, id : Ids]
    /\ actions \in Nat /\ DOMAIN ranSteps \subseteq 1..actions
    /\ \A a \in DOMAIN ranSteps : ranSteps[a] \in Nat \ {0}
    /\ cut \in SUBSET (1..actions)

\* When the model is asked, every call it made has its answer behind it, and it
\* is the result of that very call, not of an earlier one with the same id.
OwnAnswers ==
    pc = "loop" =>
        /\ Unanswered(mine) = {}
        /\ \A i, j \in DOMAIN mine.talk :
              /\ i < j /\ mine.talk[i].kind = "asks" /\ mine.talk[j].kind = "tells"
              /\ mine.talk[j].ids \subseteq mine.talk[i].ids
              /\ \A k \in i + 1 .. j - 1 : mine.talk[j].ids \cap mine.talk[k].ids = {}
              => \E r \in results :
                    /\ r.seq = mine.talk[j].seq
                    /\ r.of = mine.talk[i].seq /\ {r.id} = mine.talk[j].ids

\* Recovery never adds a second outcome ("unknown") to a call whose result is
\* on record, nor a second one when it is itself cut off and starts over.
OneResult ==
    \A r, s \in results : r.of = s.of /\ r.id = s.id => r = s

\* Whatever a call did, the saved context knows that it was asked for: the
\* message is saved before its first call is made.
EffectsAreKnown ==
    \A call \in ranCalls :
        \E i \in DOMAIN saved.talk :
            saved.talk[i].kind = "asks" /\ saved.talk[i].seq = call.asked
                                        /\ call.id \in saved.talk[i].ids

\* No step of a program disappears: it has its result on record or is still
\* the pending step of the saved context.
StepsAccounted ==
    \A a \in 1..actions : a \in receipts \/ a = saved.program.pending

\* A step is made again only when the worker stopped between its effect and
\* the record of its result.
RecordedStepsOnce == \A a \in DOMAIN ranSteps : Times(a) > 1 => a \in cut
=============================================================================
