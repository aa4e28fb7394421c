------------------------------ MODULE DbWriter ------------------------------
(***************************************************************************)
(* src/db_writer.rs: one thread per database owns the connection that      *)
(* writes and runs the jobs sent to it.  Databases share only the lock of  *)
(* the registry, so this is one database.                                  *)
(*                                                                         *)
(* submit, forget and the decision of an idle writer hold the registry     *)
(* lock from beginning to end and are one action each.  A writer is named  *)
(* by its generation.  A caller that is dropped while it waits only leaves *)
(* its answer unread.  A job that returns Ok has committed; what it does   *)
(* otherwise (an error, a panic, an open transaction) is not known.        *)
(***************************************************************************)
EXTENDS Naturals, Sequences

CONSTANTS
    Callers,         \* each asks for one write
    NoJob,
    MaxGenerations   \* bound: writers ever started

ASSUME DbWriterAssumption == NoJob \notin Callers /\ MaxGenerations \in Nat

None == 0
Generations == 1..MaxGenerations

VARIABLES
    entry,       \* the registry: generation of the registered writer, or None
    generation,  \* of the writer started last
    thread,      \* what each writer's thread is at
    channel,     \* the jobs sent to it
    job,         \* the job in its hands
    open,        \* what has been written in the transaction of its connection
    done,        \* what has been committed, in order
    told         \* "new", "sent", or the answer in the caller's reply channel

vars == <<entry, generation, thread, channel, job, open, done, told>>

Threads == {"none", "opening", "waiting", "idle", "running", "ended",
            "failed", "closing", "gone"}

Init ==
    /\ entry = None /\ generation = 0
    /\ thread = [g \in Generations |-> "none"]
    /\ channel = [g \in Generations |-> <<>>]
    /\ job = [g \in Generations |-> NoJob]
    /\ open = [g \in Generations |-> <<>>]
    /\ done = <<>>
    /\ told = [c \in Callers |-> "new"]

Elements(s) == {s[i] : i \in DOMAIN s}

-----------------------------------------------------------------------------
(* submit *)

\* The receiver of a channel is gone with its thread.
Receives(g) == thread[g] \notin {"none", "gone"}
Registered == entry # None /\ Receives(entry)

Send(c) ==
    /\ told[c] = "new" /\ Registered
    /\ channel' = [channel EXCEPT ![entry] = Append(@, c)]
    /\ told' = [told EXCEPT ![c] = "sent"]
    /\ UNCHANGED <<entry, generation, thread, job, open, done>>

\* No writer, or one that no longer receives: the next generation.
StartWriter(c) ==
    /\ told[c] = "new" /\ ~Registered /\ generation < MaxGenerations
    /\ generation' = generation + 1
    /\ entry' = generation'
    /\ thread' = [thread EXCEPT ![generation'] = "opening"]
    /\ channel' = [channel EXCEPT ![generation'] = <<c>>]
    /\ told' = [told EXCEPT ![c] = "sent"]
    /\ UNCHANGED <<job, open, done>>

\* The system has no thread to give: the job goes with its channel.
CannotStart(c) ==
    /\ told[c] = "new" /\ ~Registered /\ generation < MaxGenerations
    /\ generation' = generation + 1
    /\ told' = [told EXCEPT ![c] = "error"]
    /\ UNCHANGED <<entry, thread, channel, job, open, done>>

-----------------------------------------------------------------------------
(* run *)

At(g, from, to) == thread[g] = from /\ thread' = [thread EXCEPT ![g] = to]

Opened(g) ==
    /\ At(g, "opening", "waiting")
    /\ UNCHANGED <<entry, generation, channel, job, open, done, told>>

NotOpened(g) ==
    /\ At(g, "opening", "failed")
    /\ UNCHANGED <<entry, generation, channel, job, open, done, told>>

Forgotten(g) == IF entry = g THEN None ELSE entry

Forget(g) ==
    /\ At(g, "failed", "closing")
    /\ entry' = Forgotten(g)
    /\ UNCHANGED <<generation, channel, job, open, done, told>>

\* The receiver is dropped, and with it the jobs and their reply channels.
Drop(g) ==
    /\ At(g, "closing", "gone")
    /\ told' = [c \in Callers |->
                  IF c \in Elements(channel[g]) THEN "error" ELSE told[c]]
    /\ channel' = [channel EXCEPT ![g] = <<>>]
    /\ UNCHANGED <<entry, generation, job, open, done>>

TakeOfMany(g) ==
    /\ Len(channel[g]) > 1
    /\ job' = [job EXCEPT ![g] = Head(channel[g])]
    /\ channel' = [channel EXCEPT ![g] = Tail(@)]

TakeFrom(g) ==
    /\ channel[g] # <<>>
    /\ job' = [job EXCEPT ![g] = Head(channel[g])]
    /\ channel' = [channel EXCEPT ![g] = Tail(@)]

Take(g) ==
    /\ At(g, "waiting", "running") /\ TakeFrom(g)
    /\ UNCHANGED <<entry, generation, open, done, told>>

\* recv_timeout: nothing came for a while.
TimesOut(g) ==
    /\ channel[g] = <<>> /\ At(g, "waiting", "idle")
    /\ UNCHANGED <<entry, generation, channel, job, open, done, told>>

\* ... but a job arrived before the lock was taken,
TakeLate(g) ==
    /\ At(g, "idle", "running") /\ TakeFrom(g)
    /\ UNCHANGED <<entry, generation, open, done, told>>

MayLeaveUnseen(g) == TRUE
MayLeave(g) == channel[g] = <<>>

\* ... or none did, and none can any more.
Leave(g) ==
    /\ MayLeave(g) /\ At(g, "idle", "gone")
    /\ entry' = Forgotten(g)
    /\ UNCHANGED <<generation, channel, job, open, done, told>>

\* The job writes, in a transaction.
Write(g) ==
    /\ thread[g] = "running"
    /\ job[g] \notin Elements(done) \cup Elements(open[g])
    /\ open' = [open EXCEPT ![g] = Append(@, job[g])]
    /\ UNCHANGED <<entry, generation, thread, channel, job, done, told>>

Commit(g) ==
    /\ thread[g] = "running" /\ job[g] \in Elements(open[g])
    /\ done' = done \o open[g]
    /\ open' = [open EXCEPT ![g] = <<>>]
    /\ UNCHANGED <<entry, generation, thread, channel, job, told>>

\* A write asked for by the job itself has a connection of its own, on which
\* it waits in vain for the transaction of the job.
Nested(g, c) ==
    /\ thread[g] = "running" /\ told[c] = "new"
    /\ \/ /\ open[g] = <<>>
          /\ done' = Append(done, c)
          /\ told' = [told EXCEPT ![c] = "ok"]
       \/ told' = [told EXCEPT ![c] = "error"] /\ UNCHANGED done
    /\ UNCHANGED <<entry, generation, thread, channel, job, open>>

AnswerEarly(c, answer) == told' = [told EXCEPT ![c] = answer]

Answer(c, answer) ==
    /\ answer = "ok" => c \in Elements(done)
    /\ told' = [told EXCEPT ![c] = answer]

\* The job answers its caller; when it panics its reply channel is dropped.
Return(g, answer) ==
    /\ At(g, "running", "ended")
    /\ Answer(job[g], answer)
    /\ job' = [job EXCEPT ![g] = NoJob]
    /\ UNCHANGED <<entry, generation, channel, open, done>>

\* What the job left open is rolled back.
RolledBackNever(g) == open
RolledBack(g) == [open EXCEPT ![g] = <<>>]

Settle(g) ==
    /\ At(g, "ended", "waiting")
    /\ open' = RolledBack(g)
    /\ UNCHANGED <<entry, generation, channel, job, done, told>>

-----------------------------------------------------------------------------
Submit(c) == Send(c) \/ StartWriter(c) \/ CannotStart(c)

\* The steps of a thread that nobody else has to cause.
Step(g) ==
    \/ Opened(g) \/ NotOpened(g) \/ Forget(g) \/ Drop(g)
    \/ Take(g) \/ TakeLate(g) \/ TimesOut(g) \/ Leave(g) \/ Settle(g)
    \/ \E answer \in {"ok", "error"} : Return(g, answer)

Next ==
    \/ \E c \in Callers : Submit(c)
    \/ \E g \in Generations : Step(g) \/ Write(g) \/ Commit(g)
    \/ \E g \in Generations, c \in Callers : Nested(g, c)

Spec == Init /\ [][Next]_vars

\* Threads run, and jobs end: SQLite calls return or time out.
Fairness == \A g \in Generations : WF_vars(Step(g))
FairSpec == Spec /\ Fairness

-----------------------------------------------------------------------------
TypeOK ==
    /\ entry \in Generations \cup {None}
    /\ generation \in 0..MaxGenerations
    /\ thread \in [Generations -> Threads]
    /\ channel \in [Generations -> Seq(Callers)]
    /\ job \in [Generations -> Callers \cup {NoJob}]
    /\ open \in [Generations -> Seq(Callers)]
    /\ done \in Seq(Callers)
    /\ told \in [Callers -> {"new", "sent", "ok", "error"}]

Serving(g) == thread[g] \in {"opening", "waiting", "idle", "running", "ended"}

(* One writer per database: a new one is started only when the last has    *)
(* left or given up (submit, the Timeout arm of run, forget).              *)
OneWriter ==
    \A g, h \in Generations : Serving(g) /\ Serving(h) => g = h

(* A caller that waits is in the hands or in the channel of a writer that  *)
(* will run or drop its job: no job falls between the idle exit of one     *)
(* writer, or its failure to open the database, and the start of the next. *)
NothingStranded ==
    \A c \in Callers : told[c] = "sent" =>
        \E g \in Generations :
            \/ Receives(g) /\ c \in Elements(channel[g])
            \/ thread[g] = "running" /\ c = job[g]

(* What a failed or panicking job leaves behind is nobody else's: a        *)
(* transaction holds the writes of the job in hand only.                   *)
OwnTransaction ==
    \A g \in Generations :
        thread[g] = "running" => Elements(open[g]) \subseteq {job[g]}

(* Every caller gets its result or an error, whatever fails meanwhile.     *)
Answered == \A c \in Callers : told[c] = "sent" ~> told[c] \in {"ok", "error"}

\* The writes in line: the one in hand until it is committed, and the channel
\* of the writer that serves.
InHand(g) ==
    IF job[g] = NoJob \/ job[g] \in Elements(done) THEN <<>> ELSE <<job[g]>>
Line ==
    IF \E g \in Generations : Serving(g)
    THEN LET g == CHOOSE g \in Generations : Serving(g)
         IN  InHand(g) \o channel[g]
    ELSE <<>>

Queue == INSTANCE WriteQueue WITH line <- Line

(* What callers see is a queue that applies every write whole, at most     *)
(* once and in the order of arrival, confirms only what is applied, and    *)
(* applies nothing after it reported an error.                             *)
Implements == Queue!Spec
=============================================================================
