--------------------------- MODULE ProjectProcess ---------------------------
(***************************************************************************)
(* src/project_process.rs: the npm scripts that the host starts for tools, *)
(* and who may end them.  One project and one script: requests for other   *)
(* scripts share only the limits and the registry.                         *)
(*                                                                         *)
(* Every process has a supervisor that waits for it to exit or for a stop; *)
(* requests launch, probe, query and stop processes and may themselves be  *)
(* cancelled, or dropped at any point where they wait.  launch holds the   *)
(* registry lock from the search for a running process to the registration *)
(* of the new one.  What a probe finds out about a listener is not known,  *)
(* and what a process prints is counted.                                   *)
(***************************************************************************)
EXTENDS Naturals, FiniteSets

CONSTANTS
    Requests,      \* each made once
    NoOne,
    MaxProcesses,  \* bound: processes ever started
    MaxRunning,    \* sixteen in the code
    MaxRecords,    \* records kept in the registry
    MaxChunks      \* bound: chunks printed and not yet read

Supervisor == "supervisor"

ASSUME ProjectProcessAssumption ==
    /\ NoOne \notin Requests \cup {Supervisor} /\ Supervisor \notin Requests
    /\ MaxProcesses \in Nat /\ MaxRunning \in Nat
    /\ MaxRecords \in Nat /\ MaxChunks \in Nat

Processes == 1..MaxProcesses
Nothing   == 0

VARIABLES
    started,     \* processes started so far
    registered,  \* REGISTRY
    os,          \* the process itself
    supervisor,  \* where supervise is
    running, ready,  \* of Meta
    stop,        \* the first reason in the stop channel
    reason,      \* termination_reason
    file,        \* what the metadata file says, or "unsure"
    writer, copy,    \* holder of persist_guard and the state it writes
    stray,       \* dropped requests that may yet write to a file
    unread,      \* chunks printed and not yet in the log
    req,         \* the requests
    kept         \* history: processes a background launch left to the host

child   == <<os, supervisor, stop, reason>>
meta    == <<running, ready>>
disk    == <<file, writer, copy, stray>>
vars    == <<started, registered, child, meta, disk, unread, req, kept>>

NewRequest == [kind |-> "none", pc |-> "new", p |-> Nothing, lease |-> FALSE,
               probed |-> FALSE, reused |-> FALSE]

Init ==
    /\ started = 0 /\ registered = {}
    /\ os = [p \in Processes |-> "none"]
    /\ supervisor = [p \in Processes |-> "none"]
    /\ running = {} /\ ready = {}
    /\ stop = [p \in Processes |-> "none"]
    /\ reason = [p \in Processes |-> "none"]
    /\ file = [p \in Processes |-> "absent"]
    /\ writer = [p \in Processes |-> NoOne]
    /\ copy = [p \in Processes |-> "absent"]
    /\ stray = {}
    /\ unread = [p \in Processes |-> 0]
    /\ req = [r \in Requests |-> NewRequest]
    /\ kept = {}

At(r, from) == req[r].pc = from
Go(r, to)   == req' = [req EXCEPT ![r].pc = to]

\* A request that is over, with its answer or without.
Over(r) ==
    req' = [req EXCEPT ![r] = [@ EXCEPT !.pc = "over", !.lease = FALSE,
                                        !.probed = FALSE]]

\* The receiver takes one reason; whatever comes after it is never read.
Sent(p, why) ==
    IF stop[p] = "none" /\ supervisor[p] = "watch"
    THEN [stop EXCEPT ![p] = why] ELSE stop

-----------------------------------------------------------------------------
(* launch *)

Reusable == {p \in registered : p \in running}

\* A background launch of what already runs only probes it again.
Reuse(r, p) ==
    /\ At(r, "new") /\ p \in Reusable
    /\ req' = [req EXCEPT ![r] = [@ EXCEPT !.kind = "background", !.pc = "probe",
                                           !.p = p, !.reused = TRUE]]
    /\ ready' = ready \ {p} \/ UNCHANGED ready
    /\ UNCHANGED <<started, registered, child, running, disk, unread, kept>>

\* The oldest record that is not running makes room.
Evicted ==
    IF Cardinality(registered) < MaxRecords \/ registered \subseteq running THEN {}
    ELSE {p \in registered \ running : \A q \in registered \ running : p <= q}

MayStart(kind) == kind = "background" => Reusable = {}

LeaseNone == FALSE
Lease     == TRUE

Launch(r, kind) ==
    LET p == started + 1 IN
    /\ At(r, "new") /\ started < MaxProcesses
    /\ MayStart(kind)
    /\ Cardinality(registered \cap running) < MaxRunning
    /\ started' = p
    /\ registered' = (registered \ Evicted) \cup {p}
    /\ os' = [os EXCEPT ![p] = "alive"]
    /\ supervisor' = [supervisor EXCEPT ![p] = "watch"]
    /\ running' = running \cup {p}
    /\ req' = [req EXCEPT ![r] = [@ EXCEPT !.kind = kind, !.pc = "persist",
                                           !.p = p, !.lease = Lease]]
    /\ UNCHANGED <<stop, reason, ready, disk, unread, kept>>

\* persist: the state is read under the guard, and written under it.
StateBefore(p) ==
    IF supervisor[p] \in {"watch", "drain", "marked"} THEN "running" ELSE "ended"
State(p) == IF p \in running THEN "running" ELSE "ended"

GuardIgnored(p) == TRUE
GuardFree(p)    == writer[p] = NoOne

Begin(p, who) ==
    /\ GuardFree(p)
    /\ writer' = [writer EXCEPT ![p] = who]
    /\ copy' = [copy EXCEPT ![p] = State(p)]
    /\ UNCHANGED <<file, stray>>

\* A write that fails, which is only logged, leaves the file as it was or torn,
\* and a stray one may come over another: what the file says is then "unsure".
End(p, who) ==
    /\ writer[p] = who
    /\ writer' = [writer EXCEPT ![p] = NoOne]
    /\ copy' = [copy EXCEPT ![p] = "absent"]
    /\ \E says \in {copy[p], "unsure"} : file' = [file EXCEPT ![p] = says]
    /\ UNCHANGED stray

Persist(r) ==
    /\ At(r, "persist") /\ Begin(req[r].p, r) /\ Go(r, "write")
    /\ UNCHANGED <<started, registered, child, meta, unread, kept>>

Disarmed(r) == req[r].kind = "background" /\ req[r].probed

\* A background launch that comes this far leaves its process to the host.
Persisted(r) ==
    LET this == req[r]
        next == IF this.kind = "foreground" THEN "wait"
                ELSE IF this.probed THEN "snapshot" ELSE "probe"
    IN  /\ At(r, "write") /\ End(this.p, r)
        /\ req' = [req EXCEPT ![r] = [@ EXCEPT !.pc = next,
                                        !.lease = this.lease /\ ~Disarmed(r)]]
        /\ kept' = IF this.kind = "background" /\ this.probed /\ ~this.reused
                   THEN kept \cup {this.p} ELSE kept
        /\ UNCHANGED <<started, registered, child, meta, unread>>

-----------------------------------------------------------------------------
(* probe: look, then write down what was seen; again until the deadline *)

Probe(r) ==
    /\ At(r, "probe")
    /\ IF req[r].p \in running THEN Go(r, "probing")
       ELSE req' = [req EXCEPT ![r].pc = "persist", ![r].probed = TRUE]
    /\ UNCHANGED <<started, registered, child, meta, disk, unread, kept>>

ReadyAsSeen(p, seen) == seen
Ready(p, seen) == seen /\ p \in running

Probed(r) ==
    LET p == req[r].p IN
    /\ At(r, "probing")
    /\ \E seen, deadline \in BOOLEAN :
          /\ ready' = IF Ready(p, seen) THEN ready \cup {p} ELSE ready \ {p}
          /\ IF seen \/ deadline
             THEN req' = [req EXCEPT ![r].pc = "persist", ![r].probed = TRUE]
             ELSE Go(r, "probe")
    /\ UNCHANGED <<started, registered, child, running, disk, unread, kept>>

-----------------------------------------------------------------------------
(* The end of a request *)

\* The deadline of a foreground launch, or a cancel that a launch waits for.
Interrupt(r, why) ==
    /\ \/ At(r, "wait")
       \/ /\ req[r].pc \in {"probe", "probing"} /\ req[r].lease
          /\ why = "request_cancelled"
    /\ stop' = Sent(req[r].p, why)
    /\ Go(r, "stopping")
    /\ UNCHANGED <<started, registered, os, supervisor, reason, meta, disk,
                   unread, kept>>

\* The process ended, or ten seconds passed; a background launch has failed.
Waited(r) ==
    /\ At(r, "stopping") \/ (At(r, "wait") /\ req[r].p \notin running)
    /\ IF req[r].kind = "background"
       THEN Over(r)
       ELSE Go(r, "snapshot")
    /\ UNCHANGED <<started, registered, child, meta, disk, unread, kept>>

\* The future of the request is dropped where it waits: its lease goes, but a
\* write that is on its way to the file is not called back.
Dropped(r) ==
    LET p == req[r].p IN
    /\ req[r].pc \notin {"new", "over"}
    /\ Over(r)
    /\ stop' = IF req[r].lease THEN Sent(p, "request_cancelled") ELSE stop
    /\ IF At(r, "write")
       THEN /\ stray' = stray \cup {r}
            /\ writer' = [writer EXCEPT ![p] = NoOne]
            /\ copy' = [copy EXCEPT ![p] = "absent"]
       ELSE UNCHANGED <<stray, writer, copy>>
    /\ UNCHANGED <<started, registered, os, supervisor, reason, meta, file,
                   unread, kept>>

StrayWrite(r) ==
    /\ r \in stray
    /\ stray' = stray \ {r}
    /\ file' = [file EXCEPT ![req[r].p] = "unsure"]
    /\ UNCHANGED <<started, registered, child, meta, writer, copy, unread, req,
                   kept>>

\* snapshot reads the state and the log and changes neither.
Snapshot(r) ==
    /\ At(r, "snapshot") /\ Over(r)
    /\ UNCHANGED <<started, registered, child, meta, disk, unread, kept>>

-----------------------------------------------------------------------------
(* get_project_process and stop_project_process *)

Query(r, p) ==
    /\ At(r, "new") /\ p \in registered
    /\ req' = [req EXCEPT ![r] = [@ EXCEPT !.kind = "query", !.pc = "probe",
                                           !.p = p]]
    /\ ready' = ready \ {p} \/ UNCHANGED ready
    /\ UNCHANGED <<started, registered, child, running, disk, unread, kept>>

Stop(r, p) ==
    /\ At(r, "new") /\ p \in registered
    /\ req' = [req EXCEPT ![r] = [@ EXCEPT !.kind = "stop", !.p = p,
                    !.pc = IF p \in running THEN "stopping" ELSE "snapshot"]]
    /\ stop' = IF p \in running THEN Sent(p, "requested_stop") ELSE stop
    /\ UNCHANGED <<started, registered, os, supervisor, reason, meta, disk,
                   unread, kept>>

-----------------------------------------------------------------------------
(* The process and supervise *)

Output(p) ==
    /\ os[p] = "alive" /\ unread[p] < MaxChunks
    /\ unread' = [unread EXCEPT ![p] = @ + 1]
    /\ UNCHANGED <<started, registered, child, meta, disk, req, kept>>

\* pump
Push(p) ==
    /\ unread[p] > 0
    /\ unread' = [unread EXCEPT ![p] = @ - 1]
    /\ UNCHANGED <<started, registered, child, meta, disk, req, kept>>

Exit(p) ==
    /\ os[p] = "alive"
    /\ os' = [os EXCEPT ![p] = "dead"]
    /\ UNCHANGED <<started, registered, supervisor, stop, reason, meta, disk,
                   unread, req, kept>>

\* child.wait or stop.recv, whichever is first; the group is closed with it.
Exited(p) ==
    /\ supervisor[p] = "watch" /\ os[p] = "dead"
    /\ supervisor' = [supervisor EXCEPT ![p] = "drain"]
    /\ stop' = [stop EXCEPT ![p] = "none"]
    /\ UNCHANGED <<started, registered, os, reason, meta, disk, unread, req,
                   kept>>

Terminate(p) ==
    /\ supervisor[p] = "watch" /\ stop[p] # "none"
    /\ os' = [os EXCEPT ![p] = "dead"]
    /\ supervisor' = [supervisor EXCEPT ![p] = "drain"]
    /\ reason' = [reason EXCEPT ![p] = stop[p]]
    /\ stop' = [stop EXCEPT ![p] = "none"]
    /\ UNCHANGED <<started, registered, meta, disk, unread, req, kept>>

Drained(p) == unread[p] = 0

MarkEnded(p) ==
    /\ supervisor[p] = "drain" /\ Drained(p)
    /\ supervisor' = [supervisor EXCEPT ![p] = "marked"]
    /\ running' = running \ {p} /\ ready' = ready \ {p}
    /\ UNCHANGED <<started, registered, os, stop, reason, disk, unread, req,
                   kept>>

PersistEnd(p) ==
    /\ supervisor[p] = "marked" /\ Begin(p, Supervisor)
    /\ supervisor' = [supervisor EXCEPT ![p] = "writing"]
    /\ UNCHANGED <<started, registered, os, stop, reason, meta, unread, req,
                   kept>>

Leave(p) ==
    /\ supervisor[p] = "writing" /\ End(p, Supervisor)
    /\ supervisor' = [supervisor EXCEPT ![p] = "gone"]
    /\ UNCHANGED <<started, registered, os, stop, reason, meta, unread, req,
                   kept>>
-----------------------------------------------------------------------------
Proceed(r) ==
    \/ Persist(r) \/ Persisted(r) \/ Probe(r) \/ Probed(r)
    \/ Interrupt(r, "timeout") \/ Waited(r) \/ Snapshot(r)

Supervise(p) ==
    \/ Exited(p) \/ Terminate(p)
    \/ MarkEnded(p) \/ PersistEnd(p) \/ Leave(p)

Ask(r) ==
    \/ \E kind \in {"foreground", "background"} : Launch(r, kind)
    \/ \E p \in Processes :
          Reuse(r, p) \/ Query(r, p) \/ Stop(r, p)

Next ==
    \/ \E r \in Requests :
          Ask(r) \/ Proceed(r) \/ Dropped(r) \/ Interrupt(r, "request_cancelled")
            \/ StrayWrite(r)
    \/ \E p \in Processes : 
          Supervise(p) \/ Output(p) \/ Push(p) \/ Exit(p)

Spec == Init /\ [][Next]_vars

\* The runtime runs supervisors and requests; time passes.
Fairness ==
    /\ \A p \in Processes : WF_vars(Supervise(p))
    /\ \A r \in Requests : WF_vars(Proceed(r))
FairSpec == Spec /\ Fairness

-----------------------------------------------------------------------------
Kinds == {"none", "foreground", "background", "query", "stop"}
Reasons == {"none", "request_cancelled", "timeout", "requested_stop"}

TypeOK ==
    /\ started \in 0..MaxProcesses /\ registered \subseteq 1..started
    /\ os \in [Processes -> {"none", "alive", "dead"}]
    /\ supervisor \in [Processes ->
          {"none", "watch", "drain", "marked", "writing", "gone"}]
    /\ running \subseteq Processes /\ ready \subseteq Processes
    /\ stop \in [Processes -> Reasons] /\ reason \in [Processes -> Reasons]
    /\ file \in [Processes -> {"absent", "running", "ended", "unsure"}]
    /\ writer \in [Processes -> Requests \cup {NoOne, Supervisor}]
    /\ copy \in [Processes -> {"absent", "running", "ended"}]
    /\ stray \subseteq Requests
    /\ unread \in [Processes -> 0..MaxChunks]
    /\ req \in [Requests ->
          [kind : Kinds, p : 0..MaxProcesses, lease : BOOLEAN, probed : BOOLEAN,
           pc : {"new", "persist", "write", "probe", "probing", "wait",
                 "stopping", "snapshot", "over"},
           reused : BOOLEAN]]
    /\ kept \subseteq Processes
    /\ \A p \in Processes : writer[p] = Supervisor <=> supervisor[p] = "writing"
    /\ \A r \in Requests : At(r, "write") => writer[req[r].p] = r

(* A process is ready only while it runs: what a probe saw of a listener   *)
(* before the process ended is not written down after it.                  *)
ReadyRuns == ready \subseteq running

(* However many requests launch the script in the background, it runs once *)
(* at a time because of them.                                              *)
OneInBackground ==
    \A p, q \in running :
        p < q => ~\E r \in Requests :
                    /\ req[r].p = q
                    /\ req[r].kind = "background" /\ ~req[r].reused

(* A process that lives is in the registry, where a request can stop it:   *)
(* records make room for others only when they are over.                   *)
AliveIsReachable == \A p \in Processes : os[p] = "alive" => p \in registered

(* Once a supervisor is done, the file tells that the process ended, also  *)
(* if requests were writing it meanwhile.  The exceptions are the files    *)
(* whose last write failed, of which the host only logs a warning, or was  *)
(* one whose request had been dropped under it.                            *)
FileTellsEnd ==
    \A p \in Processes :
        supervisor[p] = "gone" => file[p] \in {"ended", "unsure"}

(* A process that a background launch left to the host ends by itself or   *)
(* by a request to stop it, never with the request that launched it.       *)
HostKeeps == \A p \in kept : reason[p] \in {"none", "requested_stop"}

InLaunch(p) ==
    \E r \in Requests : req[r].p = p /\ req[r].kind = "background" /\ req[r].lease

(* No process outlives the request it belongs to: it ends, or a background *)
(* launch came to its end and left it to the host.                         *)
NobodysProcessEnds ==
    \A p \in Processes :
        os[p] = "alive" /\ ~InLaunch(p) ~> os[p] = "dead" \/ p \in kept
=============================================================================
