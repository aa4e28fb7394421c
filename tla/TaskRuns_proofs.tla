--------------------------- MODULE TaskRuns_proofs ---------------------------
(***************************************************************************)
(* Proofs about TaskRuns for any number of requests, turns, interjections, *)
(* faults and crashes: its invariants, and that it implements Conversation.*)
(***************************************************************************)
EXTENDS TaskRewind, FiniteSetTheorems, TLAPS

-----------------------------------------------------------------------------
(* Ownership of the conversation                                           *)

\* While the process is down nothing of it is in flight.
DownIsQuiet ==
    host = "down" => \A h \in Requests : pc[h] \in {"idle", "dead"}

ControlType ==
    /\ pc \in [Requests -> Labels]
    /\ outcome \in [Requests -> Terminal \cup {"none"}]
    /\ \A h \in Requests : pc[h] \in {"ending", "end", "finish"} => outcome[h] \in Terminal

\* The inductive invariant behind OneRun.  HoldingIsRunning carries it: a new
\* run needs a status other than 'running', so nobody holds the conversation
\* when it is accepted.
Ownership ==
    /\ ControlType
    /\ DownIsQuiet
    /\ OneRun
    /\ HoldingIsRunning
    /\ Cancellable

USE DEF Holding, Registered, WorkerSteps, SupervisorSteps, Labels, Accepting,
        Resting, Orphaned, Seen, AcceptedIds, Occupied, Cancelled, Released,
        Marked, Waiting

LEMMA OwnershipInit == Init => Ownership
  BY NamesAssumption DEF Init, Ownership, ControlType, DownIsQuiet, OneRun,
     HoldingIsRunning, Cancellable

LEMMA OwnershipStep == Ownership /\ [Next]_vars => Ownership'
  <1> SUFFICES ASSUME Ownership, [Next]_vars PROVE Ownership'
    OBVIOUS
  <1> USE DEF Ownership, ControlType, DownIsQuiet, OneRun, HoldingIsRunning,
              Cancellable
  <1>1. CASE UNCHANGED vars
    BY <1>1 DEF vars, stored, memory, run
  <1>2. CASE CreateDraft
    BY <1>2 DEF CreateDraft, memory, run
  <1>3. CASE Cancel
    BY <1>3 DEF Cancel, stored, run
  <1>4. CASE Interject
    BY <1>4 DEF Interject, memory, run
  <1>5. CASE Stop
    BY <1>5 DEF Stop, stored, run
  <1>6. CASE Crash
    BY <1>6 DEF Crash, stored
  <1>7. CASE Recover
    BY <1>7 DEF Recover, run
  <1>8. ASSUME NEW h \in Requests, Create(h) PROVE Ownership'
    BY <1>8 DEF Create, Serving, Go, memory
  <1>9. ASSUME NEW h \in Requests, NEW id \in RequestIds \cup {NoId},
               Continue(h, id)
        PROVE  Ownership'
    BY <1>9 DEF Continue, Serving, Terminal, Go, memory
  <1>10. ASSUME NEW h \in Requests, Abandon(h) PROVE Ownership'
    BY <1>10 DEF Abandon, Go, stored, memory
  <1>11. ASSUME NEW h \in Requests, Register(h) PROVE Ownership'
    BY <1>11 DEF Register, Go, stored
  <1>12. ASSUME NEW h \in Requests, Snapshot(h) PROVE Ownership'
    BY <1>12 DEF Snapshot, Go, memory
  <1>13. ASSUME NEW h \in Requests, Reset(h) PROVE Ownership'
    BY <1>13 DEF Reset, Go, memory
  <1>14. ASSUME NEW h \in Requests, Start(h) PROVE Ownership'
    BY <1>14 DEF Start, Go, memory
  <1>15. ASSUME NEW h \in Requests, Message(h) PROVE Ownership'
    BY <1>15 DEF Message, Go, memory
  <1>16. ASSUME NEW h \in Requests, Save(h) PROVE Ownership'
    BY <1>16 DEF Save, Go, memory
  <1>17. ASSUME NEW h \in Requests, Open(h) PROVE Ownership'
    BY <1>17 DEF Open, Go, memory
  <1>18. ASSUME NEW h \in Requests, Round(h) PROVE Ownership'
    BY <1>18 DEF Round, Go, memory, Terminal
  <1>19. ASSUME NEW h \in Requests, Answer(h) PROVE Ownership'
    BY <1>19 DEF Answer, Go, memory, Terminal
  <1>20. ASSUME NEW h \in Requests, GiveUp(h) PROVE Ownership'
    BY <1>20, BoundsAssumption DEF GiveUp, Go, stored, memory, Terminal
  <1>21. ASSUME NEW h \in Requests, Settle(h) PROVE Ownership'
    BY <1>21 DEF Settle, Go, stored, memory, Terminal
  <1>22. ASSUME NEW h \in Requests, EndTurn(h) PROVE Ownership'
    BY <1>22 DEF EndTurn, Go, memory
  <1>23. ASSUME NEW h \in Requests, Finish(h) PROVE Ownership'
    BY <1>23 DEF Finish, Go, memory
  <1>24. ASSUME NEW h \in Requests, WorkerFails(h) PROVE Ownership'
    BY <1>24 DEF WorkerFails, Go, stored, memory
  <1>25. ASSUME NEW h \in Requests, RecordFailure(h) PROVE Ownership'
    BY <1>25 DEF RecordFailure, Go, memory
  <1>26. ASSUME NEW h \in Requests, FinishFailed(h) PROVE Ownership'
    BY <1>26 DEF FinishFailed, Go, memory
  <1>27. ASSUME NEW h \in Requests, Cleanup(h) PROVE Ownership'
    BY <1>27 DEF Cleanup, Go, memory
  <1>28. ASSUME NEW h \in Requests, Clear(h) PROVE Ownership'
    BY <1>28 DEF Clear, Go, stored
  <1> QED
    BY <1>1, <1>2, <1>3, <1>4, <1>5, <1>6, <1>7, <1>8, <1>9, <1>10, <1>11,
       <1>12, <1>13, <1>14, <1>15, <1>16, <1>17, <1>18, <1>19, <1>20, <1>21,
       <1>22, <1>23, <1>24, <1>25, <1>26, <1>27, <1>28
    DEF Next, Handler, Proceed

\* The runs of a conversation never overlap, its status stays 'running' under
\* them, and cancel_task reaches them, whatever crashes, faults, cancellations
\* and late supervisors do.
THEOREM OwnershipInvariant == Spec => []Ownership
  BY OwnershipInit, OwnershipStep, PTL DEF Spec

THEOREM RunsAreExclusive == Spec => [](OneRun /\ HoldingIsRunning)
  <1>1. Ownership => OneRun /\ HoldingIsRunning
    BY DEF Ownership
  <1> QED
    BY <1>1, OwnershipInvariant, PTL

-----------------------------------------------------------------------------
(* Streamed text                                                           *)

\* Nobody but a cleanup at rest takes delta rows: cleanup_terminal_task_data
\* sees a terminal status, recovery a process without runs.
THEOREM DeltaRowsKept == Spec => DeltasKept
  <1> DEFINE Stay == deltas \subseteq deltas'
                       \/ \A h \in Requests : pc[h] \notin Holding
  <1>1. Ownership /\ [Next]_vars => [Stay]_vars
    <2> SUFFICES ASSUME Ownership, Next PROVE Stay
      OBVIOUS
    <2>1. ASSUME NEW h \in Requests, Cleanup(h) PROVE Stay
      BY <2>1 DEF Cleanup, Ownership, HoldingIsRunning, Terminal
    <2>2. CASE Recover
      BY <2>2 DEF Recover, Ownership, DownIsQuiet
    <2>3. ASSUME NEW h \in Requests, Round(h) PROVE Stay
      BY <2>3 DEF Round
    <2>4. CASE deltas' = deltas
      BY <2>4
    <2> QED
      BY <2>1, <2>2, <2>3, <2>4
      DEF Next, Handler, Proceed, stored, CreateDraft, Cancel, Interject, Stop,
          Crash, Create, Continue, Abandon, Register, Snapshot, Reset, Start,
          Message, Save, Open, Answer, GiveUp, Settle, EndTurn, Finish,
          WorkerFails, RecordFailure, FinishFailed, Clear
  <1>2. DeltasKept <=> [][Stay]_vars
    BY DEF DeltasKept
  <1> QED
    BY <1>1, <1>2, OwnershipInvariant, PTL DEF Spec

-----------------------------------------------------------------------------
(* Idempotency of requestId                                                *)

\* Whoever was accepted under a requestId left a row of agent_attachment_messages
\* that refuses the next one.
IdsOnRecord ==
    /\ \A h \in Requests : pc[h] = "idle" => requestId[h] = NoId
    /\ \A h \in Requests : requestId[h] # NoId =>
           \E a \in admitted : a.id = requestId[h]
    /\ requestId \in [Requests -> RequestIds \cup {NoId}]
    /\ pc \in [Requests -> Labels]
    /\ RequestStartsOnce

LEMMA IdsOnRecordStep == IdsOnRecord /\ [Next]_vars => IdsOnRecord'
  <1> SUFFICES ASSUME IdsOnRecord, [Next]_vars PROVE IdsOnRecord'
    OBVIOUS
  <1> USE DEF IdsOnRecord, RequestStartsOnce
  <1> DEFINE Same == requestId' = requestId /\ admitted' = admitted
  <1>1. ASSUME NEW h \in Requests, NEW id \in RequestIds \cup {NoId},
               Continue(h, id)
        PROVE  IdsOnRecord'
    <2>1. /\ requestId' = [requestId EXCEPT ![h] = id]
          /\ admitted' = admitted \cup {[turn |-> NextTurn, id |-> id]}
          /\ pc' = [pc EXCEPT ![h] = "accepted"]
          /\ \A a \in admitted : a.id = id => id = NoId
      BY <1>1 DEF Continue, Go
    <2>2. \A g \in Requests : g # h /\ requestId[g] # NoId => requestId[g] # id
      BY <2>1
    <2>3. \A g \in Requests : requestId'[g] # NoId =>
             \E a \in admitted' : a.id = requestId'[g]
      <3>1. ASSUME NEW g \in Requests, requestId'[g] # NoId, g # h
            PROVE  \E a \in admitted' : a.id = requestId'[g]
        <4>1. PICK a \in admitted : a.id = requestId[g]
          BY <2>1, <3>1
        <4> QED
          BY <2>1, <3>1, <4>1
      <3>2. requestId'[h] = id
        BY <2>1
      <3>3. \E a \in admitted' : a.id = id
        <4> DEFINE new == [turn |-> NextTurn, id |-> id]
        <4>1. new \in admitted' /\ new.id = id
          BY <2>1
        <4> QED
          BY <4>1
      <3> QED
        BY <3>1, <3>2, <3>3
    <2>4. /\ requestId' \in [Requests -> RequestIds \cup {NoId}]
          /\ pc' \in [Requests -> Labels]
          /\ \A g \in Requests : pc'[g] = "idle" => requestId'[g] = NoId
      BY <2>1
    <2>5. RequestStartsOnce'
      BY <2>1, <2>2
    <2> QED
      BY <2>3, <2>4, <2>5
  <1>2. ASSUME Same, pc' = pc PROVE IdsOnRecord'
    BY <1>2
  <1>3. ASSUME Same, NEW h \in Requests, NEW l \in Labels \ {"idle"}, Go(h, l)
        PROVE  IdsOnRecord'
    BY <1>3 DEF Go
  <1>4. CASE Crash
    BY <1>4 DEF Crash, stored
  <1>5. ASSUME NEW h \in Requests, Create(h) \/ Abandon(h) \/ Proceed(h)
        PROVE  IdsOnRecord'
    <2>1. Same
      BY <1>5 DEF Create, Abandon, Proceed, Register, Snapshot, Reset, Start,
         Message, Save, Open, Settle, EndTurn, Finish, RecordFailure,
         FinishFailed, Cleanup, Clear, stored
    <2>2. \E l \in Labels \ {"idle"} : Go(h, l)
      BY <1>5 DEF Create, Abandon, Proceed, Register, Snapshot, Reset, Start,
         Message, Save, Open, Settle, EndTurn, Finish, RecordFailure,
         FinishFailed, Cleanup, Clear
    <2> QED
      BY <2>1, <2>2, <1>3
  <1>6. ASSUME NEW h \in Requests, Round(h) \/ Answer(h) \/ GiveUp(h) \/ WorkerFails(h)
        PROVE  IdsOnRecord'
    <2>1. Same
      BY <1>6 DEF Round, Answer, GiveUp, WorkerFails, stored
    <2>2. pc' = pc \/ \E l \in Labels \ {"idle"} : Go(h, l)
      BY <1>6 DEF Round, Answer, GiveUp, WorkerFails
    <2> QED
      BY <2>1, <2>2, <1>2, <1>3
  <1>7. CASE CreateDraft \/ Cancel \/ Interject \/ Stop \/ Recover \/ UNCHANGED vars
    BY <1>7 DEF CreateDraft, Cancel, Interject, Stop, Recover, vars, stored, run
  <1> QED
    BY <1>1, <1>4, <1>5, <1>6, <1>7 DEF Next, Handler

\* A retried requestId never starts a second turn, through crashes and faults.
THEOREM RetriesStartOnce == Spec => []RequestStartsOnce
  <1>1. Init => IdsOnRecord
    BY NamesAssumption DEF Init, IdsOnRecord, RequestStartsOnce
  <1>2. IdsOnRecord => RequestStartsOnce
    BY DEF IdsOnRecord
  <1> QED
    BY <1>1, <1>2, IdsOnRecordStep, PTL DEF Spec

-----------------------------------------------------------------------------
(* Types                                                                   *)

\* What the types rest on: sequence numbers stay below the high-water mark (so
\* a newest event exists), interjections are finitely many (so they can be
\* numbered) and whoever has left "idle" has a turn.
TypeInv ==
    /\ TypeOK
    /\ \A e \in events : e.seq <= highWater
    /\ IsFiniteSet(interjections)
    /\ \A h \in Requests : pc[h] \notin {"idle", "dead"} => turn[h] \in Turns
    /\ \A h \in Requests : pc[h] \in {"ending", "end", "finish"} => outcome[h] \in Terminal

\* A non-empty set of events has a newest one.
LEMMA NewestExists ==
    ASSUME NEW E, E # {}, highWater \in Nat,
           \A e \in E : e.seq \in Nat /\ e.seq <= highWater
    PROVE  Newest(E) \in E
  <1> DEFINE Depths == {highWater - e.seq : e \in E}
  <1>1. Depths \subseteq Nat /\ Depths # {}
    OBVIOUS
  <1>2. PICK n \in Depths : \A m \in Depths : n <= m
    <2>1. PICK n \in Depths : \A m \in Depths : <<m, n>> \notin OpToRel(<, Nat)
      BY <1>1, NatLessThanWellFounded, WFMin, Zenon
    <2>2. \A i, j \in Nat : i < j => <<i, j>> \in OpToRel(<, Nat)
      BY DEF OpToRel
    <2>3. \A i, j \in Nat : ~ (i < j) => j <= i
      OBVIOUS
    <2> QED
      BY <1>1, <2>1, <2>2, <2>3
  <1>3. PICK e \in E : n = highWater - e.seq
    BY <1>2
  <1>4. ASSUME NEW f \in E PROVE f.seq <= e.seq
    <2>1. n <= highWater - f.seq
      BY <1>2
    <2> QED
      BY <2>1, <1>3
  <1> QED
    BY <1>4 DEF Newest

LEMMA LastStartedType == TypeInv => LastStarted \in 0..MaxTurn
  <1> SUFFICES ASSUME TypeInv PROVE LastStarted \in 0..MaxTurn
    OBVIOUS
  <1>1. ASSUME Of("turn/start") # {} PROVE Newest(Of("turn/start")) \in events
    BY <1>1, NewestExists DEF Of, EventType, TypeInv, TypeOK
  <1> QED
    BY <1>1, BoundsAssumption DEF LastStarted, EventType, TypeInv, TypeOK

\* Appending one event keeps the event table typed and bounded.
LEMMA AppendType ==
    ASSUME TypeInv, NEW kind \in Kinds, NEW t \in 0..MaxTurn,
           NEW reason \in Terminal \cup {"none"}, Append(kind, t, reason)
    PROVE  /\ highWater' \in Nat
           /\ events' \subseteq EventType
           /\ \A e \in events' : e.seq <= highWater'
  BY DEF Append, Event, EventType, TypeInv, TypeOK

\* Delivery numbers its events highWater + 1 .. highWater + |waiting|.
LEMMA DeliverType ==
    ASSUME TypeInv, NEW h \in Requests, Deliver(h)
    PROVE  /\ highWater' \in Nat
           /\ events' \subseteq EventType
           /\ \A e \in events' : e.seq <= highWater'
           /\ interjections' \subseteq [seq : Nat, delivered : BOOLEAN]
           /\ IsFiniteSet(interjections')
           /\ window' \in SUBSET Nat
           /\ mine' \in [Requests -> SUBSET Nat]
  <1> DEFINE waiting == {i.seq : i \in Pending}
             Place(s) == Cardinality({r \in waiting : r <= s})
  <1>1. waiting \in SUBSET Nat
    BY DEF TypeInv, TypeOK, Pending
  <1>2. IsFiniteSet(waiting)
    <2>1. IsFiniteSet(Pending)
      BY FS_Subset DEF TypeInv, Pending
    <2>2. [i \in Pending |-> i.seq] \in Surjection(Pending, waiting)
      BY DEF Surjection
    <2> QED
      BY <2>1, <2>2, FS_Surjection
  <1>3. /\ Cardinality(waiting) \in Nat
        /\ \A s \in waiting : Place(s) \in Nat /\ Place(s) <= Cardinality(waiting)
    BY <1>2, FS_Subset, FS_CardinalityType
  <1>4. highWater' \in Nat /\ highWater <= highWater'
    BY <1>3 DEF Deliver, TypeInv, TypeOK
  <1>5. ASSUME NEW e \in events'
        PROVE  e \in EventType /\ e.seq <= highWater'
    <2>1. CASE e \in events
      BY <2>1, <1>4 DEF EventType, TypeInv, TypeOK
    <2>2. ASSUME NEW s \in waiting,
                 e = Event(Place(s), "user/interjection_delivered", 0, "none", s)
          PROVE  e \in EventType /\ e.seq <= highWater'
      <3>1. highWater' = highWater + Cardinality(waiting)
        BY DEF Deliver
      <3> HIDE DEF waiting, Place
      <3> QED
        BY <2>2, <3>1, <1>1, <1>3, BoundsAssumption
        DEF Event, EventType, Kinds, TypeInv, TypeOK
    <2> QED
      BY <2>1, <2>2 DEF Deliver
  <1>6. IsFiniteSet(interjections')
    <2>1. [i \in interjections |-> [i EXCEPT !.delivered = TRUE]]
             \in Surjection(interjections, interjections')
      BY DEF Deliver, Surjection
    <2> QED
      BY <2>1, FS_Surjection DEF TypeInv
  <1>7. interjections' \subseteq [seq : Nat, delivered : BOOLEAN]
    BY DEF Deliver, TypeInv, TypeOK
  <1>8. mine' \in [Requests -> SUBSET Nat] /\ window' \in SUBSET Nat
    <2> HIDE DEF waiting
    <2>1. /\ mine' = [mine EXCEPT ![h] = @ \cup waiting]
          /\ window' = IF waiting = {} THEN window ELSE mine[h] \cup waiting
      BY DEF Deliver, waiting
    <2> QED
      BY <1>1, <2>1 DEF TypeInv, TypeOK
  <1> QED
    BY <1>4, <1>5, <1>6, <1>7, <1>8

LEMMA TypeInvStep == TypeInv /\ [Next]_vars => TypeInv'
  <1> SUFFICES ASSUME TypeInv, [Next]_vars PROVE TypeInv'
    OBVIOUS
  <1> USE DEF TypeInv, TypeOK
  <1>1. CASE UNCHANGED vars
    BY <1>1 DEF vars, stored, memory, run, budget
  <1>2. CASE CreateDraft
    BY <1>2 DEF CreateDraft, memory, run, budget, Statuses
  <1>3. CASE Cancel
    BY <1>3 DEF Cancel, stored, run, budget
  <1>4. CASE Interject
    <2>1. /\ highWater' \in Nat
          /\ events' \subseteq EventType
          /\ \A e \in events' : e.seq <= highWater'
      BY <1>4, AppendType, BoundsAssumption DEF Interject, Kinds, Turns, Terminal
    <2> QED
      <3>1. /\ interjections' \subseteq [seq : Nat, delivered : BOOLEAN]
            /\ IsFiniteSet(interjections')
        <4>1. interjections' =
                 interjections \cup {[seq |-> highWater + 1, delivered |-> FALSE]}
          BY <1>4 DEF Interject
        <4>2. [seq |-> highWater + 1, delivered |-> FALSE]
                 \in [seq : Nat, delivered : BOOLEAN]
          OBVIOUS
        <4>3. IsFiniteSet(interjections')
          BY <4>1, FS_AddElement
        <4> QED
          BY <4>1, <4>2, <4>3
      <3> QED
        BY <1>4, <2>1, <3>1 DEF Interject, memory, run, budget
  <1>5. CASE Stop
    BY <1>5 DEF Stop, stored, run, budget
  <1>6. CASE Crash
    <2>1. /\ pc' \in [Requests -> Labels]
          /\ mine' \in [Requests -> SUBSET Nat]
          /\ outcome' \in [Requests -> Terminal \cup {"none"}]
      BY <1>6 DEF Crash
    <2>2. \A h \in Requests : pc'[h] \in {"idle", "dead"}
      BY <1>6 DEF Crash
    <2>3. crashes' \in 0..MaxCrashes
      BY <1>6, BoundsAssumption DEF Crash, MayExit
    <2> QED
      BY <1>6, <2>1, <2>2, <2>3 DEF Crash, stored
  <1>7. CASE Recover
    <2>1. /\ highWater' \in Nat
          /\ events' \subseteq EventType
          /\ \A e \in events' : e.seq <= highWater'
      BY <1>7, AppendType, LastStartedType DEF Recover, Kinds, Terminal
    <2> QED
      BY <1>7, <2>1 DEF Recover, run, budget, Statuses, Terminal
  <1>8. ASSUME NEW h \in Requests, Create(h) PROVE TypeInv'
    BY <1>8, BoundsAssumption DEF Create, memory, budget, Go, Statuses, Turns
  <1>9. ASSUME NEW h \in Requests, NEW id \in RequestIds \cup {NoId},
               Continue(h, id)
        PROVE  TypeInv'
    <2>1. admitted' \subseteq [turn : Turns, id : RequestIds \cup {NoId}]
      BY <1>9 DEF Continue
    <2>2. /\ pc' \in [Requests -> Labels]
          /\ turn' \in [Requests -> 0..MaxTurn]
          /\ requestId' \in [Requests -> RequestIds \cup {NoId}]
          /\ \A g \in Requests : pc'[g] \notin {"idle", "dead"} => turn'[g] \in Turns
      BY <1>9 DEF Continue, Go, Turns
    <2>3. \A g \in Requests :
             pc'[g] \in {"ending", "end", "finish"} => outcome'[g] \in Terminal
      BY <1>9 DEF Continue, Go
    <2> QED
      BY <1>9, <2>1, <2>2, <2>3 DEF Continue, memory, budget, Statuses
  <1>10. ASSUME NEW h \in Requests, Abandon(h) PROVE TypeInv'
    <2>1. pc' = [pc EXCEPT ![h] = "gone"] /\ pc[h] \in {"created", "accepted"}
      BY <1>10 DEF Abandon, Go
    <2>2. UNCHANGED <<status, highWater, events, admitted, interjections, window,
                      snapshots, deltas, memory, turn, requestId, mine,
                      outcome, budget>>
      BY <1>10 DEF Abandon, stored
    <2> QED
      BY <2>1, <2>2 DEF memory, budget
  <1>11. ASSUME NEW h \in Requests, Register(h) PROVE TypeInv'
    BY <1>11 DEF Register, stored, budget, Go
  <1>12. ASSUME NEW h \in Requests, Snapshot(h) PROVE TypeInv'
    <2>1. snapshots' \subseteq [turn : Turns, window : SUBSET Nat]
      <3>1. [turn |-> turn[h], window |-> window] \in [turn : Turns, window : SUBSET Nat]
        BY <1>12 DEF Snapshot
      <3>2. \A s \in snapshots' :
               s \in snapshots \/ s = [turn |-> turn[h], window |-> window]
        BY <1>12 DEF Snapshot
      <3> QED
        BY <3>1, <3>2
    <2>2. UNCHANGED <<status, highWater, events, admitted, interjections, window,
                      deltas, memory, turn, requestId, mine, outcome, budget>>
      BY <1>12 DEF Snapshot
    <2>3. pc' = [pc EXCEPT ![h] = "reset"] /\ pc[h] = "setup"
      BY <1>12 DEF Snapshot, Go
    <2> QED
      BY <2>1, <2>2, <2>3 DEF memory, budget
  <1>13. ASSUME NEW h \in Requests, Reset(h) PROVE TypeInv'
    <2>1. /\ highWater' \in Nat
          /\ events' \subseteq EventType
          /\ \A e \in events' : e.seq <= highWater'
      BY <1>13, AppendType, BoundsAssumption DEF Reset, Kinds, Turns, Terminal
    <2> QED
      BY <1>13, <2>1 DEF Reset, memory, budget, Go
  <1>14. ASSUME NEW h \in Requests, Start(h) PROVE TypeInv'
    <2>1. /\ highWater' \in Nat
          /\ events' \subseteq EventType
          /\ \A e \in events' : e.seq <= highWater'
      BY <1>14, AppendType, BoundsAssumption DEF Start, Kinds, Turns, Terminal
    <2> QED
      BY <1>14, <2>1 DEF Start, memory, budget, Go
  <1>15. ASSUME NEW h \in Requests, Message(h) PROVE TypeInv'
    <2>1. /\ highWater' \in Nat
          /\ events' \subseteq EventType
          /\ \A e \in events' : e.seq <= highWater'
      BY <1>15, AppendType, BoundsAssumption DEF Message, Kinds, Turns, Terminal
    <2> QED
      BY <1>15, <2>1 DEF Message, memory, budget, Go
  <1>16. ASSUME NEW h \in Requests, Save(h) PROVE TypeInv'
    BY <1>16 DEF Save, memory, budget, Go
  <1>17. ASSUME NEW h \in Requests, Open(h) PROVE TypeInv'
    <2>1. /\ highWater' \in Nat
          /\ events' \subseteq EventType
          /\ \A e \in events' : e.seq <= highWater'
      BY <1>17, AppendType, BoundsAssumption DEF Open, Kinds, Turns, Terminal
    <2> QED
      BY <1>17, <2>1 DEF Open, memory, budget, Go
  <1>18. ASSUME NEW h \in Requests, Round(h) PROVE TypeInv'
    <2>1. /\ highWater' \in Nat
          /\ events' \subseteq EventType
          /\ \A e \in events' : e.seq <= highWater'
          /\ interjections' \subseteq [seq : Nat, delivered : BOOLEAN]
          /\ IsFiniteSet(interjections')
          /\ window' \in SUBSET Nat
          /\ mine' \in [Requests -> SUBSET Nat]
      BY <1>18, DeliverType DEF Round
    <2>2. deltas' \in SUBSET Turns
      BY <1>18 DEF Round
    <2>3. UNCHANGED <<status, admitted, snapshots, memory, turn, requestId, budget>>
      BY <1>18 DEF Round
    <2>4. pc' \in [Requests -> Labels] /\ outcome' \in [Requests -> Terminal \cup {"none"}]
      BY <1>18 DEF Round, Go, Terminal
    <2>5. /\ \A g \in Requests : pc'[g] \notin {"idle", "dead"} => turn'[g] \in Turns
          /\ \A g \in Requests :
                pc'[g] \in {"ending", "end", "finish"} => outcome'[g] \in Terminal
      BY <1>18, <2>3 DEF Round, Go, Terminal
    <2> QED
      BY <2>1, <2>2, <2>3, <2>4, <2>5 DEF memory, budget
  <1>19. ASSUME NEW h \in Requests, Answer(h) PROVE TypeInv'
    <2>1. /\ highWater' \in Nat
          /\ events' \subseteq EventType
          /\ \A e \in events' : e.seq <= highWater'
      BY <1>19, AppendType, BoundsAssumption DEF Answer, Kinds, Turns, Terminal
    <2> QED
      BY <1>19, <2>1 DEF Answer, memory, budget, Go, Terminal
  <1>20. ASSUME NEW h \in Requests, GiveUp(h) PROVE TypeInv'
    BY <1>20, BoundsAssumption DEF GiveUp, stored, memory, budget, Go, Terminal
  <1>21. ASSUME NEW h \in Requests, Settle(h) PROVE TypeInv'
    BY <1>21 DEF Settle, stored, memory, budget, Go, Terminal
  <1>22. ASSUME NEW h \in Requests, EndTurn(h) PROVE TypeInv'
    <2>1. /\ highWater' \in Nat
          /\ events' \subseteq EventType
          /\ \A e \in events' : e.seq <= highWater'
      BY <1>22, AppendType, BoundsAssumption DEF EndTurn, Kinds, Turns, Terminal
    <2> QED
      BY <1>22, <2>1 DEF EndTurn, memory, budget, Go
  <1>23. ASSUME NEW h \in Requests, Finish(h) PROVE TypeInv'
    BY <1>23 DEF Finish, memory, budget, Go, Statuses
  <1>24. ASSUME NEW h \in Requests, WorkerFails(h) PROVE TypeInv'
    BY <1>24, BoundsAssumption DEF WorkerFails, stored, memory, Go, Fault
  <1>25. ASSUME NEW h \in Requests, RecordFailure(h) PROVE TypeInv'
    <2>1. /\ highWater' \in Nat
          /\ events' \subseteq EventType
          /\ \A e \in events' : e.seq <= highWater'
      <3>1. CASE Append("turn/end", turn[h], "failed")
        BY <3>1, AppendType DEF Kinds, Terminal
      <3>2. CASE UNCHANGED <<events, highWater>>
        BY <3>2
      <3> QED
        BY <1>25, <3>1, <3>2 DEF RecordFailure
    <2> QED
      <3>1. faults' \in 0..MaxFaults
        BY <1>25, BoundsAssumption DEF RecordFailure, Fault
      <3>2. pc' = [pc EXCEPT ![h] = "failfinish"] /\ pc[h] = "fail"
        BY <1>25 DEF RecordFailure, Go
      <3>3. UNCHANGED <<status, admitted, interjections, window, snapshots,
                        deltas, memory, turn, requestId, mine, outcome, crashes>>
        BY <1>25 DEF RecordFailure
      <3> QED
        BY <2>1, <3>1, <3>2, <3>3 DEF memory
  <1>26. ASSUME NEW h \in Requests, FinishFailed(h) PROVE TypeInv'
    BY <1>26, BoundsAssumption DEF FinishFailed, memory, Go, Fault, Statuses, Terminal
  <1>27. ASSUME NEW h \in Requests, Cleanup(h) PROVE TypeInv'
    BY <1>27, BoundsAssumption DEF Cleanup, memory, Go, Fault
  <1>28. ASSUME NEW h \in Requests, Clear(h) PROVE TypeInv'
    BY <1>28 DEF Clear, stored, budget, Go
  <1> QED
    BY <1>1, <1>2, <1>3, <1>4, <1>5, <1>6, <1>7, <1>8, <1>9, <1>10, <1>11, <1>12, <1>13, <1>14, <1>15, <1>16, <1>17, <1>18, <1>19, <1>20, <1>21, <1>22, <1>23, <1>24, <1>25, <1>26, <1>27, <1>28
    DEF Next, Handler, Proceed

LEMMA TypeInvInit == Init => TypeInv
  <1> SUFFICES ASSUME Init PROVE TypeInv
    OBVIOUS
  <1>1. /\ pc \in [Requests -> Labels]
        /\ turn \in [Requests -> 0..MaxTurn]
        /\ requestId \in [Requests -> RequestIds \cup {NoId}]
        /\ mine \in [Requests -> SUBSET Nat]
        /\ outcome \in [Requests -> Terminal \cup {"none"}]
    BY BoundsAssumption DEF Init
  <1>2. faults \in 0..MaxFaults /\ crashes \in 0..MaxCrashes
    BY BoundsAssumption DEF Init
  <1> QED
    BY <1>1, <1>2, FS_EmptySet DEF Init, TypeInv, TypeOK, Statuses

\* Every variable of the service keeps its type.
THEOREM TypeInvariant == Spec => []TypeOK
  <1>1. TypeInv => TypeOK
    BY DEF TypeInv
  <1> QED
    BY <1>1, TypeInvInit, TypeInvStep, PTL DEF Spec

-----------------------------------------------------------------------------
(* Who holds the conversation                                              *)

\* A request among the holding ones, when there is no other, is the holder.
LEMMA HolderIs ==
  ASSUME NEW p, NEW h \in Requests, p[h] \in Holding,
         \A g \in Requests : p[g] \in Holding => g = h
  PROVE  HolderIn(p) = h
  BY DEF HolderIn

LEMMA HolderNone ==
  ASSUME NEW p, \A h \in Requests : p[h] \notin Holding
  PROVE  HolderIn(p) = NoRun
  BY DEF HolderIn

\* The holder goes on, or ends; others come and go without taking it.
LEMMA HolderStays ==
  ASSUME Ownership, Ownership', NEW h \in Requests,
         pc[h] \in Holding, pc'[h] \in Holding
  PROVE  HolderIn(pc) = h /\ HolderIn(pc') = h
  <1>1. HolderIn(pc) = h
    BY HolderIs DEF Ownership, OneRun
  <1>2. HolderIn(pc') = h
    BY HolderIs DEF Ownership, OneRun
  <1> QED
    BY <1>1, <1>2

LEMMA HolderLeaves ==
  ASSUME Ownership, NEW h \in Requests, NEW l, l \notin Holding,
         pc[h] \in Holding, pc' = [pc EXCEPT ![h] = l]
  PROVE  HolderIn(pc) = h /\ h # NoRun /\ HolderIn(pc') = NoRun
  <1>1. HolderIn(pc) = h
    BY HolderIs DEF Ownership, OneRun
  <1>2. \A g \in Requests : pc'[g] \notin Holding
    BY DEF Ownership, OneRun, ControlType
  <1> QED
    BY <1>1, <1>2, HolderNone, NamesAssumption

LEMMA HolderElsewhere ==
  ASSUME Ownership, NEW h \in Requests, NEW l, l \notin Holding,
         pc[h] \notin Holding, pc' = [pc EXCEPT ![h] = l]
  PROVE  HolderIn(pc') = HolderIn(pc)
  <1>1. \A g \in Requests : pc'[g] \in Holding <=> pc[g] \in Holding
    BY DEF Ownership, ControlType
  <1>2. ASSUME NEW g \in Requests, pc[g] \in Holding
        PROVE  HolderIn(pc') = HolderIn(pc)
    <2>1. \A f \in Requests : pc[f] \in Holding => f = g
      BY <1>2 DEF Ownership, OneRun
    <2>2. HolderIn(pc) = g
      BY <1>2, <2>1, HolderIs
    <2>3. HolderIn(pc') = g
      BY <1>1, <1>2, <2>1, HolderIs
    <2> QED
      BY <2>2, <2>3
  <1>3. CASE \A g \in Requests : pc[g] \notin Holding
    BY <1>1, <1>3, HolderNone
  <1> QED
    BY <1>2, <1>3

-----------------------------------------------------------------------------
(* What was said and heard                                                 *)

\* Numbers of messages are numbers of events; what waits has not been heard.
Said ==
    /\ \A i \in interjections : i.seq <= highWater
    /\ \A n \in Heard : n \in Nat /\ n <= highWater
    /\ Waiting \cap Heard = {}

LEMMA AppendQuiet ==
  ASSUME NEW kind, kind # "user/interjection_delivered", NEW t, NEW reason,
         Append(kind, t, reason)
  PROVE  Heard' = Heard
  BY DEF Append, Heard, Of, Event

LEMMA EventsQuiet == events' = events => Heard' = Heard
  BY DEF Heard, Of

LEMMA DeliverGrows ==
  ASSUME Ownership, TypeInv, NEW h \in Requests, Deliver(h)
  PROVE  highWater' \in Nat /\ highWater <= highWater'
  <1>1. Waiting \in SUBSET Nat /\ IsFiniteSet(Waiting)
    <2>1. IsFiniteSet(Pending)
      BY FS_Subset DEF TypeInv, Pending
    <2>2. [i \in Pending |-> i.seq] \in Surjection(Pending, Waiting)
      BY DEF Surjection, Waiting
    <2>3. Waiting \in SUBSET Nat
      BY DEF TypeInv, TypeOK, Pending, Waiting
    <2> QED
      BY <2>1, <2>2, <2>3, FS_Surjection
  <1>2. Cardinality(Waiting) \in Nat
    BY <1>1, FS_CardinalityType
  <1> QED
    BY <1>2 DEF Deliver, TypeInv, TypeOK

LEMMA DeliverHears ==
  ASSUME NEW h \in Requests, Deliver(h), interjections \subseteq [seq : Nat, delivered : BOOLEAN]
  PROVE  Heard' = Heard \cup Waiting /\ Waiting' = {}
  <1>1. Waiting' = {}
    <2>1. \A i \in interjections' : i.delivered
      BY DEF Deliver, Marked
    <2> QED
      BY <2>1 DEF Pending, Waiting
  <1>2. Heard' = Heard \cup Waiting
    <2> DEFINE Place(s) == Cardinality({r \in Waiting : r <= s})
               new == {Event(Place(s), "user/interjection_delivered", 0, "none", s) :
                           s \in Waiting}
    <2>1. events' = events \cup new
      BY DEF Deliver
    <2> HIDE DEF Place
    <2>2. \A e \in new : e.kind = "user/interjection_delivered" /\ e.refers \in Waiting
      BY DEF Event
    <2>3. ASSUME NEW s \in Waiting PROVE \E e \in new : e.refers = s
      <3> DEFINE e == Event(Place(s), "user/interjection_delivered", 0, "none", s)
      <3>1. e \in new /\ e.refers = s
        BY DEF Event
      <3> QED
        BY <3>1
    <2> HIDE DEF new
    <2>4. {e.refers : e \in new} = Waiting
      BY <2>2, <2>3
    <2> QED
      BY <2>1, <2>2, <2>4 DEF Heard, Of
  <1> QED
    BY <1>1, <1>2

-----------------------------------------------------------------------------
(* Steps                                                                   *)

LEMMA HolderPrime == HolderIn(pc)' = HolderIn(pc')
  BY DEF HolderIn

Inv == Ownership /\ TypeInv /\ Said

\* Nothing is accepted, said, heard or decided.
Still ==
    /\ UNCHANGED <<status, admitted, interjections>>
    /\ Heard' = Heard /\ highWater' \in Nat /\ highWater <= highWater'

LEMMA StillSame ==
  ASSUME Inv, UNCHANGED <<status, admitted, interjections, events, highWater>>
  PROVE  Still
  BY EventsQuiet DEF Still, Inv, TypeInv, TypeOK

LEMMA StillAppend ==
  ASSUME Inv, UNCHANGED <<status, admitted, interjections>>,
         NEW kind, kind # "user/interjection_delivered", NEW t, NEW reason,
         Append(kind, t, reason)
  PROVE  Still
  <1>1. Heard' = Heard
    BY AppendQuiet
  <1>2. highWater' = highWater + 1
    BY DEF Append
  <1> QED
    BY <1>1, <1>2 DEF Still, Inv, TypeInv, TypeOK

LEMMA StillSaid ==
  ASSUME Inv, UNCHANGED interjections, Heard' = Heard, highWater' \in Nat, highWater <= highWater'
  PROVE  Said'
  <1>1. Waiting' = Waiting
    BY DEF Waiting, Pending
  <1>2. /\ \A i \in interjections : i.seq \in Nat
        /\ highWater \in Nat
    BY DEF Inv, TypeInv, TypeOK
  <1> QED
    BY <1>1, <1>2 DEF Said, Inv

LEMMA StillStep ==
  ASSUME Inv, Still, HolderIn(pc') = HolderIn(pc)
  PROVE  UNCHANGED Service!vars
  <1>1. Waiting' = Waiting
    BY DEF Waiting, Pending, Still
  <1>2. AcceptedIds' = AcceptedIds
    BY DEF AcceptedIds, Still
  <1> QED
    BY <1>1, <1>2, HolderPrime DEF Service!vars, Still

\* A run at work holds the conversation before and after each of its steps.
LEMMA WorkGoesOn ==
  ASSUME Inv, Ownership', NEW h \in Requests,
         \/ Register(h) \/ Snapshot(h) \/ Reset(h) \/ Start(h) \/ Message(h)
         \/ Save(h) \/ Open(h) \/ Answer(h) \/ GiveUp(h) \/ Settle(h)
         \/ EndTurn(h) \/ WorkerFails(h) \/ RecordFailure(h)
  PROVE  Still /\ HolderIn(pc') = HolderIn(pc)
  <1>1. pc[h] \in Holding /\ pc'[h] \in Holding
    <2>1. pc \in [Requests -> Labels]
      BY DEF Inv, Ownership, ControlType
    <2>2. PICK l \in Holding : pc[h] \in Holding /\ Go(h, l)
      BY DEF Register, Snapshot, Reset, Start, Message, Save, Open, Answer,
             GiveUp, Settle, EndTurn, WorkerFails, RecordFailure, Holding,
             WorkerSteps
    <2> QED
      BY <2>1, <2>2 DEF Go
  <1>2. HolderIn(pc') = HolderIn(pc)
    BY <1>1, HolderStays DEF Inv
  <1>3. CASE Register(h)
    BY <1>2, <1>3, StillSame DEF Register, stored
  <1>4. CASE Snapshot(h)
    BY <1>2, <1>4, StillSame DEF Snapshot
  <1>5. CASE Reset(h)
    <2>1. /\ UNCHANGED <<status, admitted, interjections>>
          /\ \/ Append("context/main_reset", turn[h], "none")
             \/ UNCHANGED <<events, highWater>>
      BY <1>5 DEF Reset
    <2> QED
      BY <1>2, <2>1, StillSame, StillAppend
  <1>6. CASE Start(h)
    BY <1>2, <1>6, StillAppend DEF Start
  <1>7. CASE Message(h)
    BY <1>2, <1>7, StillAppend DEF Message
  <1>8. CASE Save(h)
    BY <1>2, <1>8, StillSame DEF Save
  <1>9. CASE Open(h)
    <2>1. /\ UNCHANGED <<status, admitted, interjections>>
          /\ \/ Append("task/opened", turn[h], "none")
             \/ UNCHANGED <<events, highWater>>
      BY <1>9 DEF Open
    <2> QED
      BY <1>2, <2>1, StillSame, StillAppend
  <1>10. CASE Answer(h)
    <2>1. /\ UNCHANGED <<status, admitted, interjections>>
          /\ \/ Append("task/returned", turn[h], "none")
             \/ UNCHANGED <<events, highWater>>
      BY <1>10 DEF Answer
    <2> QED
      BY <1>2, <2>1, StillSame, StillAppend
  <1>11. CASE GiveUp(h)
    BY <1>2, <1>11, StillSame DEF GiveUp, stored
  <1>12. CASE Settle(h)
    BY <1>2, <1>12, StillSame DEF Settle, stored
  <1>13. CASE EndTurn(h)
    BY <1>2, <1>13, StillAppend DEF EndTurn
  <1>14. CASE WorkerFails(h)
    BY <1>2, <1>14, StillSame DEF WorkerFails, stored
  <1>15. CASE RecordFailure(h)
    <2>1. /\ UNCHANGED <<status, admitted, interjections>>
          /\ \/ Append("turn/end", turn[h], "failed")
             \/ UNCHANGED <<events, highWater>>
      BY <1>15 DEF RecordFailure
    <2> QED
      BY <1>2, <2>1, StillSame, StillAppend
  <1> QED
    BY <1>3, <1>4, <1>5, <1>6, <1>7, <1>8, <1>9, <1>10, <1>11,
       <1>12, <1>13, <1>14, <1>15

\* Every step is one of the Conversation, or none of its business.
LEMMA Implementing == Inv /\ [Next]_vars => [Service!Next]_(Service!vars) /\ Said'
  <1> SUFFICES ASSUME Inv, [Next]_vars
               PROVE  [Service!Next]_(Service!vars) /\ Said'
    OBVIOUS
  <1>0. Ownership' /\ TypeInv'
    BY OwnershipStep, TypeInvStep DEF Inv
  <1>t. /\ pc \in [Requests -> Labels] /\ highWater \in Nat
        /\ interjections \subseteq [seq : Nat, delivered : BOOLEAN]
    BY DEF Inv, Ownership, ControlType, TypeInv, TypeOK
  <1>q. ASSUME Still, HolderIn(pc') = HolderIn(pc)
        PROVE  [Service!Next]_(Service!vars) /\ Said'
    BY <1>q, StillStep, StillSaid DEF Still
  <1>n. ASSUME status # "running" PROVE \A h \in Requests : pc[h] \notin Holding
    BY <1>n DEF Inv, Ownership, HoldingIsRunning
  <1>1. CASE UNCHANGED vars \/ Cancel \/ Stop
    <2>1. UNCHANGED <<status, admitted, interjections, events, highWater, pc>>
      BY <1>1 DEF vars, Cancel, Stop, stored, run
    <2> QED
      BY <1>q, <2>1, StillSame
  <1>2. CASE CreateDraft
    <2>1. UNCHANGED <<admitted, interjections, events, highWater, pc>>
      BY <1>2 DEF CreateDraft, run
    <2>2. AcceptedIds' = AcceptedIds /\ Waiting' = Waiting /\ Heard' = Heard
      BY <2>1, EventsQuiet DEF AcceptedIds, Waiting, Pending
    <2>3. Service!Draft
      BY <1>2, <2>1, <2>2, HolderPrime DEF CreateDraft, Service!Draft
    <2> QED
      BY <1>t, <2>1, <2>2, <2>3, StillSaid DEF Service!Next
  <1>3. CASE Interject
    <2> DEFINE new == [seq |-> highWater + 1, delivered |-> FALSE]
    <2>1. /\ status = "running" /\ interjections' = interjections \cup {new}
          /\ Append("user/interjection", 0, "none")
          /\ UNCHANGED <<status, admitted, pc>>
      BY <1>3 DEF Interject, run
    <2>2. highWater' = highWater + 1 /\ Heard' = Heard /\ AcceptedIds' = AcceptedIds
      BY <2>1, AppendQuiet DEF Append, AcceptedIds
    <2>3. Waiting' = Waiting \cup {highWater + 1}
      <3>1. Pending' = Pending \cup {new}
        BY <2>1 DEF Pending
      <3>2. new.seq = highWater + 1
        OBVIOUS
      <3> HIDE DEF new
      <3> QED
        BY <3>1, <3>2 DEF Waiting
    <2>4. highWater + 1 \notin Heard /\ Waiting \cap Heard = {}
      BY <1>t DEF Inv, Said
    <2>5. Service!Say
      BY <2>1, <2>2, <2>3, <2>4, HolderPrime DEF Service!Say
    <2>6. Said'
      <3>1. /\ \A i \in interjections : i.seq \in Nat /\ i.seq <= highWater
            /\ \A m \in Heard : m \in Nat /\ m <= highWater
        BY <1>t DEF Inv, Said
      <3> QED
        BY <1>t, <2>1, <2>2, <2>3, <2>4, <3>1 DEF Said
    <2> QED
      BY <2>5, <2>6 DEF Service!Next
  <1>4. CASE Crash
    <2>1. /\ UNCHANGED <<status, admitted, interjections, events, highWater>>
          /\ \A h \in Requests : pc'[h] \in {"idle", "dead"}
      BY <1>4 DEF Crash, stored
    <2>2. HolderIn(pc') = NoRun
      BY <2>1, HolderNone DEF Holding, WorkerSteps
    <2>3. AcceptedIds' = AcceptedIds /\ Waiting' = Waiting /\ Heard' = Heard
      BY <2>1, EventsQuiet DEF AcceptedIds, Waiting, Pending
    <2>4. CASE HolderIn(pc) = NoRun
      BY <1>q, <2>1, <2>2, <2>4, StillSame
    <2>5. CASE HolderIn(pc) # NoRun
      <3>1. Service!Lose
        BY <2>1, <2>2, <2>3, <2>5, HolderPrime DEF Service!Lose
      <3> QED
        BY <1>t, <2>1, <2>3, <3>1, StillSaid DEF Service!Next
    <2> QED
      BY <2>4, <2>5
  <1>5. CASE Recover
    <2>1. /\ UNCHANGED <<admitted, interjections, pc>>
          /\ \/ status = "running" /\ status' = "interrupted"
                /\ Append("turn/end", LastStarted, "interrupted")
             \/ UNCHANGED <<status, events, highWater>>
      BY <1>5 DEF Recover, Orphaned, run
    <2>2. CASE UNCHANGED <<status, events, highWater>>
      BY <1>q, <2>1, <2>2, StillSame
    <2>3. CASE /\ status = "running" /\ status' = "interrupted"
               /\ Append("turn/end", LastStarted, "interrupted")
      <3>1. highWater' = highWater + 1 /\ Heard' = Heard
        BY <2>3, AppendQuiet DEF Append
      <3>2. AcceptedIds' = AcceptedIds /\ Waiting' = Waiting
        BY <2>1 DEF AcceptedIds, Waiting, Pending
      <3>3. HolderIn(pc) = NoRun
        <4>1. \A h \in Requests : pc[h] \in {"idle", "dead"}
          BY <1>5 DEF Recover, Inv, Ownership, DownIsQuiet
        <4> QED
          BY <4>1, HolderNone DEF Holding, WorkerSteps
      <3>4. Service!Reclaim
        BY <2>1, <2>3, <3>1, <3>2, <3>3, HolderPrime DEF Service!Reclaim
      <3> QED
        BY <1>t, <2>1, <3>1, <3>4, StillSaid DEF Service!Next
    <2> QED
      BY <2>1, <2>2, <2>3
  <1>6. ASSUME NEW h \in Requests, Create(h)
        PROVE  [Service!Next]_(Service!vars) /\ Said'
    <2>1. /\ status # "running" /\ status' = "running" /\ Go(h, "created")
          /\ UNCHANGED <<admitted, interjections, events, highWater>>
      BY <1>6 DEF Create
    <2>2. AcceptedIds' = AcceptedIds /\ Waiting' = Waiting /\ Heard' = Heard
      BY <2>1, EventsQuiet DEF AcceptedIds, Waiting, Pending
    <2>3. HolderIn(pc) = NoRun
      BY <1>n, <2>1, HolderNone
    <2>4. HolderIn(pc') = h
      <3>1. pc'[h] \in Holding /\ \A g \in Requests : pc'[g] \in Holding => g = h
        BY <1>n, <1>t, <2>1 DEF Go, Holding
      <3> QED
        BY <3>1, HolderIs
    <2>5. NoId \notin AcceptedIds
      BY DEF AcceptedIds
    <2>6. Service!Accept(h, NoId)
      BY <2>1, <2>2, <2>3, <2>4, <2>5, HolderPrime DEF Service!Accept
    <2> QED
      BY <1>6, <1>t, <2>1, <2>2, <2>6, StillSaid DEF Service!Next
  <1>7. ASSUME NEW h \in Requests, NEW id \in RequestIds \cup {NoId}, Continue(h, id)
        PROVE  [Service!Next]_(Service!vars) /\ Said'
    <2>1. /\ status # "running" /\ status' = "running" /\ Go(h, "accepted")
          /\ admitted' = admitted \cup {[turn |-> NextTurn, id |-> id]}
          /\ id \notin AcceptedIds
          /\ UNCHANGED <<interjections, events, highWater>>
      BY <1>7 DEF Continue, Accepting, Terminal, Seen
    <2>2. Waiting' = Waiting /\ Heard' = Heard
      BY <2>1, EventsQuiet DEF Waiting, Pending
    <2>3. HolderIn(pc) = NoRun
      BY <1>n, <2>1, HolderNone
    <2>4. HolderIn(pc') = h
      <3>1. pc'[h] \in Holding /\ \A g \in Requests : pc'[g] \in Holding => g = h
        BY <1>n, <1>t, <2>1 DEF Go, Holding
      <3> QED
        BY <3>1, HolderIs
    <2>5. AcceptedIds' = AcceptedIds \cup ({id} \ {NoId})
      <3> DEFINE row == [turn |-> NextTurn, id |-> id]
      <3>1. row.id = id /\ admitted' = admitted \cup {row}
        BY <2>1
      <3> HIDE DEF row
      <3>2. {a.id : a \in admitted'} = {a.id : a \in admitted} \cup {id}
        BY <3>1
      <3> QED
        BY <3>2 DEF AcceptedIds
    <2>6. Service!Accept(h, id)
      BY <2>1, <2>2, <2>3, <2>4, <2>5, HolderPrime DEF Service!Accept
    <2> QED
      BY <1>7, <1>t, <2>1, <2>2, <2>6, StillSaid DEF Service!Next
  <1>8. ASSUME NEW h \in Requests, Abandon(h) \/ Finish(h) \/ FinishFailed(h)
        PROVE  [Service!Next]_(Service!vars) /\ Said'
    <2>1. PICK l \in {"gone", "cleanup"} : pc' = [pc EXCEPT ![h] = l]
      BY <1>8 DEF Abandon, Finish, FinishFailed, Go
    <2>2. /\ pc[h] \in Holding
          /\ UNCHANGED <<admitted, interjections, events, highWater>>
          /\ status' = status \/ status' \in Terminal
      <3>1. pc[h] = "finish" => outcome[h] \in Terminal
        BY DEF Inv, TypeInv
      <3>2. CASE Abandon(h)
        BY <3>2 DEF Abandon, stored, Holding
      <3>3. CASE Finish(h)
        BY <3>1, <3>3 DEF Finish, Holding, WorkerSteps
      <3>4. CASE FinishFailed(h)
        BY <3>4 DEF FinishFailed, Holding, Terminal
      <3> QED
        BY <1>8, <3>2, <3>3, <3>4
    <2>3. HolderIn(pc) # NoRun /\ HolderIn(pc') = NoRun /\ status = "running"
      <3>1. l \notin Holding
        BY <2>1 DEF Holding, WorkerSteps
      <3> QED
        BY <2>1, <2>2, <3>1, HolderLeaves DEF Inv, Ownership, HoldingIsRunning
    <2>4. AcceptedIds' = AcceptedIds /\ Waiting' = Waiting /\ Heard' = Heard
      BY <2>2, EventsQuiet DEF AcceptedIds, Waiting, Pending
    <2>5. Service!Lose \/ Service!Conclude
      BY <2>2, <2>3, <2>4, HolderPrime DEF Service!Lose, Service!Conclude
    <2> QED
      BY <1>t, <2>2, <2>4, <2>5, StillSaid DEF Service!Next
  <1>9. ASSUME NEW h \in Requests,
               \/ Register(h) \/ Snapshot(h) \/ Reset(h) \/ Start(h)
               \/ Message(h) \/ Save(h) \/ Open(h) \/ Answer(h) \/ GiveUp(h)
               \/ Settle(h) \/ EndTurn(h) \/ WorkerFails(h) \/ RecordFailure(h)
        PROVE  [Service!Next]_(Service!vars) /\ Said'
    <2>1. Still /\ HolderIn(pc') = HolderIn(pc)
      BY <1>0, <1>9, WorkGoesOn
    <2> QED
      BY <1>q, <2>1
  <1>10. ASSUME NEW h \in Requests, Cleanup(h) \/ Clear(h)
         PROVE  [Service!Next]_(Service!vars) /\ Said'
    <2>1. PICK l \in {"clear", "done"} : pc' = [pc EXCEPT ![h] = l]
      BY <1>10 DEF Cleanup, Clear, Go
    <2>2. /\ pc[h] \in {"cleanup", "clear"}
          /\ UNCHANGED <<status, admitted, interjections, events, highWater>>
      BY <1>10 DEF Cleanup, Clear, stored
    <2>3. HolderIn(pc') = HolderIn(pc)
      <3>1. l \notin Holding /\ pc[h] \notin Holding
        BY <2>1, <2>2 DEF Holding, WorkerSteps
      <3> QED
        BY <2>1, <3>1, HolderElsewhere DEF Inv
    <2> QED
      BY <1>q, <2>2, <2>3, StillSame
  <1>11. ASSUME NEW h \in Requests, Round(h)
         PROVE  [Service!Next]_(Service!vars) /\ Said'
    <2>1. /\ UNCHANGED <<status, admitted>> /\ Deliver(h)
          /\ pc[h] = "loop" /\ (pc' = pc \/ Go(h, "ending"))
      BY <1>11 DEF Round
    <2>2. Heard' = Heard \cup Waiting /\ Waiting' = {} /\ AcceptedIds' = AcceptedIds
      BY <1>t, <2>1, DeliverHears DEF AcceptedIds
    <2>3. HolderIn(pc) = h /\ HolderIn(pc') = h /\ h # NoRun
      <3>1. pc[h] \in Holding /\ pc'[h] \in Holding
        BY <1>t, <2>1 DEF Go, Holding, WorkerSteps
      <3> QED
        BY <1>0, <3>1, HolderStays, NamesAssumption DEF Inv
    <2>4. ASSUME Waiting # {} PROVE Service!Next
      BY <2>1, <2>2, <2>3, <2>4, HolderPrime DEF Service!Hear, Service!Next
    <2>5. ASSUME Waiting = {} PROVE UNCHANGED Service!vars
      BY <2>1, <2>2, <2>3, <2>5, HolderPrime DEF Service!vars
    <2>6. Said'
      <3>1. highWater' \in Nat /\ highWater <= highWater'
        BY <2>1, DeliverGrows DEF Inv
      <3>2. \A i \in interjections : i.seq \in Nat /\ i.seq <= highWater
        BY <1>t DEF Inv, Said
      <3>3. \A n \in Heard' : n \in Nat /\ n <= highWater'
        <4>1. \A n \in Heard : n \in Nat /\ n <= highWater
          BY DEF Inv, Said
        <4>2. \A n \in Waiting : n \in Nat /\ n <= highWater
          BY <3>2 DEF Waiting, Pending
        <4> QED
          BY <1>t, <2>2, <3>1, <4>1, <4>2
      <3>4. \A i \in interjections' : i.seq <= highWater'
        <4>1. interjections' = {Marked(i) : i \in interjections}
          BY <2>1 DEF Deliver
        <4>2. \A i \in interjections : Marked(i).seq = i.seq
          BY <1>t DEF Marked
        <4> QED
          BY <1>t, <3>1, <3>2, <4>1, <4>2
      <3> QED
        BY <2>2, <3>3, <3>4 DEF Said
    <2> QED
      BY <2>4, <2>5, <2>6
  <1> QED
    BY <1>1, <1>2, <1>3, <1>4, <1>5, <1>6, <1>7, <1>8, <1>9, <1>10, <1>11
       DEF Next, Handler, Proceed

\* Whatever workers, supervisors, cancellations, crashes and recovery do, a
\* client sees a Conversation: one holder at a time, only the holder or (over
\* nobody) recovery ends a turn, no retry starts another, and what was said
\* meanwhile is heard once.
THEOREM ServiceIsAConversation == Spec => Implements
  <1>1. Init => Inv /\ Service!Init
    <2> SUFFICES ASSUME Init PROVE Inv /\ Service!Init
      OBVIOUS
    <2>1. AcceptedIds = {} /\ Waiting = {} /\ Heard = {}
      BY DEF Init, AcceptedIds, Waiting, Pending, Heard, Of
    <2>2. HolderIn(pc) = NoRun
      <3>1. \A h \in Requests : pc[h] \notin Holding
        BY DEF Init, Holding, WorkerSteps
      <3> QED
        BY <3>1, HolderNone
    <2>3. Said
      BY <2>1 DEF Init, Said
    <2> QED
      BY <2>1, <2>2, <2>3, OwnershipInit, TypeInvInit DEF Init, Inv, Service!Init
  <1>2. Inv /\ [Next]_vars => Inv'
    BY Implementing, OwnershipStep, TypeInvStep DEF Inv
  <1> QED
    BY <1>1, <1>2, Implementing, PTL DEF Spec, Implements, Service!Spec

-----------------------------------------------------------------------------
(* A run for every 'running'                                               *)

\* A conversation keeps 'running' without a run only if its supervisor could
\* not write the end either, and whoever stands at that write has met a fault.
Supervised ==
    /\ faults \in Nat
    /\ \A h \in Requests : pc[h] \in {"fail", "failfinish"} => faults >= 1
    /\ RunningHasRun

\* Where a request answers for the status 'running'.
Answerable == Holding \cup {"gone"}

\* A request that goes on answers for the status as before.
LEMMA SupervisedGoes ==
    ASSUME ControlType, Supervised, NEW h \in Requests, NEW l \in Labels,
           Go(h, l), UNCHANGED <<status, host, faults>>,
           pc[h] \in Answerable => l \in Answerable,
           l \in {"fail", "failfinish"} => pc[h] \in {"fail", "failfinish"}
    PROVE  Supervised'
  <1>1. pc' = [pc EXCEPT ![h] = l]
    BY DEF Go
  <1>2. ASSUME NEW g \in Requests, pc[g] \in Answerable
        PROVE  \E f \in Requests : pc'[f] \in Answerable
    BY <1>1, <1>2 DEF ControlType
  <1>3. RunningHasRun'
    BY <1>2 DEF Supervised, RunningHasRun, Answerable
  <1> QED
    BY <1>1, <1>3 DEF Supervised, ControlType

\* A conversation that is not 'running', or whose process is down, or that
\* someone answers for, needs no excuse.
LEMMA SupervisedExcused ==
    ASSUME faults' \in Nat,
           \A h \in Requests : pc'[h] \in {"fail", "failfinish"} => faults' >= 1,
           \/ status' # "running" \/ host' # "up"
           \/ \E h \in Requests : pc'[h] \in Answerable
    PROVE  Supervised'
  BY DEF Supervised, RunningHasRun, Answerable

LEMMA SupervisedStep == Ownership /\ Supervised /\ [Next]_vars => Supervised'
  <1> SUFFICES ASSUME Ownership, Supervised, [Next]_vars PROVE Supervised'
    OBVIOUS
  <1> USE DEF Ownership, ControlType
  <1> DEFINE Idle == UNCHANGED <<status, host, faults, pc>>
  <1>1. CASE Idle
    BY <1>1 DEF Supervised, RunningHasRun
  <1>2. CASE CreateDraft
    BY <1>2, SupervisedExcused DEF CreateDraft, memory, run, budget, Supervised
  <1>3. CASE Crash
    <2>1. \A h \in Requests : pc'[h] \in {"idle", "dead"}
      BY <1>3 DEF Crash
    <2> QED
      BY <1>3, <2>1, SupervisedExcused DEF Crash, Supervised
  <1>4. CASE Recover
    <2>1. status' # "running"
      BY <1>4 DEF Recover
    <2> QED
      BY <1>4, <2>1, SupervisedExcused DEF Recover, run, budget, Supervised
  <1>5. ASSUME NEW h \in Requests,
               Create(h) \/ \E id \in RequestIds \cup {NoId} : Continue(h, id)
        PROVE  Supervised'
    <2>1. PICK l \in {"created", "accepted"} : Go(h, l) /\ faults' = faults
      BY <1>5 DEF Create, Continue, budget
    <2>2. pc'[h] \in Answerable
      BY <2>1 DEF Go, Answerable
    <2> QED
      BY <2>1, <2>2, SupervisedExcused DEF Go, Supervised
  <1>6. ASSUME NEW h \in Requests,
               \/ Abandon(h) \/ Register(h) \/ Snapshot(h) \/ Reset(h) \/ Start(h)
               \/ Message(h) \/ Save(h) \/ Open(h) \/ Settle(h) \/ EndTurn(h)
        PROVE  Supervised'
    <2>1. UNCHANGED <<status, host, faults>>
      BY <1>6 DEF Abandon, Register, Snapshot, Reset, Start, Message, Save,
         Open, Settle, EndTurn, stored, memory, budget
    <2>2. PICK l \in {"gone", "setup", "reset", "start", "message", "save", "open",
                      "loop", "end", "finish"} : Go(h, l)
      BY <1>6 DEF Abandon, Register, Snapshot, Reset, Start, Message, Save,
         Open, Settle, EndTurn
    <2> QED
      BY <2>1, <2>2, SupervisedGoes DEF Answerable
  <1>7. ASSUME NEW h \in Requests, Round(h) \/ Answer(h) \/ GiveUp(h)
        PROVE  Supervised'
    <2>1. UNCHANGED <<status, host, faults>>
      BY <1>7 DEF Round, Answer, GiveUp, stored, memory, budget
    <2>2. CASE pc' = pc
      BY <2>1, <2>2, <1>1
    <2>3. CASE Go(h, "ending")
      BY <2>1, <2>3, SupervisedGoes DEF Answerable
    <2> QED
      BY <1>7, <2>2, <2>3 DEF Round, Answer, GiveUp
  <1>8. ASSUME NEW h \in Requests, Finish(h) PROVE Supervised'
    <2>1. status' # "running" /\ faults' = faults /\ Go(h, "cleanup")
      BY <1>8 DEF Finish, Terminal, budget
    <2> QED
      BY <2>1, SupervisedExcused DEF Go, Supervised
  <1>9. ASSUME NEW h \in Requests, WorkerFails(h) PROVE Supervised'
    <2>1. faults' = faults + 1 /\ Go(h, "fail")
      BY <1>9 DEF WorkerFails, Fault
    <2>2. pc'[h] \in Answerable
      BY <2>1 DEF Go, Answerable
    <2> QED
      BY <2>1, <2>2, SupervisedExcused DEF Supervised
  <1>10. ASSUME NEW h \in Requests, RecordFailure(h) PROVE Supervised'
    <2>1. faults' \in {faults, faults + 1} /\ Go(h, "failfinish") /\ pc[h] = "fail"
      BY <1>10 DEF RecordFailure, Fault
    <2>2. pc'[h] \in Answerable
      BY <2>1 DEF Go, Answerable
    <2> QED
      BY <2>1, <2>2, SupervisedExcused DEF Supervised
  <1>11. ASSUME NEW h \in Requests, FinishFailed(h) PROVE Supervised'
    <2>1. Go(h, "cleanup") /\ pc[h] = "failfinish"
      BY <1>11 DEF FinishFailed
    <2>2. CASE status' = "failed" /\ UNCHANGED faults
      BY <2>1, <2>2, SupervisedExcused DEF Go, Supervised
    <2>3. CASE Fault
      <3>1. faults' >= 2 /\ faults' \in Nat
        BY <2>1, <2>3 DEF Fault, Supervised
      <3> QED
        BY <2>1, <3>1 DEF Go, Supervised, RunningHasRun
    <2> QED
      BY <1>11, <2>2, <2>3 DEF FinishFailed
  <1>12. ASSUME NEW h \in Requests, Cleanup(h) PROVE Supervised'
    <2>1. /\ Go(h, "clear") /\ pc[h] = "cleanup" /\ UNCHANGED <<status, host>>
          /\ faults' \in {faults, faults + 1}
      BY <1>12 DEF Cleanup, Fault, memory
    <2>2. CASE faults' = faults
      BY <2>1, <2>2, SupervisedGoes DEF Answerable
    <2>3. CASE faults' = faults + 1
      <3>1. \A g \in Requests : pc[g] \in Answerable => pc'[g] \in Answerable
        BY <2>1 DEF Go, Answerable
      <3> QED
        BY <2>1, <2>3, <3>1 DEF Go, Supervised, RunningHasRun, Answerable
    <2> QED
      BY <2>1, <2>2, <2>3
  <1>13. ASSUME NEW h \in Requests, Clear(h) PROVE Supervised'
    <2>1. /\ Go(h, "done") /\ pc[h] = "clear"
          /\ UNCHANGED <<status, host, faults>>
      BY <1>13 DEF Clear, stored, budget
    <2> QED
      BY <2>1, SupervisedGoes DEF Answerable
  <1>14. CASE Cancel \/ Interject \/ Stop \/ UNCHANGED vars
    BY <1>14, <1>1 DEF Cancel, Interject, Stop, vars, stored, memory, run, budget
  <1> QED
    BY <1>2, <1>3, <1>4, <1>5, <1>6, <1>7, <1>8, <1>9, <1>10, <1>11, <1>12,
       <1>13, <1>14
    DEF Next, Handler, Proceed

\* Whoever reads 'running' finds a run, an abandoned handler or two failed
\* writes behind it; no interleaving of finish, supervisor, crash and recovery
\* leaves the status behind by itself.
THEOREM RunningIsBacked == Spec => []RunningHasRun
  <1>1. Init => Supervised
    BY DEF Init, Supervised, RunningHasRun
  <1>2. Supervised => RunningHasRun
    BY DEF Supervised
  <1> QED
    BY <1>1, <1>2, SupervisedStep, OwnershipInvariant, PTL DEF Spec

\* cancel_task reaches every run from its spawn to its terminal write.
THEOREM RunsAreReachable == Spec => []Cancellable
  <1>1. Ownership => Cancellable
    BY DEF Ownership
  <1> QED
    BY <1>1, OwnershipInvariant, PTL

-----------------------------------------------------------------------------
(* Rewinding                                                               *)

Seqs == {e.seq : e \in events}

\* A rewind that found all turns to undo, with nobody else at the files, has on
\* its list whatever turn from its own on has changed files.
Covers(this) ==
    this.turn # 0 /\ this.listed /\ this.alone =>
        {t \in changed : t >= this.turn} \subseteq this.todo

Listed == RTypeOK /\ \A c \in Clients : Covers(job[c])

\* Whatever refers to an event finds it.
Refer ==
    /\ window \subseteq Seqs
    /\ \A h \in Requests : mine[h] \subseteq Seqs
    /\ \A h \in Requests : pc[h] \notin WorkerSteps => mine[h] = {}
    /\ \A i \in interjections : i.seq \in Seqs

\* The turn before a snapshot left an event behind, before any of its own.
Footing(t) ==
    t = 1 \/ \E e \in events :
                /\ e.turn = t - 1
                /\ \A f \in events : f.turn >= t => e.seq < f.seq

\* A snapshot refers to events from before its turn.
Backward(s) ==
    /\ s.window \subseteq Seqs
    /\ \A r \in s.window, e \in events : e.turn >= s.turn => r < e.seq
    /\ Footing(s.turn)

\* A turn that has not taken its snapshot yet has no event, the one before has.
Early == {"created", "accepted", "setup"}
Fresh ==
    /\ status = "absent" => events = {}
    /\ \A h \in Requests : pc[h] \in Early =>
          /\ \A e \in events : e.turn < turn[h]
          /\ Footing(turn[h])

\* The turn of an accepted message has an event, will have one, or was given up
\* with the conversation left 'running'.
Begun(t) == \E e \in events : e.turn >= t
Opening  == {"accepted", "gone", "setup", "reset", "start", "fail"}

Replayable ==
    crashes = 0 /\ faults < 2 =>
        /\ host = "up"
        /\ \A h \in Requests : pc[h] = "fail" => faults >= 1
        /\ \A h \in Requests : pc[h] = "gone" =>
              status = "running" /\ \A g \in Requests : pc[g] \notin Holding
        /\ \A a \in admitted :
              \/ Begun(a.turn)
              \/ \E h \in Requests : turn[h] = a.turn /\ pc[h] \in Opening

\* While nothing was accepted beside it, a rewind is alone, has the conversation
\* at rest, starts at the first event of the turns it drops, and holds a window
\* from before that event.
Cuts(this) ==
    /\ host = "up" /\ status \notin {"absent", "running"}
    /\ this.turn \in Turns /\ Footing(this.turn)
    /\ \E e \in events : e.seq = this.start /\ e.turn >= this.turn
    /\ \A e \in events : e.turn >= this.turn => this.start <= e.seq
    /\ \A r \in this.window : r \in Seqs /\ r < this.start

Cut ==
    /\ \A c \in Rewinding : Cuts(job[c])
    /\ \A c, d \in Rewinding : c = d

Careful == /\ Ownership /\ Cut /\ Refer /\ Fresh /\ Replayable
           /\ \A s \in snapshots : Backward(s)

RInv == TypeInv /\ Listed /\ (overlapped \/ Careful)


\* The next turn comes after all there are, right after the last one.
LEMMA NextTurnIs ==
    ASSUME TypeInv
    PROVE  /\ NextTurn \in Nat
           /\ \A e \in events : e.turn < NextTurn
           /\ NextTurn = 1 \/ \E e \in events : e.turn = NextTurn - 1
           /\ \A t \in Nat : Begun(t) => t < NextTurn
  <1> DEFINE turns == {0} \cup {e.turn : e \in events}
             gaps  == {MaxTurn - t : t \in turns}
  <1>1. \A t \in turns : t \in Nat /\ t <= MaxTurn
    BY BoundsAssumption DEF TypeInv, TypeOK, EventType
  <1>2. gaps \subseteq Nat /\ gaps # {}
    BY <1>1, BoundsAssumption
  <1>3. PICK n \in gaps : \A m \in gaps : <<m, n>> \notin OpToRel(<, Nat)
    BY <1>2, NatLessThanWellFounded, WFMin, Zenon
  <1>4. \A i, j \in Nat : i < j => <<i, j>> \in OpToRel(<, Nat)
    BY DEF OpToRel
  <1>5. \A i, j \in Nat : ~ (i < j) => j <= i
    OBVIOUS
  <1>6. \A m \in gaps : n <= m
    BY <1>2, <1>3, <1>4, <1>5
  <1>7. PICK t \in turns : n = MaxTurn - t
    BY <1>3
  <1>8. \A u \in turns : t >= u
    <2> SUFFICES ASSUME NEW u \in turns PROVE t >= u
      OBVIOUS
    <2>1. n <= MaxTurn - u
      BY <1>6
    <2> QED
      BY <1>1, <1>7, <2>1, BoundsAssumption
  <1>9. Max(turns) \in turns /\ \A u \in turns : Max(turns) >= u
    BY <1>8 DEF Max
  <1>10. PICK max : max = Max(turns)
    OBVIOUS
  <1>11. max \in turns /\ max \in Nat /\ (\A u \in turns : max >= u)
         /\ NextTurn = max + 1
    BY <1>1, <1>9, <1>10 DEF NextTurn
  <1>12. \A e \in events : e.turn \in Nat /\ e.turn <= max
    BY <1>1, <1>11
  <1> QED
    BY <1>11, <1>12 DEF Begun

LEMMA MinIs ==
    ASSUME NEW S, S \subseteq Nat, S # {}
    PROVE  Min(S) \in S /\ \A x \in S : Min(S) <= x
  <1>1. PICK n \in S : \A m \in S : <<m, n>> \notin OpToRel(<, Nat)
    BY NatLessThanWellFounded, WFMin, Zenon
  <1>2. \A i, j \in Nat : i < j => <<i, j>> \in OpToRel(<, Nat)
    BY DEF OpToRel
  <1>3. \A i, j \in Nat : ~ (i < j) => j <= i
    OBVIOUS
  <1>4. \A m \in S : n <= m
    BY <1>1, <1>2, <1>3
  <1> QED
    BY <1>4 DEF Min

\* What a step of the service appends: an event of no turn, one of the run that
\* holds the conversation, or the turn/end of the recovery.
Runs(h) == pc[h] \in Holding \ Early
LEMMA GrowIs ==
    ASSUME TypeInv, [Next]_vars
    PROVE  /\ events \subseteq events'
           /\ \A e \in events' \ events :
                 \/ e.turn = 0
                 \/ e.seq > highWater /\ ((\E h \in Requests : Runs(h)) \/ host = "down")
  <1> DEFINE Goal == /\ events \subseteq events'
                     /\ \A e \in events' \ events :
                          \/ e.turn = 0
                          \/ e.seq > highWater /\ ((\E h \in Requests : Runs(h))
                                                   \/ host = "down")
  <1>1. ASSUME UNCHANGED events PROVE Goal
    BY <1>1
  <1>2. ASSUME NEW kind, NEW t, NEW reason, Append(kind, t, reason),
               t = 0 \/ (\E h \in Requests : Runs(h)) \/ host = "down"
        PROVE  Goal
    <2>1. PICK new : new = Event(1, kind, t, reason, 0)
      OBVIOUS
    <2>2. events' = events \cup {new} /\ new.turn = t /\ new.seq = highWater + 1
      BY <1>2, <2>1 DEF Append, Event
    <2>3. highWater \in Nat
      BY DEF TypeInv, TypeOK
    <2> QED
      BY <1>2, <2>2, <2>3
  <1>3. ASSUME NEW h \in Requests, Deliver(h) PROVE Goal
    <2> DEFINE Place(s) == Cardinality({r \in Waiting : r <= s})
               new == {Event(Place(s), "user/interjection_delivered", 0, "none", s) :
                           s \in Waiting}
    <2>1. events' = events \cup new
      BY <1>3 DEF Deliver
    <2> HIDE DEF Place
    <2>2. \A e \in new : e.turn = 0
      BY DEF Event
    <2> HIDE DEF new
    <2> QED
      BY <2>1, <2>2
  <1>4. ASSUME NEW h \in Requests, Proceed(h) PROVE Goal
    <2>1. Runs(h) \/ UNCHANGED events
      BY <1>4 DEF Proceed, Runs, Early, Register, Snapshot, Reset, Start, Message,
         Save, Open, Settle, EndTurn, Finish, RecordFailure, FinishFailed,
         Cleanup, Clear, stored
    <2>2. UNCHANGED events \/ \E kind, t, reason : Append(kind, t, reason)
      BY <1>4 DEF Proceed, Register, Snapshot, Reset, Start, Message,
         Save, Open, Settle, EndTurn, Finish, RecordFailure, FinishFailed,
         Cleanup, Clear, stored
    <2> QED
      BY <1>1, <1>2, <2>1, <2>2
  <1>5. ASSUME NEW h \in Requests, Answer(h) PROVE Goal
    <2>1. Runs(h)
      BY <1>5 DEF Answer, Runs, Early
    <2>2. UNCHANGED events \/ Append("task/returned", turn[h], "none")
      BY <1>5 DEF Answer
    <2> QED
      BY <1>1, <1>2, <2>1, <2>2
  <1>6. ASSUME NEW h \in Requests, Round(h) PROVE Goal
    BY <1>3, <1>6 DEF Round
  <1>7. CASE Interject
    BY <1>2, <1>7 DEF Interject
  <1>8. CASE Recover
    BY <1>1, <1>2, <1>8 DEF Recover
  <1>9. ASSUME NEW h \in Requests,
               Handler(h) \/ Abandon(h) \/ GiveUp(h) \/ WorkerFails(h)
        PROVE  UNCHANGED events
    BY <1>9 DEF Handler, Create, Continue, Abandon, GiveUp, WorkerFails, stored
  <1>10. CASE CreateDraft \/ Cancel \/ Stop \/ Crash \/ UNCHANGED vars
    BY <1>1, <1>10 DEF CreateDraft, Cancel, Stop, Crash, vars, stored
  <1> QED
    BY <1>1, <1>4, <1>5, <1>6, <1>7, <1>8, <1>9, <1>10 DEF Next


LEMMA SeqsGrow ==
    ASSUME TypeInv, [Next]_vars PROVE Seqs \subseteq Seqs'
  BY GrowIs DEF Seqs

LEMMA ReferStep ==
    ASSUME TypeInv, Refer, [Next]_vars PROVE Refer'
  <1> USE DEF Refer
  <1>1. Seqs \subseteq Seqs' /\ mine \in [Requests -> SUBSET Nat]
        /\ pc \in [Requests -> Labels]
    BY SeqsGrow DEF TypeInv, TypeOK
  <1>2. ASSUME UNCHANGED <<window, mine, interjections, pc>> PROVE Refer'
    BY <1>1, <1>2
  \* A run that moves on within the worker, or elsewhere with nothing in mind.
  <1>3. ASSUME NEW h \in Requests, NEW l \in Labels, Go(h, l),
               UNCHANGED <<window, mine, interjections>>,
               l \in WorkerSteps \/ pc[h] \notin WorkerSteps
        PROVE  Refer'
    BY <1>1, <1>3 DEF Go
  <1>4. ASSUME NEW h \in Requests, NEW l \in Labels, Go(h, l),
               mine' = [mine EXCEPT ![h] = {}], UNCHANGED <<window, interjections>>
        PROVE  Refer'
    BY <1>1, <1>4 DEF Go
  <1>5. ASSUME NEW h \in Requests, Reset(h) PROVE Refer'
    BY <1>1, <1>5 DEF Reset, Go
  <1>6. ASSUME NEW h \in Requests, Message(h) PROVE Refer'
    <2>1. highWater + 1 \in Seqs'
      BY <1>6 DEF Message, Append, Event, Seqs
    <2> QED
      BY <1>1, <1>6, <2>1 DEF Message, Go
  <1>7. ASSUME NEW h \in Requests, Save(h) PROVE Refer'
    BY <1>1, <1>7 DEF Save, Go
  <1>8. ASSUME NEW h \in Requests, Round(h) PROVE Refer'
    <2>1. Waiting \subseteq Seqs
      BY DEF Pending
    <2>2. \A i \in interjections' : i.seq \in Seqs
      <3>1. interjections' = {Marked(i) : i \in interjections}
        BY <1>8 DEF Round, Deliver
      <3>2. ASSUME NEW i \in interjections PROVE Marked(i).seq = i.seq
        BY DEF TypeInv, TypeOK
      <3> QED
        BY <3>1, <3>2
    <2>3. /\ mine' = [mine EXCEPT ![h] = @ \cup Waiting]
          /\ window' \in {window, mine[h] \cup Waiting}
          /\ pc[h] = "loop" /\ (pc' = pc \/ Go(h, "ending"))
      BY <1>8 DEF Round, Deliver
    <2> QED
      BY <1>1, <2>1, <2>2, <2>3 DEF Go
  <1>9. CASE Interject
    <2>1. highWater + 1 \in Seqs'
      BY <1>9 DEF Interject, Append, Event, Seqs
    <2> QED
      BY <1>1, <1>9, <2>1 DEF Interject, memory, run
  <1>10. CASE Crash
    BY <1>1, <1>10 DEF Crash, stored
  <1>11. ASSUME NEW h \in Requests,
                Handler(h) \/ Abandon(h) \/ Answer(h) \/ GiveUp(h)
         PROVE  Refer'
    <2>1. UNCHANGED <<window, mine, interjections>>
      BY <1>11 DEF Handler, Create, Continue, Abandon, Answer, GiveUp, stored
    <2>2. \E l \in Labels : Go(h, l) /\ (l \in WorkerSteps \/ pc[h] \notin WorkerSteps)
      BY <1>11 DEF Handler, Create, Continue, Abandon, Answer, GiveUp
    <2> QED
      BY <1>3, <2>1, <2>2
  <1>12. ASSUME NEW h \in Requests, Finish(h) \/ WorkerFails(h) PROVE Refer'
    BY <1>4, <1>12 DEF Finish, WorkerFails, stored
  <1>13. ASSUME NEW h \in Requests,
                Register(h) \/ Snapshot(h) \/ Start(h) \/ Open(h) \/ Settle(h)
                \/ EndTurn(h) \/ RecordFailure(h) \/ FinishFailed(h)
                \/ Cleanup(h) \/ Clear(h)
         PROVE  Refer'
    <2>1. UNCHANGED <<window, mine, interjections>>
      BY <1>13 DEF Register, Snapshot, Start, Open, Settle, EndTurn,
         RecordFailure, FinishFailed, Cleanup, Clear, stored
    <2>2. \E l \in Labels : Go(h, l) /\ (l \in WorkerSteps \/ pc[h] \notin WorkerSteps)
      BY <1>13 DEF Register, Snapshot, Start, Open, Settle, EndTurn,
         RecordFailure, FinishFailed, Cleanup, Clear
    <2> QED
      BY <1>3, <2>1, <2>2
  <1>14. CASE CreateDraft \/ Cancel \/ Stop \/ Recover \/ UNCHANGED vars
    BY <1>2, <1>14 DEF CreateDraft, Cancel, Stop, Recover, vars, stored, run
  <1> QED
    BY <1>5, <1>6, <1>7, <1>8, <1>9, <1>10, <1>11, <1>12, <1>13, <1>14
       DEF Next, Proceed

\* Appending cannot come before what a snapshot refers to.
LEMMA FootingStays ==
    ASSUME TypeInv, [Next]_vars, NEW t \in Turns, Footing(t)
    PROVE  Footing(t)'
  <1>1. CASE t = 1
    BY <1>1 DEF Footing
  <1>2. CASE t # 1
    <2>1. PICK e \in events : e.turn = t - 1
                              /\ \A f \in events : f.turn >= t => e.seq < f.seq
      BY <1>2 DEF Footing
    <2>2. e \in events' /\ e.seq <= highWater /\ e.seq \in Nat /\ highWater \in Nat
      BY GrowIs DEF TypeInv, TypeOK, EventType
    <2>3. ASSUME NEW f \in events', f.turn >= t PROVE e.seq < f.seq
      <3>1. CASE f \in events
        BY <2>1, <2>3, <3>1
      <3>2. CASE f \notin events
        <4>1. f.turn # 0
          BY <2>3, BoundsAssumption DEF Turns
        <4>2. f.seq > highWater /\ f.seq \in Nat
          <5>1. TypeInv'
            BY TypeInvStep
          <5> QED
            BY <3>2, <4>1, <5>1, GrowIs DEF TypeInv, TypeOK, EventType
        <4> QED
          BY <2>2, <4>2
      <3> QED
        BY <3>1, <3>2
    <2> QED
      BY <2>1, <2>2, <2>3 DEF Footing
  <1> QED
    BY <1>1, <1>2

LEMMA BackwardStays ==
    ASSUME TypeInv, [Next]_vars, NEW s \in snapshots, Backward(s)
    PROVE  Backward(s)'
  <1>1. s.turn \in Turns /\ s.window \subseteq Nat
    BY DEF TypeInv, TypeOK
  <1>2. Footing(s.turn)'
    BY <1>1, FootingStays DEF Backward
  <1>3. s.window \subseteq Seqs'
    BY SeqsGrow DEF Backward
  <1>4. ASSUME NEW r \in s.window, NEW e \in events', e.turn >= s.turn
        PROVE  r < e.seq
    <2>1. CASE e \in events
      BY <1>4, <2>1 DEF Backward
    <2>2. CASE e \notin events
      <3>1. TypeInv'
        BY TypeInvStep
      <3>2. e.seq > highWater /\ e.seq \in Nat
        <4>1. e.turn # 0
          BY <1>1, <1>4, BoundsAssumption DEF Turns
        <4> QED
          BY <2>2, <3>1, <4>1, GrowIs DEF TypeInv, TypeOK, EventType
      <3>3. r \in Nat /\ r <= highWater /\ highWater \in Nat
        BY <1>1 DEF Backward, Seqs, TypeInv, TypeOK
      <3> QED
        BY <3>2, <3>3
    <2> QED
      BY <2>1, <2>2
  <1> QED
    BY <1>2, <1>3, <1>4 DEF Backward

LEMMA BackwardStep ==
    ASSUME TypeInv, Careful, [Next]_vars
    PROVE  \A s \in snapshots' : Backward(s)'
  <1>1. \A s \in snapshots : Backward(s)'
    BY BackwardStays DEF Careful
  <1>2. ASSUME NEW h \in Requests, Snapshot(h)
        PROVE  \A s \in snapshots' : Backward(s)'
    <2>1. PICK new : new = [turn |-> turn[h], window |-> window]
      OBVIOUS
    <2>2. snapshots' \subseteq snapshots \cup {new} /\ UNCHANGED events
          /\ new.turn = turn[h] /\ new.window = window /\ pc[h] = "setup"
      BY <1>2, <2>1 DEF Snapshot
    <2>3. turn[h] \in Turns
      BY <2>2 DEF TypeInv
    <2>4. (\A e \in events : e.turn < turn[h]) /\ Footing(turn[h])
      BY <2>2 DEF Careful, Fresh, Early
    <2>5. \A e \in events : e.turn \in Nat
      BY DEF TypeInv, TypeOK, EventType
    <2>6. ~(\E e \in events : e.turn >= turn[h])
      BY <2>3, <2>4, <2>5, BoundsAssumption DEF Turns
    <2>7. new.window \subseteq Seqs' /\ Footing(new.turn)'
      BY <2>2, <2>4 DEF Careful, Refer, Seqs, Footing
    <2>8. Backward(new)'
      BY <2>2, <2>6, <2>7 DEF Backward
    <2> QED
      BY <1>1, <2>2, <2>8
  <1>3. UNCHANGED snapshots \/ \E h \in Requests : Snapshot(h)
    BY DEF Next, Handler, Proceed, Create, Continue, Abandon, Register, Reset,
       Start, Message, Save, Open, Settle, EndTurn, Finish, RecordFailure,
       FinishFailed, Cleanup, Clear, Round, Answer, GiveUp, WorkerFails,
       CreateDraft, Cancel, Interject, Stop, Crash, Recover, vars, stored
  <1> QED
    BY <1>1, <1>2, <1>3

\* The early phases are entered by the handlers only.
LEMMA EarlyFrom ==
    ASSUME TypeInv, [Next]_vars, NEW h \in Requests, pc'[h] \in Early
    PROVE  \/ Handler(h)
           \/ pc[h] \in Early /\ turn'[h] = turn[h]
  <1> USE DEF Early
  <1>1. pc \in [Requests -> Labels] /\ turn \in [Requests -> 0..MaxTurn]
    BY DEF TypeInv, TypeOK
  <1>2. ASSUME NEW g \in Requests, NEW l \in Labels, Go(g, l), UNCHANGED turn,
               l = "setup" => pc[g] \in Early, l \notin {"created", "accepted"}
        PROVE  pc[h] \in Early /\ turn'[h] = turn[h]
    BY <1>1, <1>2 DEF Go
  <1>3. ASSUME NEW g \in Requests, Handler(g), g # h
        PROVE  pc[h] \in Early /\ turn'[h] = turn[h]
    BY <1>1, <1>3 DEF Handler, Create, Continue, Go
  <1>4. ASSUME NEW g \in Requests, Register(g)
        PROVE  pc[h] \in Early /\ turn'[h] = turn[h]
    BY <1>2, <1>4 DEF Register
  <1>5. ASSUME NEW g \in Requests, Proceed(g), ~Register(g)
        PROVE  \E l \in Labels \ Early : Go(g, l) /\ UNCHANGED turn
    BY <1>5 DEF Proceed, Snapshot, Reset, Start, Message, Save, Open, Settle,
       EndTurn, Finish, RecordFailure, FinishFailed, Cleanup, Clear
  <1>6. ASSUME NEW g \in Requests, Abandon(g) \/ Answer(g) \/ GiveUp(g) \/ WorkerFails(g)
        PROVE  \E l \in Labels \ Early : Go(g, l) /\ UNCHANGED turn
    BY <1>6 DEF Abandon, Answer, GiveUp, WorkerFails
  <1>7. ASSUME NEW g \in Requests, Round(g)
        PROVE  pc[h] \in Early /\ turn'[h] = turn[h]
    BY <1>1, <1>7 DEF Round, Go
  <1>8. CASE Crash
    BY <1>1, <1>8 DEF Crash
  <1>9. CASE CreateDraft \/ Cancel \/ Interject \/ Stop \/ Recover \/ UNCHANGED vars
    BY <1>9 DEF CreateDraft, Cancel, Interject, Stop, Recover, vars, run
  <1> QED
    BY <1>2, <1>3, <1>4, <1>5, <1>6, <1>7, <1>8, <1>9 DEF Next

\* A conversation that is still absent has no events, and stays without.
LEMMA AbsentStays ==
    ASSUME Ownership, [Next]_vars, status' = "absent"
    PROVE  status = "absent" /\ UNCHANGED events
  <1>1. status = "absent"
    <2>1. ASSUME NEW h \in Requests, Handler(h) PROVE FALSE
      BY <2>1 DEF Handler, Create, Continue
    <2>2. ASSUME NEW h \in Requests, Proceed(h) PROVE status = "absent"
      <3>1. CASE Finish(h)
        BY <3>1 DEF Finish, Ownership, ControlType, Terminal
      <3>2. CASE ~Finish(h)
        BY <2>2, <3>2 DEF Proceed, Register, Snapshot, Reset, Start, Message,
           Save, Open, Settle, EndTurn, RecordFailure, FinishFailed, Cleanup,
           Clear, stored
      <3> QED
        BY <3>1, <3>2
    <2>3. ASSUME NEW h \in Requests,
                 Abandon(h) \/ Round(h) \/ Answer(h) \/ GiveUp(h) \/ WorkerFails(h)
          PROVE  status = "absent"
      BY <2>3 DEF Abandon, Round, Answer, GiveUp, WorkerFails, stored
    <2>4. CASE CreateDraft \/ Cancel \/ Interject \/ Stop \/ Crash \/ Recover
               \/ UNCHANGED vars
      BY <2>4 DEF CreateDraft, Cancel, Interject, Stop, Crash, Recover, vars, stored
    <2> QED
      BY <2>1, <2>2, <2>3, <2>4 DEF Next
  <1>2. \A h \in Requests : pc[h] \notin Holding
    BY <1>1 DEF Ownership, HoldingIsRunning
  <1>3. ASSUME NEW h \in Requests, Handler(h) \/ Abandon(h) \/ Proceed(h) \/ GiveUp(h)
                                   \/ WorkerFails(h)
        PROVE  UNCHANGED events
    BY <1>2, <1>3 DEF Handler, Create, Continue, Abandon, GiveUp, WorkerFails,
       Proceed, Register, Snapshot, Reset, Start, Message, Save, Open, Settle,
       EndTurn, Finish, RecordFailure, FinishFailed, Cleanup, Clear, stored
  <1>4. ASSUME NEW h \in Requests PROVE ~Round(h) /\ ~Answer(h)
    BY <1>2 DEF Round, Answer
  <1>5. CASE CreateDraft \/ Cancel \/ Interject \/ Stop \/ Crash \/ Recover
             \/ UNCHANGED vars
    BY <1>1, <1>5 DEF CreateDraft, Cancel, Interject, Stop, Crash, Recover, vars,
       stored
  <1> QED
    BY <1>1, <1>3, <1>4, <1>5 DEF Next

LEMMA FreshStep ==
    ASSUME TypeInv, Careful, [Next]_vars PROVE Fresh'
  <1>1. Ownership /\ Fresh
    BY DEF Careful
  <1>2. status' = "absent" => events' = {}
    BY <1>1, AbsentStays DEF Fresh
  <1>3. ASSUME NEW h \in Requests, pc'[h] \in Early
        PROVE  (\A e \in events' : e.turn < turn'[h]) /\ Footing(turn[h])'
    <2>1. CASE Create(h)
      <3>1. events' = {} /\ turn'[h] = 1
        BY <1>1, <2>1 DEF Fresh, Create, TypeInv, TypeOK
      <3> QED
        BY <3>1 DEF Footing
    <2>2. ASSUME NEW id, Continue(h, id)
          PROVE  (\A e \in events' : e.turn < turn'[h]) /\ Footing(turn[h])'
      <3>1. PICK n : n = NextTurn
        OBVIOUS
      <3>2. events' = events /\ turn'[h] = n
        BY <2>2, <3>1 DEF Continue, TypeInv, TypeOK
      <3>3. n \in Nat /\ (\A e \in events : e.turn \in Nat /\ e.turn < n)
            /\ (n = 1 \/ \E e \in events : e.turn = n - 1)
        BY <3>1, NextTurnIs DEF TypeInv, TypeOK, EventType
      <3>4. \A e \in events : ~(e.turn >= n)
        BY <3>3
      <3> QED
        BY <3>2, <3>3, <3>4 DEF Footing
    <2>3. CASE pc[h] \in Early /\ turn'[h] = turn[h]
      <3>1. PICK t : t = turn[h]
        OBVIOUS
      <3>2. t \in Turns /\ turn'[h] = t
        BY <2>3, <3>1 DEF TypeInv, Early
      <3>3. (\A e \in events : e.turn < t) /\ Footing(t)
        BY <1>1, <2>3, <3>1 DEF Fresh
      <3>4. Footing(t)'
        BY <3>2, <3>3, FootingStays
      <3>5. ~(\E g \in Requests : Runs(g)) /\ host # "down"
        BY <1>1, <2>3 DEF Runs, Early, Ownership, OneRun, DownIsQuiet
      <3>6. \A e \in events' \ events : e.turn = 0
        BY <3>5, GrowIs
      <3>7. 0 < t
        BY <3>2, BoundsAssumption DEF Turns
      <3>8. \A e \in events' : e.turn < t
        BY <3>3, <3>6, <3>7
      <3> QED
        BY <3>2, <3>4, <3>8 DEF Footing
    <2> QED
      BY <1>3, <2>1, <2>2, <2>3, EarlyFrom DEF Handler
  <1> QED
    BY <1>2, <1>3 DEF Fresh

LEMMA CountsGrow ==
    ASSUME TypeInv, [Next]_vars
    PROVE  /\ faults' \in Nat /\ faults <= faults'
           /\ crashes' \in Nat /\ crashes <= crashes'
           /\ Crash => crashes' >= 1
  <1>1. faults \in Nat /\ crashes \in Nat
    BY BoundsAssumption DEF TypeInv, TypeOK
  <1>2. CASE Crash
    BY <1>1, <1>2 DEF Crash
  <1>3. CASE UNCHANGED budget \/ (Fault /\ UNCHANGED crashes)
    <2>1. \/ faults' = faults /\ crashes' = crashes
          \/ faults' = faults + 1 /\ crashes' = crashes
      BY <1>3 DEF Fault, budget
    <2> QED
      BY <1>1, <1>2, <2>1
  <1>4. ASSUME NEW h \in Requests,
               Handler(h) \/ Abandon(h) \/ Proceed(h) \/ Round(h) \/ Answer(h)
               \/ GiveUp(h) \/ WorkerFails(h)
        PROVE  UNCHANGED budget \/ (Fault /\ UNCHANGED crashes)
    BY <1>4 DEF Handler, Create, Continue, Abandon, Proceed, Register, Snapshot,
       Reset, Start, Message, Save, Open, Settle, EndTurn, Finish, RecordFailure,
       FinishFailed, Cleanup, Clear, Round, Answer, GiveUp, WorkerFails, budget
  <1>5. CASE CreateDraft \/ Cancel \/ Interject \/ Stop \/ Recover \/ UNCHANGED vars
    BY <1>3, <1>5 DEF CreateDraft, Cancel, Interject, Stop, Recover, vars
  <1> QED
    BY <1>2, <1>3, <1>4, <1>5 DEF Next

\* How the opening of a turn goes on.
LEMMA OpeningGoes ==
    ASSUME TypeInv, [Next]_vars, NEW h \in Requests, pc[h] \in Opening
    PROVE  \/ pc'[h] \in Opening /\ turn'[h] = turn[h]
           \/ Start(h) \/ RecordFailure(h) \/ Crash
  <1> USE DEF Opening
  <1> DEFINE Stays == pc'[h] \in Opening /\ turn'[h] = turn[h]
  <1>1. pc \in [Requests -> Labels] /\ turn \in [Requests -> 0..MaxTurn]
    BY DEF TypeInv, TypeOK
  <1>2. ASSUME NEW g \in Requests, NEW l \in Labels, Go(g, l), UNCHANGED turn,
               g # h \/ l \in Opening
        PROVE  Stays
    BY <1>1, <1>2 DEF Go
  <1>3. ASSUME NEW g \in Requests, Handler(g) PROVE Stays
    <2>1. g # h
      BY <1>3 DEF Handler, Create, Continue
    <2> QED
      BY <1>1, <1>3, <2>1 DEF Handler, Create, Continue, Go
  <1>4. ASSUME NEW g \in Requests, Proceed(g), ~Start(g), ~RecordFailure(g)
        PROVE  \E l \in Labels : Go(g, l) /\ UNCHANGED turn
                                 /\ (pc[g] \notin Opening \/ l \in Opening)
    BY <1>4 DEF Proceed, Register, Snapshot, Reset, Message, Save, Open, Settle,
       EndTurn, Finish, FinishFailed, Cleanup, Clear
  <1>5. ASSUME NEW g \in Requests, Start(g) \/ RecordFailure(g), g # h PROVE Stays
    BY <1>2, <1>5 DEF Start, RecordFailure
  <1>6. ASSUME NEW g \in Requests, Abandon(g) \/ Answer(g) \/ GiveUp(g) \/ WorkerFails(g)
        PROVE  \E l \in Labels : Go(g, l) /\ UNCHANGED turn
                                 /\ (pc[g] \notin Opening \/ l \in Opening)
    BY <1>6 DEF Abandon, Answer, GiveUp, WorkerFails
  <1>7. ASSUME NEW g \in Requests, Round(g) PROVE Stays
    <2>1. g # h
      BY <1>7 DEF Round
    <2> QED
      BY <1>1, <1>7, <2>1 DEF Round, Go
  <1>8. CASE CreateDraft \/ Cancel \/ Interject \/ Stop \/ Recover \/ UNCHANGED vars
    BY <1>8 DEF CreateDraft, Cancel, Interject, Stop, Recover, vars, run
  <1> QED
    BY <1>2, <1>3, <1>4, <1>5, <1>6, <1>7, <1>8 DEF Next

\* A conversation that was given up while 'running' stays so, with nobody in it.
LEMMA GoneStays ==
    ASSUME TypeInv, Ownership, [Next]_vars, host = "up", ~Crash, status = "running",
           \A g \in Requests : pc[g] \notin Holding
    PROVE  status' = "running" /\ \A g \in Requests : pc'[g] \notin Holding
  <1> DEFINE Goal == status' = "running" /\ \A g \in Requests : pc'[g] \notin Holding
  <1>1. pc \in [Requests -> Labels]
    BY DEF TypeInv, TypeOK
  <1>2. ASSUME NEW h \in Requests PROVE ~Handler(h)
    BY <1>2 DEF Handler, Create, Continue, Accepting, Terminal
  <1>3. ASSUME NEW h \in Requests, Proceed(h) PROVE Cleanup(h) \/ Clear(h)
    BY <1>3 DEF Proceed, Register, Snapshot, Reset, Start, Message, Save, Open,
       Settle, EndTurn, Finish, RecordFailure, FinishFailed
  <1>4. ASSUME NEW h \in Requests, Cleanup(h) \/ Clear(h) PROVE Goal
    BY <1>1, <1>4 DEF Cleanup, Clear, Go, stored
  <1>5. ASSUME NEW h \in Requests
        PROVE  ~Abandon(h) /\ ~Round(h) /\ ~Answer(h) /\ ~GiveUp(h) /\ ~WorkerFails(h)
    BY DEF Abandon, Round, Answer, GiveUp, WorkerFails
  <1>6. CASE CreateDraft \/ Cancel \/ Interject \/ Stop \/ Recover \/ UNCHANGED vars
    BY <1>6 DEF CreateDraft, Cancel, Interject, Stop, Recover, vars, run, stored
  <1> QED
    BY <1>2, <1>3, <1>4, <1>5, <1>6 DEF Next

LEMMA BegunStays ==
    ASSUME TypeInv, [Next]_vars, NEW t, Begun(t) PROVE Begun(t)'
  BY GrowIs DEF Begun

LEMMA ReplayableStep ==
    ASSUME TypeInv, Careful, [Next]_vars PROVE Replayable'
  <1> SUFFICES ASSUME crashes' = 0, faults' < 2
      PROVE  /\ host' = "up"
             /\ \A h \in Requests : pc'[h] = "fail" => faults' >= 1
             /\ \A h \in Requests : pc'[h] = "gone" =>
                   status' = "running" /\ \A g \in Requests : pc'[g] \notin Holding
             /\ \A a \in admitted' :
                   \/ Begun(a.turn)'
                   \/ \E h \in Requests : turn'[h] = a.turn /\ pc'[h] \in Opening
    BY DEF Replayable, Begun
  <1>1. ~Crash /\ crashes = 0 /\ faults < 2 /\ faults' \in Nat /\ faults \in Nat
        /\ faults <= faults'
    BY CountsGrow, BoundsAssumption DEF TypeInv, TypeOK
  <1>2. /\ host = "up"
        /\ \A h \in Requests : pc[h] = "fail" => faults >= 1
        /\ \A h \in Requests : pc[h] = "gone" =>
              status = "running" /\ \A g \in Requests : pc[g] \notin Holding
        /\ \A a \in admitted :
              \/ Begun(a.turn)
              \/ \E h \in Requests : turn[h] = a.turn /\ pc[h] \in Opening
    BY <1>1 DEF Careful, Replayable
  <1>3. Ownership /\ pc \in [Requests -> Labels] /\ turn \in [Requests -> 0..MaxTurn]
    BY DEF Careful, TypeInv, TypeOK
  <1>4. host' = "up"
    BY <1>1, <1>2 DEF Next, Handler, Create, Continue, Abandon, Proceed, Register,
       Snapshot, Reset, Start, Message, Save, Open, Settle, EndTurn, Finish,
       RecordFailure, FinishFailed, Cleanup, Clear, Round, Answer, GiveUp,
       WorkerFails, CreateDraft, Cancel, Interject, Stop, Recover, vars, memory
  <1>5. ASSUME NEW h \in Requests, pc'[h] = "fail" PROVE faults' >= 1
    <2>1. pc[h] = "fail" \/ WorkerFails(h)
      BY <1>1, <1>3, <1>5 DEF Next, Handler, Create, Continue, Abandon, Proceed,
         Register, Snapshot, Reset, Start, Message, Save, Open, Settle, EndTurn,
         Finish, RecordFailure, FinishFailed, Cleanup, Clear, Round, Answer, GiveUp,
         WorkerFails, CreateDraft, Cancel, Interject, Stop, Recover, vars, run, Go
    <2>2. WorkerFails(h) => faults' = faults + 1
      BY DEF WorkerFails, Fault
    <2> QED
      BY <1>1, <1>2, <2>1, <2>2
  <1>6. ASSUME NEW h \in Requests, pc'[h] = "gone"
        PROVE  status' = "running" /\ \A g \in Requests : pc'[g] \notin Holding
    <2>1. pc[h] = "gone" \/ Abandon(h)
      BY <1>1, <1>3, <1>6 DEF Next, Handler, Create, Continue, Abandon, Proceed,
         Register, Snapshot, Reset, Start, Message, Save, Open, Settle, EndTurn,
         Finish, RecordFailure, FinishFailed, Cleanup, Clear, Round, Answer, GiveUp,
         WorkerFails, CreateDraft, Cancel, Interject, Stop, Recover, vars, run, Go
    <2>2. CASE pc[h] = "gone"
      BY <1>1, <1>2, <1>3, <2>2, GoneStays
    <2>3. CASE Abandon(h)
      <3>1. pc[h] \in Holding /\ status' = status
        BY <2>3 DEF Abandon, stored
      <3>2. status = "running" /\ \A g \in Requests : pc[g] \in Holding => g = h
        BY <1>3, <3>1 DEF Ownership, HoldingIsRunning, OneRun
      <3> QED
        BY <1>3, <2>3, <3>1, <3>2 DEF Abandon, Go
    <2> QED
      BY <2>1, <2>2, <2>3
  <1>7. ASSUME NEW a \in admitted'
        PROVE  \/ Begun(a.turn)'
               \/ \E h \in Requests : turn'[h] = a.turn /\ pc'[h] \in Opening
    <2>1. CASE a \in admitted
      <3>1. CASE Begun(a.turn)
        BY <3>1, BegunStays
      <3>2. ASSUME NEW h \in Requests, turn[h] = a.turn, pc[h] \in Opening
            PROVE  \/ Begun(a.turn)'
                   \/ \E g \in Requests : turn'[g] = a.turn /\ pc'[g] \in Opening
        <4>1. CASE pc'[h] \in Opening /\ turn'[h] = turn[h]
          BY <3>2, <4>1
        <4>2. ASSUME NEW kind, NEW reason, Append(kind, turn[h], reason)
              PROVE  Begun(a.turn)'
          <5>1. PICK new : new = Event(1, kind, turn[h], reason, 0)
            OBVIOUS
          <5>2. new \in events' /\ new.turn = a.turn /\ a.turn \in Nat
            BY <1>3, <3>2, <4>2, <5>1, BoundsAssumption DEF Append, Event
          <5> QED
            BY <5>2 DEF Begun
        <4>3. CASE Start(h)
          BY <4>2, <4>3 DEF Start
        <4>4. CASE RecordFailure(h)
          <5>1. pc[h] = "fail" /\ (Append("turn/end", turn[h], "failed")
                                   \/ faults' = faults + 1)
            BY <4>4 DEF RecordFailure, Fault
          <5>2. faults >= 1
            BY <1>2, <5>1
          <5> QED
            BY <1>1, <4>2, <5>1, <5>2
        <4> QED
          BY <1>1, <3>2, <4>1, <4>3, <4>4, OpeningGoes
      <3> QED
        BY <1>2, <2>1, <3>1, <3>2
    <2>2. CASE a \notin admitted
      <3>1. PICK h \in Requests, id \in RequestIds \cup {NoId} : Continue(h, id)
        BY <2>2 DEF Next, Handler, Create, Abandon, Proceed, Register, Snapshot,
           Reset, Start, Message, Save, Open, Settle, EndTurn, Finish,
           RecordFailure, FinishFailed, Cleanup, Clear, Round, Answer, GiveUp,
           WorkerFails, CreateDraft, Cancel, Interject, Stop, Crash, Recover, vars,
           stored
      <3>2. a.turn = NextTurn
        BY <2>2, <3>1 DEF Continue
      <3>3. turn'[h] = NextTurn /\ pc'[h] = "accepted"
        BY <1>3, <3>1 DEF Continue, Go
      <3> QED
        BY <3>2, <3>3 DEF Opening
    <2> QED
      BY <2>1, <2>2
  <1> QED
    BY <1>4, <1>5, <1>6, <1>7

\* What the service does besides accepting messages and crashing.
Beside ==
    \/ CreateDraft \/ Cancel \/ Interject \/ Stop \/ Recover
    \/ \E h \in Requests :
          \/ Abandon(h) \/ Proceed(h) \/ Round(h) \/ Answer(h)
          \/ GiveUp(h) \/ WorkerFails(h)

\* It leaves a conversation at rest alone.
LEMMA RestStays ==
    ASSUME Ownership, Beside, host = "up", status \notin {"absent", "running"}
    PROVE  UNCHANGED <<events, status, host>>
  <1>1. \A h \in Requests : pc[h] \notin Holding
    BY DEF Ownership, HoldingIsRunning
  <1>2. ASSUME NEW h \in Requests, Proceed(h) PROVE Cleanup(h) \/ Clear(h)
    BY <1>1, <1>2 DEF Proceed, Register, Snapshot, Reset, Start, Message, Save,
       Open, Settle, EndTurn, Finish, RecordFailure, FinishFailed
  <1>3. ASSUME NEW h \in Requests
        PROVE  ~Abandon(h) /\ ~Round(h) /\ ~Answer(h) /\ ~GiveUp(h) /\ ~WorkerFails(h)
    BY <1>1 DEF Abandon, Round, Answer, GiveUp, WorkerFails
  <1>4. ~Interject /\ ~Recover /\ ~CreateDraft
    BY DEF Interject, Recover, CreateDraft
  <1>5. ASSUME Cancel \/ Stop
               \/ \E h \in Requests : Cleanup(h) \/ Clear(h)
        PROVE  UNCHANGED <<events, status, host>>
    BY <1>5 DEF Cancel, Stop, Cleanup, Clear, stored, memory
  <1> QED
    BY <1>2, <1>3, <1>4, <1>5 DEF Beside

\* Beside the steps of the service a rewind drops records at its commit only.
LEMMA StepIs ==
    ASSUME [RNext]_rvars PROVE [Next]_vars \/ \E c \in Clients : RewindCommit(c)
  BY DEF RNext, rvars, Next, ChangeFiles, FailsRecording, UndoTurn, FinishLate,
     RewindCheck, HangUp, RewindUndo, RewindConflict, CreateDraft, Cancel, Interject,
     Stop, Recover, Crash

\* What is left of a rewind beside the end of one, its start and a crash.
Same(this, that) ==
    /\ this.turn = that.turn /\ this.start = that.start
    /\ this.window = that.window

LEMMA BesetIs ==
    ASSUME RTypeOK, NEW c \in Clients
    PROVE  /\ Beset[c] \in Job /\ Same(Beset[c], job[c])
           /\ Beset[c].turn # 0 => ~Beset[c].alone
  <1>1. job[c] \in Job
    BY DEF RTypeOK
  <1>2. CASE c \in Rewinding
    <2>1. Beset[c] = [job[c] EXCEPT !.alone = FALSE]
      BY <1>2 DEF Beset
    <2> QED
      BY <1>1, <2>1 DEF Job, Same
  <1>3. CASE c \notin Rewinding
    <2>1. Beset[c] = job[c] /\ job[c].turn = 0
      BY <1>3 DEF Beset, Rewinding
    <2> QED
      BY <1>1, <2>1 DEF Same
  <1> QED
    BY <1>2, <1>3

LEMMA CutHolds ==
    ASSUME Cut, UNCHANGED <<events, status, host>>,
           \A c \in Clients : job'[c] = NoJob \/ Same(job'[c], job[c])
    PROVE  Cut'
  <1>1. \A c \in Rewinding' : c \in Rewinding /\ Same(job'[c], job[c])
    BY DEF Rewinding, NoJob, Same
  <1>2. ASSUME NEW c \in Rewinding' PROVE Cuts(job[c])'
    <2>1. Cuts(job[c]) /\ Same(job'[c], job[c])
      BY <1>1 DEF Cut
    <2> QED
      BY <2>1 DEF Cuts, Same, Footing, Seqs
  <1> QED
    BY <1>1, <1>2 DEF Cut

\* The snapshot of a turn is from before the turn.
LEMMA CutBegins ==
    ASSUME TypeInv, Careful, NEW c \in Clients, NEW n \in Turns, RewindCheck(c, n),
           RTypeOK, Rewinding = {}
    PROVE  Cut'
  <1> DEFINE later  == {e.seq : e \in {e \in events : e.turn >= n}}
             before == (CHOOSE s \in snapshots : s.turn = n).window
  <1>1. later \subseteq Nat /\ later # {}
    BY DEF RewindCheck, TypeInv, TypeOK, EventType
  <1>2. PICK m : m = Min(later)
    OBVIOUS
  <1>3. m \in later /\ \A x \in later : m <= x
    BY <1>1, <1>2, MinIs
  <1>4. PICK s \in snapshots : s.turn = n /\ before = s.window
    BY DEF RewindCheck
  <1>5. /\ host = "up" /\ status \notin {"absent", "running"}
        /\ UNCHANGED <<events, status, host>>
    BY DEF RewindCheck, vars, stored, memory
  <1>6. /\ job'[c].turn = n /\ job'[c].start = m /\ job'[c].window = s.window
        /\ \A d \in Clients \ {c} : job'[d] = Beset[d]
    BY <1>2, <1>4 DEF RewindCheck, Beset
  <1>7. \A d \in Clients \ {c} : job'[d].turn = 0
    BY <1>6, BesetIs DEF Same, Rewinding
  <1>8. Footing(n) /\ Backward(s)
    BY <1>4 DEF Careful, Backward
  <1>9. \E e \in events : e.seq = m /\ e.turn >= n
    BY <1>3
  <1>10. \A e \in events : e.turn >= n => m <= e.seq
    BY <1>3
  <1>11. \A r \in s.window : r \in Seqs /\ r < m
    BY <1>4, <1>8, <1>9 DEF Backward
  <1>12. Cuts(job[c])'
    BY <1>5, <1>6, <1>8, <1>9, <1>10, <1>11 DEF Cuts, Footing, Seqs
  <1> QED
    BY <1>7, <1>12 DEF Cut, Rewinding

LEMMA CutStep ==
    ASSUME TypeInv, Listed, Careful, [RNext]_rvars, ~overlapped' PROVE Cut'
  <1>1. Ownership /\ Cut /\ RTypeOK /\ job \in [Clients -> Job]
    BY DEF Careful, Listed, RTypeOK
  <1>2. ASSUME Rewinding' = {} PROVE Cut'
    BY <1>2 DEF Cut
  <1>3. ASSUME NEW c \in Clients, RewindConflict(c) \/ RewindCommit(c) PROVE Cut'
    <2>1. c \in Rewinding /\ job'[c] = NoJob /\ \A d \in Clients \ {c} : job'[d] = job[d]
      BY <1>1, <1>3 DEF RewindConflict, RewindCommit, Ends
    <2>2. \A d \in Clients : job'[d].turn = 0
      BY <1>1, <2>1 DEF Cut, Rewinding, NoJob
    <2> QED
      BY <1>2, <2>2 DEF Rewinding
  <1>4. CASE Crash /\ job' = [c \in Clients |-> NoJob]
    BY <1>2, <1>4 DEF Rewinding, NoJob
  <1>5. ASSUME UNCHANGED <<events, status, host>>,
               \/ job' = Beset \/ job' = job
               \/ \E c \in Clients : job' = [job EXCEPT ![c].held = FALSE]
               \/ \E c \in Clients : \E t : job' = [job EXCEPT ![c].todo = @ \ {t}]
        PROVE  Cut'
    <2>1. CASE job' = Beset \/ job' = job
      BY <1>1, <1>5, <2>1, BesetIs, CutHolds DEF Same
    <2>2. ASSUME NEW c \in Clients, NEW this, job' = [job EXCEPT ![c] = this],
                 Same(this, job[c])
          PROVE  Cut'
      <3>1. \A d \in Clients : Same(job'[d], job[d])
        BY <1>1, <2>2 DEF Same
      <3> QED
        BY <1>1, <1>5, <3>1, CutHolds
    <2>3. ASSUME NEW c \in Clients, job' = [job EXCEPT ![c].held = FALSE]
          PROVE  Cut'
      <3>1. Same([job[c] EXCEPT !.held = FALSE], job[c])
        BY <1>1 DEF Same, Job
      <3> QED
        BY <2>2, <2>3, <3>1
    <2>4. ASSUME NEW c \in Clients, NEW t, job' = [job EXCEPT ![c].todo = @ \ {t}]
          PROVE  Cut'
      <3>1. Same([job[c] EXCEPT !.todo = @ \ {t}], job[c])
        BY <1>1 DEF Same, Job
      <3> QED
        BY <2>2, <2>4, <3>1
    <2> QED
      BY <1>5, <2>1, <2>3, <2>4
  <1>6. ASSUME NEW c \in Clients, RewindUndo(c) \/ HangUp(c) PROVE Cut'
    BY <1>5, <1>6 DEF RewindUndo, HangUp, vars, stored, memory
  <1>7. ASSUME NEW c \in Clients, NEW n \in Turns, RewindCheck(c, n) PROVE Cut'
    BY <1>1, <1>7, CutBegins DEF RewindCheck
  <1>8. CASE Rewinding = {} /\ UNCHANGED job
    BY <1>2, <1>8 DEF Rewinding
  <1>9. ASSUME Beside, UNCHANGED job PROVE Cut'
    <2>1. CASE Rewinding # {}
      <3>1. host = "up" /\ status \notin {"absent", "running"}
        BY <1>1, <2>1 DEF Cut, Cuts
      <3>2. UNCHANGED <<events, status, host>>
        BY <1>1, <1>9, <3>1, RestStays
      <3> QED
        BY <1>5, <1>9, <3>2
    <2> QED
      BY <1>8, <1>9, <2>1
  <1>10. ASSUME NEW h \in Requests, FailsRecording(h) PROVE Cut'
    BY <1>9, <1>10 DEF FailsRecording, Beside
  <1>11. ASSUME UNCHANGED vars, job' = Beset \/ job' = job PROVE Cut'
    BY <1>5, <1>11 DEF vars, stored, memory
  <1>12. ASSUME NEW h \in Requests, Handler(h),
                overlapped' = (overlapped \/ Rewinding # {}), UNCHANGED job
         PROVE  Cut'
    BY <1>8, <1>12
  <1>13. ASSUME (\E h \in Requests : ChangeFiles(h)) \/ (\E t \in Turns : UndoTurn(t))
                \/ (\E work \in late : FinishLate(work))
         PROVE  Cut'
    BY <1>11, <1>13 DEF ChangeFiles, UndoTurn, FinishLate
  <1> QED
    BY <1>3, <1>4, <1>6, <1>7, <1>9, <1>10, <1>11, <1>12, <1>13
       DEF RNext, rvars, Beside

LEMMA CommitType ==
    ASSUME TypeInv, RTypeOK, NEW c \in Clients, RewindCommit(c) PROVE TypeInv'
  <1>1. /\ events' \subseteq events /\ snapshots' \subseteq snapshots
        /\ admitted' \subseteq admitted /\ interjections' \subseteq interjections
        /\ deltas' \subseteq deltas
    BY DEF RewindCommit, Kept
  <1>2. status' \in Statuses /\ UNCHANGED <<highWater, memory, run, budget>>
    BY DEF RewindCommit, TypeInv, TypeOK, Statuses
  <1>3. window' \in SUBSET Nat
    BY DEF RewindCommit, Restored, RTypeOK, Job
  <1>4. IsFiniteSet(interjections')
    BY <1>1, FS_Subset DEF TypeInv
  <1>5. UNCHANGED <<highWater, host, active, cancelled, stopped, pc, turn, requestId,
                    mine, outcome, faults, crashes>>
    BY <1>2 DEF memory, run, budget
  <1>6. TypeOK'
    BY <1>1, <1>2, <1>3, <1>5 DEF TypeInv, TypeOK
  <1> QED
    BY <1>1, <1>4, <1>5, <1>6 DEF TypeInv

LEMMA RTypeInvStep ==
    ASSUME TypeInv, RTypeOK, [RNext]_rvars PROVE TypeInv'
  BY StepIs, TypeInvStep, CommitType

LEMMA ListedStep ==
    ASSUME TypeInv, Listed, [RNext]_rvars PROVE Listed'
  <1> DEFINE Works == [turn : Turns, undo : BOOLEAN]
             Goal  == /\ job' \in [Clients -> Job] /\ changed' \subseteq Turns
                      /\ late' \subseteq Works
                      /\ overlapped' \in BOOLEAN /\ lost' \in 0..MaxLost
                      /\ \A c \in Clients : Covers(job[c])'
  <1>1. TypeOK' /\ RTypeOK
    BY RTypeInvStep DEF TypeInv, Listed
  <1>2. /\ job \in [Clients -> Job] /\ changed \subseteq Turns
        /\ late \subseteq Works
        /\ overlapped \in BOOLEAN /\ lost \in 0..MaxLost
        /\ \A c \in Clients : Covers(job[c])
    BY DEF Listed, RTypeOK
  <1>3. NoJob \in Job /\ NoJob.turn = 0 /\ (overlapped \/ Rewinding # {}) \in BOOLEAN
    BY <1>2, BoundsAssumption DEF NoJob, Job
  <1>4. ASSUME Loses PROVE lost' \in 0..MaxLost
    BY <1>2, <1>4, LostAssumption DEF Loses
  <1>5. ASSUME NEW t \in Turns, NEW undo \in BOOLEAN, GoesOn(t, undo)
        PROVE  late' \subseteq Works /\ lost' \in 0..MaxLost
    BY <1>2, <1>4, <1>5 DEF GoesOn
  <1>6. ASSUME NEW h \in Requests, pc[h] = "loop" PROVE turn[h] \in Turns
    BY <1>6 DEF TypeInv
  <1>7. ASSUME job' = Beset, changed' \subseteq Turns, late' \subseteq Works,
               UNCHANGED overlapped, lost' \in 0..MaxLost
        PROVE  Goal
    <2>1. job' \in [Clients -> Job]
      BY <1>1, <1>7, BesetIs DEF Beset
    <2>2. \A c \in Clients : Covers(job[c])'
      BY <1>1, <1>7, BesetIs DEF Covers
    <2> QED
      BY <1>2, <1>7, <2>1, <2>2
  <1>8. ASSUME UNCHANGED <<job, changed>>, late' \subseteq Works,
               overlapped' \in BOOLEAN, lost' \in 0..MaxLost
        PROVE  Goal
    BY <1>2, <1>8 DEF Covers
  <1>9. ASSUME NEW c \in Clients, NEW this \in Job, job' = [job EXCEPT ![c] = this],
               changed' \subseteq changed, late' \subseteq Works,
               overlapped' \in BOOLEAN, lost' \in 0..MaxLost, Covers(this)'
        PROVE  Goal
    <2>1. ASSUME NEW d \in Clients PROVE Covers(job[d])'
      <3>1. CASE d = c
        BY <1>2, <1>9, <3>1 DEF Covers
      <3>2. CASE d # c
        BY <1>2, <1>9, <3>2 DEF Covers
      <3> QED
        BY <3>1, <3>2
    <2> QED
      BY <1>2, <1>9, <2>1
  <1>10. ASSUME NEW c \in Clients, Ends(c), changed' \subseteq changed,
                UNCHANGED <<late, overlapped, lost>>
         PROVE  Goal
    BY <1>2, <1>3, <1>9, <1>10 DEF Ends, Covers
  <1>11. ASSUME NEW h \in Requests, ChangeFiles(h) PROVE Goal
    BY <1>2, <1>6, <1>7, <1>11 DEF ChangeFiles
  <1>12. ASSUME NEW h \in Requests, FailsRecording(h) PROVE Goal
    BY <1>2, <1>5, <1>6, <1>8, <1>12 DEF FailsRecording
  <1>13. ASSUME NEW t \in Turns, UndoTurn(t) PROVE Goal
    BY <1>2, <1>5, <1>7, <1>13 DEF UndoTurn
  <1>14. ASSUME NEW work \in late, FinishLate(work) PROVE Goal
    <2>1. work.turn \in Turns
      BY <1>2
    <2> QED
      BY <1>2, <1>7, <1>14, <2>1 DEF FinishLate
  <1>15. ASSUME NEW c \in Clients, NEW n \in Turns, RewindCheck(c, n) PROVE Goal
    <2> DEFINE later  == {e.seq : e \in {e \in events : e.turn >= n}}
               before == (CHOOSE s \in snapshots : s.turn = n).window
               undo   == {t \in changed : t >= n}
    <2>1. later \subseteq Nat /\ later # {}
      BY <1>15 DEF RewindCheck, TypeInv, TypeOK, EventType
    <2>2. PICK m : m = Min(later)
      OBVIOUS
    <2>3. m \in Nat
      BY <2>1, <2>2, MinIs
    <2>4. before \subseteq Nat
      BY <1>15 DEF RewindCheck, TypeInv, TypeOK
    <2>5. PICK todo \in {undo, {}} :
             job' = [Beset EXCEPT ![c] =
                 [turn |-> n, held |-> TRUE, listed |-> todo = undo,
                  alone |-> Rewinding = {}, start |-> m, window |-> before,
                  todo |-> todo]]
      BY <1>15, <2>2 DEF RewindCheck
    <2> HIDE DEF later, before
    <2>6. n \in 0..MaxTurn /\ todo \subseteq Turns
      BY <1>2, BoundsAssumption DEF Turns
    <2>7. PICK this : this =
                 [turn |-> n, held |-> TRUE, listed |-> todo = undo,
                  alone |-> Rewinding = {}, start |-> m, window |-> before,
                  todo |-> todo]
      OBVIOUS
    <2>8. this \in Job
      BY <2>3, <2>4, <2>6, <2>7 DEF Job
    <2>9. /\ job'[c] = this /\ \A d \in Clients \ {c} : job'[d] = Beset[d]
          /\ DOMAIN job' = Clients /\ UNCHANGED <<changed, late, lost>>
      BY <1>15, <2>5, <2>7 DEF Beset, RewindCheck
    <2>10. job' \in [Clients -> Job]
      <3>1. \A d \in Clients : job'[d] \in Job
        BY <1>1, <2>8, <2>9, BesetIs
      <3>2. job' = [d \in Clients |-> job'[d]]
        BY <2>5 DEF Beset
      <3> QED
        BY <3>1, <3>2
    <2>11. Covers(job[c])'
      <3>1. this.turn = n /\ this.todo = todo /\ this.listed = (todo = undo)
        BY <2>7, Zenon
      <3>2. CASE todo = undo
        BY <2>9, <3>1, <3>2 DEF Covers
      <3>3. CASE todo # undo
        <4>1. this.listed = FALSE
          BY <3>1, <3>3, Zenon
        <4> QED
          BY <2>9, <4>1 DEF Covers
      <3> QED
        BY <3>2, <3>3
    <2>12. ASSUME NEW d \in Clients \ {c} PROVE Covers(job[d])'
      <3>1. Beset[d].turn # 0 => ~Beset[d].alone
        BY <1>1, BesetIs
      <3>2. job'[d] = Beset[d]
        BY <2>9
      <3> QED
        BY <3>1, <3>2 DEF Covers
    <2>13. overlapped' \in BOOLEAN
      BY <1>3, <1>15 DEF RewindCheck
    <2> QED
      BY <1>2, <2>9, <2>10, <2>11, <2>12, <2>13
  <1>16. ASSUME NEW c \in Clients, HangUp(c) PROVE Goal
    <2>1. PICK this : this = [job[c] EXCEPT !.held = FALSE]
      OBVIOUS
    <2>2. this \in Job /\ Covers(this)'
      BY <1>2, <1>16, <2>1 DEF Job, Covers, HangUp
    <2> QED
      BY <1>2, <1>4, <1>9, <1>16, <2>1, <2>2 DEF HangUp
  <1>17. ASSUME NEW c \in Clients, RewindUndo(c) PROVE Goal
    <2>1. PICK u : u = Max(job[c].todo)
      OBVIOUS
    <2>2. PICK this : this = [job[c] EXCEPT !.todo = @ \ {u}]
      OBVIOUS
    <2>3. /\ job' = [job EXCEPT ![c] = this] /\ changed' = changed \ {u}
          /\ UNCHANGED <<late, overlapped, lost>>
      BY <1>17, <2>1, <2>2 DEF RewindUndo
    <2>4. job[c] \in Job /\ Covers(job[c])
      BY <1>2
    <2>5. this \in Job /\ this.todo = job[c].todo \ {u} /\ this.turn = job[c].turn
          /\ this.listed = job[c].listed /\ this.alone = job[c].alone
      BY <2>2, <2>4 DEF Job
    <2>6. Covers(this)'
      BY <2>3, <2>4, <2>5 DEF Covers
    <2> QED
      BY <1>2, <1>9, <2>3, <2>5, <2>6
  <1>18. ASSUME NEW c \in Clients, RewindConflict(c) \/ RewindCommit(c) PROVE Goal
    BY <1>10, <1>18 DEF RewindConflict, RewindCommit
  <1>19. ASSUME job' = [c \in Clients |-> NoJob], late' = {},
                UNCHANGED <<changed, overlapped, lost>>
         PROVE  Goal
    BY <1>2, <1>3, <1>19 DEF Covers
  <1>20. ASSUME UNCHANGED <<job, changed, late, lost>>,
                overlapped' = (overlapped \/ Rewinding # {}) \/ UNCHANGED overlapped
         PROVE  Goal
    BY <1>2, <1>3, <1>8, <1>20
  <1>21. Goal
    BY <1>11, <1>12, <1>13, <1>14, <1>15, <1>16, <1>17, <1>18, <1>19, <1>20
       DEF RNext, rvars
  <1> QED
    BY <1>1, <1>21 DEF Listed, RTypeOK

\* The closing transaction, with the conversation at rest.
LEMMA CommitCareful ==
    ASSUME TypeInv, RTypeOK, Careful, NEW c \in Clients, RewindCommit(c)
    PROVE  Careful'
  <1>1. PICK n, start, kept : n = job[c].turn /\ start = job[c].start
                              /\ kept = job[c].window
    OBVIOUS
  <1>2. c \in Rewinding /\ Cuts(job[c])
    BY DEF RewindCommit, Careful, Cut
  <1>3. /\ n \in Turns /\ Footing(n) /\ status \notin {"absent", "running"} /\ host = "up"
        /\ \A e \in events : e.seq \in Nat /\ e.turn \in Nat
    BY <1>1, <1>2 DEF Cuts, TypeInv, TypeOK, EventType
  <1>4. PICK e0 \in events : e0.seq = start /\ e0.turn >= n
    BY <1>1, <1>2 DEF Cuts
  <1>5. /\ events' = {e \in events : e.seq < start}
        /\ admitted' = {r \in admitted : r.turn < n}
        /\ snapshots' = {r \in snapshots : r.turn < n}
        /\ interjections' = {i \in interjections : i.seq < start}
        /\ window' = kept
        /\ status' \in {"draft", status}
    BY <1>1 DEF RewindCommit, Kept, Restored
  <1>6. UNCHANGED <<host, active, cancelled, stopped, pc, turn, mine, outcome, faults,
                    crashes>>
    BY DEF RewindCommit, memory, run, budget
  <1>7. \A h \in Requests : pc[h] \notin Holding
    BY <1>3 DEF Careful, Ownership, HoldingIsRunning
  \* What came before the turn is on record still.
  <1>8. ASSUME NEW r, r \in Seqs, r < start PROVE r \in Seqs'
    BY <1>5, <1>8 DEF Seqs
  <1>9. ASSUME NEW s \in snapshots, s.turn \in Turns, s.turn <= n, NEW r \in s.window
        PROVE  r \in Seqs'
    <2>1. e0.turn >= s.turn
      BY <1>3, <1>4, <1>9 DEF Turns
    <2>2. r \in Seqs /\ r < start
      BY <1>4, <1>9, <2>1 DEF Careful, Backward
    <2> QED
      BY <1>8, <2>2
  <1>10. \A s \in snapshots : s.turn \in Turns
    BY DEF TypeInv, TypeOK
  <1>11. Cut'
    <2>1. job'[c] = NoJob /\ \A d \in Clients \ {c} : job'[d] = job[d]
      BY DEF RewindCommit, Ends, RTypeOK
    <2>2. \A d \in Clients : job'[d].turn = 0
      BY <1>2, <2>1 DEF Careful, Cut, Rewinding, NoJob
    <2> QED
      BY <2>2 DEF Cut, Rewinding
  <1>12. Ownership'
    <2>1. ControlType' /\ DownIsQuiet'
      BY <1>6 DEF Careful, Ownership, ControlType, DownIsQuiet
    <2> QED
      BY <1>6, <1>7, <2>1 DEF Ownership, OneRun, HoldingIsRunning, Cancellable
  <1>13. Refer'
    <2>1. \A h \in Requests : mine[h] = {}
      BY <1>7 DEF Careful, Refer
    <2>2. window' \subseteq Seqs'
      BY <1>1, <1>2, <1>5, <1>8 DEF Cuts
    <2>3. \A i \in interjections' : i.seq \in Seqs'
      BY <1>5, <1>8 DEF Careful, Refer
    <2> QED
      BY <1>6, <2>1, <2>2, <2>3 DEF Refer
  <1>14. Fresh'
    BY <1>3, <1>5, <1>6, <1>7 DEF Fresh, Early
  <1>15. ASSUME NEW s \in snapshots' PROVE Backward(s)'
    <2>1. s \in snapshots /\ s.turn \in Turns /\ s.turn < n
      BY <1>5, <1>10
    <2>2. Backward(s) /\ e0.turn >= s.turn
      BY <1>3, <1>4, <2>1 DEF Careful, Turns
    <2>3. s.window \subseteq Seqs'
      BY <1>3, <1>9, <2>1 DEF Turns
    <2>4. \A r \in s.window, e \in events' : e.turn >= s.turn => r < e.seq
      BY <1>5, <2>2 DEF Backward
    <2>5. Footing(s.turn)'
      <3>1. CASE s.turn = 1
        BY <3>1 DEF Footing
      <3>2. CASE s.turn # 1
        <4>1. PICK e \in events : e.turn = s.turn - 1
                                  /\ \A f \in events : f.turn >= s.turn => e.seq < f.seq
          BY <2>2, <3>2 DEF Backward, Footing
        <4>2. e \in events'
          BY <1>4, <1>5, <2>2, <4>1
        <4> QED
          BY <1>5, <4>1, <4>2 DEF Footing
      <3> QED
        BY <3>1, <3>2
    <2> QED
      BY <2>3, <2>4, <2>5 DEF Backward
  <1>16. Replayable'
    <2>1. \A h \in Requests : pc[h] = "gone" => ~(crashes = 0 /\ faults < 2)
      BY <1>3 DEF Careful, Replayable
    <2>2. ASSUME NEW a \in admitted' PROVE Begun(a.turn)'
      <3>1. a.turn \in Turns /\ a.turn < n
        BY <1>5 DEF TypeInv, TypeOK
      <3>2. n # 1
        BY <1>3, <3>1 DEF Turns
      <3>3. PICK e \in events : e.turn = n - 1
                                /\ \A f \in events : f.turn >= n => e.seq < f.seq
        BY <1>3, <3>2 DEF Footing
      <3>4. e \in events'
        BY <1>4, <1>5, <3>3
      <3>5. e.turn >= a.turn
        BY <1>3, <3>1, <3>3 DEF Turns
      <3> QED
        BY <3>4, <3>5 DEF Begun
    <2>3. crashes = 0 /\ faults < 2 => \A h \in Requests : pc[h] = "fail" => faults >= 1
      BY DEF Careful, Replayable
    <2> QED
      BY <1>3, <1>6, <2>1, <2>2, <2>3 DEF Replayable
  <1> QED
    BY <1>11, <1>12, <1>13, <1>14, <1>15, <1>16 DEF Careful

LEMMA CarefulStep ==
    ASSUME TypeInv, Listed, Careful, [RNext]_rvars, ~overlapped' PROVE Careful'
  <1>1. CASE [Next]_vars
    <2>1. Ownership'
      BY <1>1, OwnershipStep DEF Careful
    <2>2. Cut'
      BY CutStep
    <2>3. Refer'
      BY <1>1, ReferStep DEF Careful
    <2> QED
      BY <1>1, <2>1, <2>2, <2>3, FreshStep, ReplayableStep, BackwardStep DEF Careful
  <1>2. ASSUME NEW c \in Clients, RewindCommit(c) PROVE Careful'
    BY <1>2, CommitCareful DEF Listed
  <1> QED
    BY <1>1, <1>2, StepIs

LEMMA RInvInit == RInit => RInv
  <1> SUFFICES ASSUME RInit PROVE RInv
    OBVIOUS
  <1>1. Init /\ job = [c \in Clients |-> NoJob] /\ changed = {} /\ late = {}
        /\ overlapped = FALSE /\ lost = 0
    BY DEF RInit
  <1>2. TypeInv /\ Ownership
    BY <1>1, TypeInvInit, OwnershipInit
  <1>3. Listed
    <2>1. TypeOK
      BY <1>2 DEF TypeInv
    <2>2. NoJob \in Job /\ NoJob.turn = 0
      BY BoundsAssumption DEF NoJob, Job
    <2>3. 0 \in 0..MaxLost
      BY LostAssumption
    <2>4. job \in [Clients -> Job] /\ \A c \in Clients : job[c].turn = 0
      BY <1>1, <2>2
    <2> QED
      BY <1>1, <2>1, <2>3, <2>4 DEF Listed, RTypeOK, Covers
  <1>4. Cut
    BY <1>1 DEF Cut, Rewinding, NoJob
  <1>5. /\ events = {} /\ admitted = {} /\ interjections = {} /\ window = {}
        /\ snapshots = {} /\ host = "up"
        /\ \A h \in Requests : pc[h] = "idle" /\ mine[h] = {}
    BY <1>1 DEF Init
  <1>6. Refer /\ Fresh /\ Replayable
    BY <1>5 DEF Refer, Fresh, Early, Replayable
  <1> QED
    BY <1>2, <1>3, <1>4, <1>5, <1>6 DEF RInv, Careful

LEMMA RInvStep == RInv /\ [RNext]_rvars => RInv'
  <1> SUFFICES ASSUME RInv, [RNext]_rvars PROVE RInv'
    OBVIOUS
  <1>1. TypeInv' /\ Listed'
    BY RTypeInvStep, ListedStep DEF RInv, Listed
  <1>2. overlapped => overlapped'
    BY DEF RNext, rvars, ChangeFiles, FailsRecording, UndoTurn, FinishLate,
       RewindCheck, HangUp, RewindUndo, RewindConflict, RewindCommit
  <1>3. overlapped' \/ Careful'
    BY <1>2, CarefulStep DEF RInv
  <1> QED
    BY <1>1, <1>3 DEF RInv

\* A rewind finds the conversation at rest and cuts it before the turn; while
\* no message is accepted beside it, ownership, references and numbers stay.
THEOREM RewindInvariant == RSpec => []RInv
  BY RInvInit, RInvStep, PTL DEF RSpec

\* The records keep their types through rewinds, and the handler of rewind.rs
\* its own.
THEOREM RewindTypes == RSpec => []RTypeOK
  <1>1. RInv => RTypeOK
    BY DEF RInv, Listed
  <1> QED
    BY <1>1, RewindInvariant, PTL

\* The window that rewind.rs restores, like any other, refers to events that
\* the rewind leaves on record, unless a message was accepted or another rewind
\* begun beside it; the client may hang up, and undos and tools that lost their
\* guard may go on.
THEOREM WindowsAreBacked == RSpec => []WindowRefsExist
  <1>1. RInv => WindowRefsExist
    BY DEF RInv, Careful, Refer, WindowRefsExist, Seqs
  <1> QED
    BY <1>1, RewindInvariant, PTL

\* The number that continue_task gives the replayed turn is free: every turn
\* with a row in agent_attachment_messages has left an event, and is before it.
THEOREM ReplaysFit == RSpec => []ReplayFits
  <1>1. ASSUME RInv PROVE ReplayFits
    <2> SUFFICES ASSUME ~overlapped, crashes = 0, faults < 2,
                        status \in {"draft"} \cup Terminal
        PROVE NextTurn \notin {a.turn : a \in admitted}
      BY DEF ReplayFits, NextTurnFree
    <2>1. TypeInv /\ Careful
      BY <1>1 DEF RInv
    <2>2. status # "running"
      BY DEF Terminal
    <2>3. ASSUME NEW h \in Requests PROVE pc[h] \notin Opening
      <3>1. pc[h] \notin Holding
        BY <2>1, <2>2 DEF Careful, Ownership, HoldingIsRunning
      <3>2. pc[h] # "gone"
        BY <2>1, <2>2 DEF Careful, Replayable
      <3> QED
        BY <3>1, <3>2 DEF Opening
    <2>4. \A a \in admitted : Begun(a.turn) /\ a.turn \in Nat
      BY <2>1, <2>3 DEF Careful, Replayable, TypeInv, TypeOK, Turns
    <2>5. NextTurn \in Nat /\ \A a \in admitted : a.turn < NextTurn
      BY <2>1, <2>4, NextTurnIs
    <2> QED
      BY <2>4, <2>5
  <1> QED
    BY <1>1, RewindInvariant, PTL

\* A rewind that starts in a conversation at rest leaves its runs exclusive and
\* reachable, unless a message is accepted or another rewind begins before the
\* rewind is over.
THEOREM RewindsKeepOwnership ==
    RSpec => [](~overlapped => OneRun /\ HoldingIsRunning /\ Cancellable)
  <1>1. RInv => (~overlapped => OneRun /\ HoldingIsRunning /\ Cancellable)
    BY DEF RInv, Careful, Ownership
  <1> QED
    BY <1>1, RewindInvariant, PTL

\* Files before talk: only the closing transaction of rewind.rs drops records,
\* and a rewind that found all turns to undo and had nobody beside it has by then
\* reverted every file change of the turns it drops.
THEOREM FilesGoFirst == RSpec => FilesBeforeTalk
  <1> DEFINE Undone == ~(events \subseteq events') =>
                 \A c \in Clients :
                     job'[c] # job[c] /\ job[c].listed /\ job[c].alone
                         => changed \subseteq changed'
  <1>1. RInv /\ [RNext]_rvars => [Undone]_rvars
    <2> SUFFICES ASSUME RInv, [RNext]_rvars PROVE Undone
      OBVIOUS
    <2>1. CASE [Next]_vars
      BY <2>1, GrowIs DEF RInv
    <2>2. ASSUME NEW d \in Clients, RewindCommit(d) PROVE Undone
      <3>1. ASSUME NEW c \in Clients, job'[c] # job[c], job[c].listed, job[c].alone
            PROVE  changed \subseteq changed'
        <4>1. c = d
          BY <2>2, <3>1 DEF RInv, Listed, RTypeOK, RewindCommit, Ends
        <4>2. PICK n : n = job[c].turn
          OBVIOUS
        <4>3. n \in Nat /\ \A t \in changed : t \in Nat
          BY <4>2, BoundsAssumption DEF RInv, Listed, RTypeOK, Job, Turns
        <4>4. ~\E t \in changed : t >= n
          BY <2>2, <3>1, <4>1, <4>2
             DEF RInv, Listed, Covers, RewindCommit, Rewinding
        <4>5. changed' = {t \in changed : t < n}
          BY <2>2, <4>1, <4>2 DEF RewindCommit
        <4> QED
          BY <4>3, <4>4, <4>5
      <3> QED
        BY <3>1
    <2> QED
      BY <2>1, <2>2, StepIs
  <1>2. FilesBeforeTalk <=> [][Undone]_rvars
    BY DEF FilesBeforeTalk
  <1> QED
    BY <1>1, <1>2, RewindInvariant, PTL DEF RSpec

=============================================================================
