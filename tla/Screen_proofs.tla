--------------------------- MODULE Screen_proofs ---------------------------
(***************************************************************************)
(* Proofs about what the user's window asks and shows: about Approvals for *)
(* any conversations, projects and calls, and about EventStream for any    *)
(* number of events, turns, broken connections and failed requests.        *)
(***************************************************************************)
EXTENDS Approvals, EventStream, TLAPS

-----------------------------------------------------------------------------
(* Approvals                                                               *)

\* What makes an answer trustworthy on its way from the loop to the return of
\* wait(): it is the stored decision, or the grant that was seen, and neither
\* is ever taken back.
Trust ==
    /\ decisions \in [Calls -> Decisions \cup {Undecided}]
    /\ pc \in [Calls -> Labels]
    /\ waited \in [Calls -> Decisions \cup {Undecided, "granted", "error"}]
    /\ \A c \in Calls :
          /\ waited[c] \in Decisions => decisions[c] = waited[c]
          /\ waited[c] = "granted" => Granted(c)
          /\ pc[c] \in {"grant", "record"} =>
                waited[c] \in Decisions \cup {"granted"}
          /\ pc[c] = "clear" => waited[c] # Undecided

Permitted == Trust /\ GrantsChosen /\ RunsAllowed

USE DEF Decisions, Undecided, Labels, Waiting

LEMMA PermittedInit == Init => Permitted
  BY DEF Init, Permitted, Trust, GrantsChosen, RunsAllowed

\* Nothing but Grant touches the grants, nothing but Decide the decisions.
LEMMA PermittedStep == Permitted /\ [Next]_avars => Permitted'
  <1> SUFFICES ASSUME Permitted, [Next]_avars PROVE Permitted'
    OBVIOUS
  <1> USE DEF Permitted, Trust, GrantsChosen, RunsAllowed, Granted
  <1>1. CASE UNCHANGED avars
    BY <1>1 DEF avars
  <1>2. ASSUME NEW c \in Calls, Call(c) PROVE Permitted'
    BY <1>2 DEF Call, Go
  <1>3. ASSUME NEW c \in Calls, Ask(c) PROVE Permitted'
    BY <1>3 DEF Ask, Go
  <1>4. ASSUME NEW c \in Calls, Card(c) \/ Request(c) \/ Wake(c) PROVE Permitted'
    BY <1>4 DEF Card, Request, Wake, Go
  <1>5. ASSUME NEW c \in Calls, Look(c) PROVE Permitted'
    BY <1>5 DEF Look, Go
  <1>6. ASSUME NEW c \in Calls, Peek(c) PROVE Permitted'
    BY <1>6 DEF Peek, Go
  <1>7. ASSUME NEW c \in Calls, Clear(c) PROVE Permitted'
    BY <1>7 DEF Clear, Go, CardOf
  <1>8. ASSUME NEW c \in Calls, Grant(c) PROVE Permitted'
    <2>1. /\ grants \subseteq grants'
          /\ \A s \in grants' \ grants :
                \/ decisions[c] = "session" /\ s = TaskOf[c]
                \/ decisions[c] = "project" /\ s = Widest(c)
      BY <1>8 DEF Grant, GrantsAfter
    <2>2. UNCHANGED <<decisions, waited>> /\ pc' = [pc EXCEPT ![c] = "record"]
          /\ pc[c] = "grant"
      BY <1>8 DEF Grant, Go
    <2>3. GrantsChosen'
      BY <2>1, <2>2 DEF Widest
    <2>4. Trust'
      BY <2>1, <2>2 DEF Scopes
    <2> QED
      BY <2>1, <2>2, <2>3, <2>4 DEF Scopes
  <1>9. ASSUME NEW c \in Calls, Record(c) PROVE Permitted'
    BY <1>9 DEF Record, Go
  <1>10. ASSUME NEW c \in Calls, StatementFails(c) PROVE Permitted'
    BY <1>10 DEF StatementFails, Go
  <1>11. ASSUME NEW c \in Calls, NEW d \in Decisions, Decide(c, d)
         PROVE  Permitted'
    <2>1. /\ decisions' = [decisions EXCEPT ![c] = IF @ = Undecided THEN d ELSE @]
          /\ UNCHANGED <<grants, pc, waited>>
      BY <1>11 DEF Decide, Decided
    <2>2. \A e \in Calls : decisions[e] # Undecided => decisions'[e] = decisions[e]
      BY <2>1
    <2>3. decisions' \in [Calls -> Decisions \cup {Undecided}]
      BY <2>1
    <2>4. Trust'
      BY <2>1, <2>2, <2>3
    <2>5. GrantsChosen' /\ RunsAllowed'
      BY <2>1, <2>2, <2>3 DEF Widest
    <2> QED
      BY <2>4, <2>5
  <1>12. ASSUME NEW t \in Tasks, Cancel(t) PROVE Permitted'
    BY <1>12 DEF Cancel
  <1>13. ASSUME NEW c \in Calls, Drop(c) PROVE Permitted'
    BY <1>13 DEF Drop, Go
  <1>14. CASE Crash
    BY <1>14 DEF Crash, Ended
  <1> QED
    BY <1>1, <1>2, <1>3, <1>4, <1>5, <1>6, <1>7, <1>8, <1>9, <1>10, <1>11,
       <1>12, <1>13, <1>14
    DEF Next, Step

\* The answer on its way, what runs and what is granted, in every state.
THEOREM PermittedInvariant == Spec => []Permitted
  BY PermittedInit, PermittedStep, PTL DEF Spec

\* In "ask" mode nothing runs unless the user allowed this call or a scope it
\* lies in, and no scope is allowed but by a user who chose exactly that,
\* whatever calls race, fail, are dropped or crash.
THEOREM OnlyPermittedCallsRun == Spec => [](RunsAllowed /\ GrantsChosen)
  <1>1. Permitted => RunsAllowed /\ GrantsChosen
    BY DEF Permitted
  <1> QED
    BY <1>1, PermittedInvariant, PTL

-----------------------------------------------------------------------------
(* Types                                                                   *)

LEMMA ScopesOfCall ==
    ASSUME NEW c \in Calls
    PROVE  TaskOf[c] \in Scopes(c) /\ Widest(c) \in Scopes(c)
  BY DEF Scopes, Widest

LEMMA TypeStep == Permitted /\ TypeOK /\ [Next]_avars => TypeOK'
  <1> SUFFICES ASSUME Trust, TypeOK, [Next]_avars PROVE TypeOK'
    BY DEF Permitted
  <1> USE ApprovalsAssumption DEF TypeOK
  <1>1. CASE UNCHANGED avars
    BY <1>1 DEF avars
  <1>2. ASSUME NEW c \in Calls, Call(c) \/ Ask(c) \/ Request(c) \/ Wake(c) \/ Drop(c)
        PROVE  TypeOK'
    BY <1>2 DEF Call, Ask, Request, Wake, Drop, Go
  <1>3. ASSUME NEW c \in Calls, Card(c) \/ Clear(c) PROVE TypeOK'
    BY <1>3 DEF Card, Clear, Go
  <1>4. ASSUME NEW c \in Calls, Look(c) \/ Peek(c) \/ Record(c) PROVE TypeOK'
    <2>1. /\ recorded' \in [Calls -> Decisions \cup {Undecided, "granted", "cancelled"}]
          /\ waited' \in [Calls -> Decisions \cup {Undecided, "granted", "error"}]
          /\ pc' \in [Calls -> Labels]
      <3>1. CASE Look(c)
        BY <3>1 DEF Look, Go
      <3>2. CASE Peek(c)
        BY <3>2 DEF Peek, Go
      <3>3. CASE Record(c)
        BY <3>3 DEF Record, Go, Trust
      <3> QED
        BY <1>4, <3>1, <3>2, <3>3
    <2>2. UNCHANGED <<decisions, grants, pending, cancelled, faults, crashes>>
      BY <1>4 DEF Look, Peek, Record
    <2> QED
      BY <2>1, <2>2
  <1>5. ASSUME NEW c \in Calls, Grant(c) PROVE TypeOK'
    <2>1. grants' \subseteq grants \cup {TaskOf[c], Widest(c)}
      BY <1>5 DEF Grant, GrantsAfter
    <2>2. grants' \subseteq UNION {Scopes(d) : d \in Calls}
      BY <2>1, ScopesOfCall
    <2> QED
      BY <1>5, <2>2 DEF Grant, Go
  <1>6. ASSUME NEW c \in Calls, StatementFails(c) PROVE TypeOK'
    BY <1>6 DEF StatementFails, Go
  <1>7. ASSUME NEW c \in Calls, NEW d \in Decisions, Decide(c, d) PROVE TypeOK'
    BY <1>7 DEF Decide, Decided
  <1>8. ASSUME NEW t \in Tasks, Cancel(t) PROVE TypeOK'
    BY <1>8 DEF Cancel
  <1>9. CASE Crash
    BY <1>9 DEF Crash, Ended
  <1> QED
    BY <1>1, <1>2, <1>3, <1>4, <1>5, <1>6, <1>7, <1>8, <1>9 DEF Next, Step

\* The rows, events and calls of the approvals keep their types.
THEOREM TypeInvariant == Spec => []TypeOK
  <1>1. Init => TypeOK
    BY ApprovalsAssumption DEF Init, TypeOK
  <1> QED
    BY <1>1, TypeStep, PermittedInvariant, PTL DEF Spec

-----------------------------------------------------------------------------
(* What the user is told                                                   *)

LEMMA CardsTellStep ==
    TypeOK /\ Permitted /\ CardsTell /\ [Next]_avars => CardsTell'
  <1> SUFFICES ASSUME TypeOK, Trust, CardsTell, [Next]_avars PROVE CardsTell'
    BY DEF Permitted
  <1> USE DEF TypeOK, CardsTell
  <1>1. CASE UNCHANGED avars
    BY <1>1 DEF avars
  <1>2. ASSUME NEW c \in Calls, NEW l \in Labels, Go(c, l),
               l \in Waiting => pc[c] \in Waiting,
               UNCHANGED <<decisions, pending, recorded>>
        PROVE  CardsTell'
    BY <1>2 DEF Go
  <1>3. ASSUME NEW c \in Calls, Card(c) PROVE CardsTell'
    BY <1>3 DEF Card, Go
  <1>4. ASSUME NEW c \in Calls, Clear(c) PROVE CardsTell'
    BY <1>4 DEF Clear, Go, CardOf
  <1>5. ASSUME NEW c \in Calls, Look(c) PROVE CardsTell'
    BY <1>5 DEF Look, Go
  <1>6. ASSUME NEW c \in Calls, Record(c) PROVE CardsTell'
    BY <1>6 DEF Record, Go, Trust
  <1>7. ASSUME NEW c \in Calls,
               \/ Call(c) \/ Ask(c) \/ Request(c) \/ Peek(c) \/ Wake(c) \/ Grant(c)
               \/ StatementFails(c) \/ Drop(c)
        PROVE  CardsTell'
    <2>1. UNCHANGED <<decisions, pending, recorded>>
      BY <1>7 DEF Call, Ask, Request, Peek, Wake, Grant, StatementFails, Drop
    <2>2. \E l \in Labels : Go(c, l) /\ (l \in Waiting => pc[c] \in Waiting)
      BY <1>7 DEF Call, Ask, Request, Peek, Wake, Grant, StatementFails, Drop
    <2> QED
      BY <2>1, <2>2, <1>2
  <1>8. ASSUME NEW c \in Calls, NEW d \in Decisions, Decide(c, d) PROVE CardsTell'
    BY <1>8 DEF Decide, Decided
  <1>9. ASSUME NEW t \in Tasks, Cancel(t) PROVE CardsTell'
    BY <1>9 DEF Cancel
  <1>10. CASE Crash
    BY <1>10 DEF Crash, Ended
  <1> QED
    BY <1>1, <1>3, <1>4, <1>5, <1>6, <1>7, <1>8, <1>9, <1>10 DEF Next, Step

\* A waiting call has its card and the event of an answer is the stored answer,
\* for any number of calls of a conversation that clear their cards, and of
\* windows that answer, in any order.
THEOREM CardsAreTrue == Spec => []CardsTell
  <1>1. Init => CardsTell
    BY DEF Init, CardsTell
  <1> QED
    BY <1>1, CardsTellStep, PermittedInvariant, TypeInvariant, PTL DEF Spec

-----------------------------------------------------------------------------
(* The event stream                                                        *)

\* What is on the wire follows on what the client has, and ends with what the
\* stream sent last; a stream that is closed or waits has nothing on the wire.
OnTheWire ==
    /\ stream \in {"closed", "waiting"} => wire = <<>>
    /\ phase \in Attached /\ stream # "waiting" =>
          /\ stream # "closed"
          /\ sent = lastSeq + Len(wire)
          /\ \A i \in 1..Len(wire) : wire[i] = lastSeq + i

\* Nothing is told of events that are not on record.
OnRecord ==
    /\ sent <= last /\ lastSeq <= last /\ known <= last
    /\ history = NoHistory \/ history <= last

\* A history that is read after the final status was holds what the status
\* came after; nothing but the refresh of an attached client reads one.
Complete ==
    /\ phase \in {"following", "asking"} => history = NoHistory
    /\ phase = "refreshing" /\ history # NoHistory => known <= history
    /\ SettledComplete

Followed ==
    /\ STypeOK /\ OnTheWire /\ OnRecord /\ Complete /\ NothingSkipped
    /\ phase \notin Attached => batch = <<>>

LEMMA UpToIs ==
    ASSUME NEW n \in 0..MaxEvents
    PROVE  /\ UpTo(n) \in Seq(1..MaxEvents) /\ Len(UpTo(n)) = n
           /\ UpTo(n) \o <<>> = UpTo(n)
  BY StreamAssumption DEF UpTo

\* The next event takes its place after what is shown and what is gathered.
LEMMA NextFits ==
    ASSUME NEW n \in Nat, NEW s \in Seq(1..MaxEvents),
           NEW b \in Seq(1..MaxEvents), s \o b = UpTo(n)
    PROVE  s \o Append(b, n + 1) = UpTo(n + 1)
  <1> DEFINE u == s \o Append(b, n + 1)
             v == UpTo(n + 1)
  <1>1. UpTo(n) \in Seq(Nat) /\ Len(UpTo(n)) = n /\ \A i \in 1..n : UpTo(n)[i] = i
    BY DEF UpTo
  <1>2. v \in Seq(Nat) /\ Len(v) = n + 1 /\ \A i \in 1..n + 1 : v[i] = i
    BY DEF UpTo
  <1>3. Len(s) + Len(b) = n
    BY <1>1
  <1>4. u \in Seq(Nat) /\ Len(u) = n + 1
    <2>1. s \in Seq(Nat) /\ Append(b, n + 1) \in Seq(Nat)
      BY StreamAssumption
    <2> QED
      BY <2>1, <1>3
  <1>5. \A i \in 1..n + 1 : u[i] = IF i <= n THEN (s \o b)[i] ELSE n + 1
    BY <1>3
  <1> HIDE DEF u, v
  <1>6. \A i \in 1..n + 1 : u[i] = i
    <2> SUFFICES ASSUME NEW i \in 1..n + 1 PROVE u[i] = i
      OBVIOUS
    <2>1. CASE i <= n
      <3>1. u[i] = UpTo(n)[i]
        BY <2>1, <1>5
      <3> QED
        BY <3>1, <2>1, <1>1
    <2>2. CASE i = n + 1
      BY <2>2, <1>5
    <2> QED
      BY <2>1, <2>2
  <1>7. u = v
    BY <1>2, <1>4, <1>6
  <1> QED
    BY <1>7 DEF u, v

LEMMA FollowedInit == SInit => Followed
  BY StreamAssumption
     DEF SInit, Followed, STypeOK, OnTheWire, OnRecord, Complete,
         SettledComplete, NothingSkipped, NoHistory, Phases, Attached

\* The conversation and the stream that reads it.
LEMMA FollowedServer ==
    ASSUME Followed,
           AppendEvent \/ Finish \/ Continue \/ ReadEvents \/ ReadStatus
    PROVE  Followed'
  <1> USE StreamAssumption
      DEF Followed, STypeOK, OnTheWire, OnRecord, Complete, SettledComplete,
          NothingSkipped, NoHistory, Phases, Attached, server, link, view
  <1>1. CASE AppendEvent
    BY <1>1 DEF AppendEvent
  <1>2. CASE Finish
    BY <1>2 DEF Finish
  <1>3. CASE Continue
    BY <1>3 DEF Continue
  <1>4. CASE ReadEvents
    <2>1. CASE last > sent
      <3>1. /\ wire' = Append(wire, sent + 1) /\ sent' = sent + 1
            /\ UNCHANGED <<server, errors, stream, phase, task, history, view,
                           known>>
        BY <1>4, <2>1 DEF ReadEvents, NextUp
      <3>2. /\ wire' \in Seq(1..MaxEvents) /\ Len(wire') = Len(wire) + 1
            /\ \A i \in 1..Len(wire) : wire'[i] = wire[i]
            /\ wire'[Len(wire) + 1] = sent + 1
        BY <3>1, <2>1
      <3>3. ASSUME phase' \in Attached
            PROVE  \A i \in 1..Len(wire') : wire'[i] = lastSeq' + i
        <4>1. sent = lastSeq + Len(wire)
              /\ \A i \in 1..Len(wire) : wire[i] = lastSeq + i
          BY <1>4, <3>1, <3>3 DEF ReadEvents
        <4>2. \A i \in 1..Len(wire) : wire'[i] = lastSeq + i
          BY <3>2, <4>1
        <4>3. wire'[Len(wire) + 1] = lastSeq + (Len(wire) + 1)
          BY <3>2, <4>1
        <4>4. Len(wire') = Len(wire) + 1 /\ Len(wire) \in Nat
              /\ lastSeq' = lastSeq
          BY <3>1, <3>2
        <4> QED
          BY ONLY <4>2, <4>3, <4>4
      <3>4. OnTheWire'
        BY <1>4, <3>1, <3>2, <3>3 DEF ReadEvents
      <3>5. STypeOK' /\ OnRecord' /\ Complete' /\ NothingSkipped'
            /\ (phase' \notin Attached => batch' = <<>>)
        BY <2>1, <3>1, <3>2
      <3> QED
        BY <3>4, <3>5
    <2>2. CASE ~(last > sent)
      BY <1>4, <2>2 DEF ReadEvents
    <2> QED
      BY <2>1, <2>2
  <1>5. CASE ReadStatus
    BY <1>5 DEF ReadStatus
  <1> QED
    BY <1>1, <1>2, <1>3, <1>4, <1>5

\* Loading, and failed requests of the client.
LEMMA FollowedLoad ==
    ASSUME Followed, Reload \/ LoadTask \/ LoadEvents \/ Loaded \/ RequestFails
    PROVE  Followed'
  <1> USE StreamAssumption
      DEF Followed, STypeOK, OnTheWire, OnRecord, Complete, SettledComplete,
          NothingSkipped, NoHistory, Phases, Attached, server, link, view
  <1>1. CASE Reload
    BY <1>1 DEF Reload
  <1>2. CASE LoadTask
    BY <1>2 DEF LoadTask
  <1>3. CASE LoadEvents
    BY <1>3 DEF LoadEvents
  <1>4. CASE Loaded
    <2>1. history \in 0..MaxEvents /\ history <= last /\ batch = <<>>
      BY <1>4 DEF Loaded
    <2>2. /\ shown' = UpTo(history) /\ lastSeq' = history /\ batch' = <<>>
          /\ task' = "none" /\ history' = NoHistory
          /\ UNCHANGED <<server, errors, known>>
      BY <1>4, <2>1 DEF Loaded
    <2>3. shown' \in Seq(1..MaxEvents) /\ shown' \o batch' = UpTo(lastSeq')
      BY <2>1, <2>2, UpToIs
    <2>4. CASE phase' = "idle" /\ UNCHANGED link
      BY <2>1, <2>2, <2>3, <2>4
    <2>5. CASE phase' = "following" /\ stream' = "open" /\ sent' = history
               /\ wire' = <<>>
      BY <2>1, <2>2, <2>3, <2>5
    <2> QED
      BY <1>4, <2>4, <2>5 DEF Loaded
  <1>5. CASE RequestFails
    BY <1>5 DEF RequestFails, Fault
  <1> QED
    BY <1>1, <1>2, <1>3, <1>4, <1>5

\* What an attached client does and what happens to its connection.
LEMMA FollowedClient ==
    ASSUME Followed, Client \/ ConnectionBreaks
    PROVE  Followed'
  <1> USE StreamAssumption
      DEF Followed, STypeOK, OnTheWire, OnRecord, Complete, SettledComplete,
          NothingSkipped, NoHistory, Phases, Attached, server, link, view
  <1>1. CASE Receive
    <2>1. Head(wire) = lastSeq + 1 /\ stream # "waiting" /\ Len(wire) > 0
          /\ lastSeq < sent
      BY <1>1 DEF Receive
    <2>2. /\ wire' = Tail(wire) /\ lastSeq' = lastSeq + 1
          /\ batch' = Append(batch, lastSeq + 1)
          /\ UNCHANGED <<server, errors, stream, sent, phase, task, history,
                         shown, known>>
      BY <1>1, <2>1 DEF Receive
    <2>3. shown \o Append(batch, lastSeq + 1) = UpTo(lastSeq + 1)
      <3>1. /\ lastSeq \in Nat /\ shown \in Seq(1..MaxEvents)
            /\ batch \in Seq(1..MaxEvents) /\ shown \o batch = UpTo(lastSeq)
        BY <1>1 DEF Receive
      <3> QED
        BY ONLY <3>1, NextFits, Zenon
    <2>4. /\ wire' \in Seq(1..MaxEvents) /\ Len(wire') = Len(wire) - 1
          /\ \A i \in 1..Len(wire') : wire'[i] = lastSeq' + i
      BY <1>1, <2>1, <2>2 DEF Receive
    <2>5. OnTheWire'
      <3>1. stream # "closed" /\ sent = lastSeq + Len(wire)
        BY <1>1, <2>1 DEF Receive
      <3>2. sent' = lastSeq' + Len(wire') /\ stream' # "waiting"
            /\ stream' # "closed"
        BY <2>1, <2>2, <2>4, <3>1
      <3> QED
        BY <3>2, <2>4
    <2>6. batch' \in Seq(1..MaxEvents) /\ lastSeq' \in 0..MaxEvents
      BY <2>1, <2>2
    <2>7. STypeOK' /\ OnRecord' /\ Complete'
      BY <2>1, <2>2, <2>4, <2>6
    <2>8. phase' \in Attached /\ NothingSkipped'
      BY <1>1, <2>2, <2>3 DEF Receive
    <2> QED
      BY <2>5, <2>7, <2>8
  <1>2. CASE Flush
    <2>1. /\ shown' = shown \o batch /\ batch' = <<>>
          /\ UNCHANGED <<server, errors, link, phase, task, history, lastSeq,
                         known>>
          /\ phase \in Attached
      BY <1>2 DEF Flush
    <2>2. /\ shown' \o batch' = shown \o batch
          /\ shown' \in Seq(1..MaxEvents) /\ batch' \in Seq(1..MaxEvents)
      BY <2>1
    <2>3. STypeOK' /\ OnTheWire' /\ OnRecord'
      BY <2>1, <2>2
    <2>4. Complete' /\ NothingSkipped'
      BY <2>1, <2>2
    <2> QED
      BY <2>1, <2>3, <2>4
  <1>3. CASE StreamEnds \/ ConnectionBreaks
    <2>1. /\ stream' = "waiting" /\ wire' = <<>> /\ errors' \in 0..MaxErrors
          /\ phase \in Attached /\ phase' \in {phase, "asking"}
          /\ phase' \in {"following", "asking"} => history = NoHistory
          /\ UNCHANGED <<server, sent, task, history, view, known>>
      <3>1. CASE StreamEnds
        BY <3>1 DEF StreamEnds, Error
      <3>2. CASE ConnectionBreaks
        BY <3>2 DEF ConnectionBreaks, Error, Fault
      <3> QED
        BY <1>3, <3>1, <3>2
    <2>2. STypeOK' /\ OnTheWire' /\ OnRecord'
      BY <2>1
    <2> QED
      BY <2>1, <2>2
  <1>4. CASE Reconnect
    BY <1>4 DEF Reconnect
  <1>5. CASE AskTask
    BY <1>5 DEF AskTask
  <1>6. CASE RefreshRead
    BY <1>6 DEF RefreshRead
  <1>7. CASE Settle
    <2>1. history \in 0..MaxEvents /\ known <= history /\ history <= last
      BY <1>7 DEF Settle
    <2>2. shown' = UpTo(history) /\ Len(shown') = history
          /\ shown' \in Seq(1..MaxEvents)
      BY <1>7, <2>1, UpToIs DEF Settle, Refreshed
    <2> QED
      BY <1>7, <2>1, <2>2 DEF Settle
  <1> QED
    BY <1>1, <1>2, <1>3, <1>4, <1>5, <1>6, <1>7 DEF Client

LEMMA FollowedStep == Followed /\ [SNext]_svars => Followed'
  <1>1. Followed /\ UNCHANGED svars => Followed'
    BY DEF svars, server, link, view, Followed, STypeOK, OnTheWire, OnRecord,
           Complete, SettledComplete, NothingSkipped
  <1> QED
    BY <1>1, FollowedServer, FollowedLoad, FollowedClient DEF SNext

LEMMA StreamInvariant == SSpec => []Followed
  BY FollowedInit, FollowedStep, PTL DEF SSpec

\* Through any number of broken connections, reconnections, failed requests and
\* reloads an attached client (stream_events, useSession.ts) has every event up
\* to the newest it knows of, once and in order.
THEOREM NoEventIsSkipped == SSpec => []NothingSkipped
  <1>1. Followed => NothingSkipped
    BY DEF Followed
  <1> QED
    BY <1>1, StreamInvariant, PTL

\* A client that settles shows every event that was on record when it read the
\* final status, although the stream may have ended without the last ones.
THEOREM NothingIsMissing == SSpec => []SettledComplete
  <1>1. Followed => SettledComplete
    BY DEF Followed, Complete
  <1> QED
    BY <1>1, StreamInvariant, PTL

\* The variables of EventStream keep their types.
THEOREM StreamTypes == SSpec => []STypeOK
  <1>1. Followed => STypeOK
    BY DEF Followed
  <1> QED
    BY <1>1, StreamInvariant, PTL

=============================================================================
