--------------------------- MODULE ToolCalls_proofs ---------------------------
(***************************************************************************)
(* Proofs about ToolCalls for any ids, messages, programs and turns.       *)
(***************************************************************************)
EXTENDS ToolCalls, SequenceTheorems, WellFoundedInduction, TLAPS

-----------------------------------------------------------------------------
(* Contexts                                                                *)

LEMMA EmptyWindow == Empty \in Windows
  BY ToolCallsAssumption DEF Empty, NoProgram, Windows

LEMMA EmptyType == Empty \in Windows /\ Empty.talk = <<>>
                     /\ Empty.program = NoProgram /\ Empty.running = FALSE
  BY ToolCallsAssumption DEF Empty, NoProgram, Windows

LEMMA WindowTypes ==
  ASSUME NEW w \in Windows
  PROVE  /\ w.talk \in Seq(Entries) /\ Len(w.talk) \in Nat
         /\ DOMAIN w.talk = 1 .. Len(w.talk)
         /\ \A i \in DOMAIN w.talk : w.talk[i].seq \in Nat /\ w.talk[i].ids \subseteq Ids
         /\ w.running \in BOOLEAN /\ w.program \in [left : 0..MaxSteps, pending : Nat]
         /\ w.program.pending \in Nat /\ w.program.left \in 0..MaxSteps
  <1>1. w.talk \in Seq(Entries)
    BY DEF Windows
  <1>2. \A i \in DOMAIN w.talk : w.talk[i] \in Entries
    BY <1>1
  <1>3. \A i \in DOMAIN w.talk : w.talk[i].seq \in Nat /\ w.talk[i].ids \subseteq Ids
    BY <1>2 DEF Entries
  <1>4. /\ w.running \in BOOLEAN /\ w.program \in [left : 0..MaxSteps, pending : Nat]
        /\ w.program.pending \in Nat /\ w.program.left \in 0..MaxSteps
    BY DEF Windows
  <1> QED
    BY <1>1, <1>3, <1>4

\* An entry is added behind the others; nothing else changes.
LEMMA SayIs ==
  ASSUME NEW w \in Windows, NEW e \in Entries
  PROVE  /\ Say(w, e) \in Windows
         /\ Say(w, e).running = w.running /\ Say(w, e).program = w.program
         /\ Len(Say(w, e).talk) = Len(w.talk) + 1
         /\ Say(w, e).talk[Len(w.talk) + 1] = e
         /\ \A i \in DOMAIN w.talk : Say(w, e).talk[i] = w.talk[i]
         /\ DOMAIN Say(w, e).talk = 1 .. Len(w.talk) + 1
         /\ DOMAIN w.talk = 1 .. Len(w.talk)
  <1>1. w.talk \in Seq(Entries)
    BY DEF Windows
  <1>2. /\ Say(w, e).talk = Append(w.talk, e)
        /\ Say(w, e).running = w.running /\ Say(w, e).program = w.program
    BY DEF Say, Windows
  <1>3. Append(w.talk, e) \in Seq(Entries)
    BY <1>1
  <1>4. Say(w, e) \in Windows
    BY <1>3 DEF Say, Windows
  <1>5. /\ Len(Append(w.talk, e)) = Len(w.talk) + 1
        /\ Append(w.talk, e)[Len(w.talk) + 1] = e
        /\ \A i \in 1 .. Len(w.talk) : Append(w.talk, e)[i] = w.talk[i]
    BY <1>1, AppendProperties
  <1>6. /\ DOMAIN w.talk = 1 .. Len(w.talk)
        /\ DOMAIN Append(w.talk, e) = 1 .. Len(w.talk) + 1
    BY <1>1, <1>3, <1>5
  <1> QED
    BY <1>2, <1>4, <1>5, <1>6

Programs == [left : 0..MaxSteps, pending : Nat]

\* A change of the program leaves the messages alone.
LEMMA ProgramIs ==
  ASSUME NEW w \in Windows, NEW p \in Programs
  PROVE  /\ [w EXCEPT !.program = p] \in Windows
         /\ [w EXCEPT !.program = p].talk = w.talk
         /\ [w EXCEPT !.program = p].running = w.running
         /\ [w EXCEPT !.program = p].program = p
  BY DEF Windows, Programs

LEMMA RunningIs ==
  ASSUME NEW w \in Windows, NEW p \in Programs, NEW b \in BOOLEAN
  PROVE  /\ [w EXCEPT !.running = b, !.program = p] \in Windows
         /\ [w EXCEPT !.running = b, !.program = p].talk = w.talk
         /\ [w EXCEPT !.running = b, !.program = p].running = b
         /\ [w EXCEPT !.running = b, !.program = p].program = p
  BY DEF Windows, Programs

LEMMA PendingIs ==
  ASSUME NEW w \in Windows, NEW n \in Nat
  PROVE  /\ StoppedAt(w, n) \in Windows
         /\ StoppedAt(w, n).talk = w.talk
         /\ StoppedAt(w, n).running = w.running
         /\ StoppedAt(w, n).program.pending = n
         /\ StoppedAt(w, n).program.left = w.program.left
  <1> DEFINE p == [w.program EXCEPT !.pending = n]
  <1>1. w.program \in Programs
    BY WindowTypes DEF Programs
  <1>2. p \in Programs /\ p.pending = n /\ p.left = w.program.left
    BY <1>1 DEF Programs
  <1>3. StoppedAt(w, n) = [w EXCEPT !.program = p]
    BY <1>1 DEF Windows, StoppedAt
  <1> HIDE DEF p
  <1> QED
    BY <1>2, <1>3, ProgramIs

LEMMA ResolvedIs ==
  ASSUME NEW w \in Windows, w.program.left > 0
  PROVE  /\ Resolved(w) \in Windows
         /\ Resolved(w).talk = w.talk /\ Resolved(w).running = w.running
         /\ Resolved(w).program = [left |-> w.program.left - 1, pending |-> 0]
  <1> DEFINE p == [left |-> w.program.left - 1, pending |-> 0]
  <1>1. p \in Programs
    BY WindowTypes, ToolCallsAssumption DEF Programs
  <1>2. Resolved(w) = [w EXCEPT !.program = p]
    BY DEF Resolved, Windows
  <1> HIDE DEF p
  <1>3. /\ Resolved(w) \in Windows
        /\ Resolved(w).talk = w.talk /\ Resolved(w).running = w.running
        /\ Resolved(w).program = p
    BY <1>1, <1>2, ProgramIs
  <1> QED
    BY <1>3 DEF p

LEMMA EntryTypes ==
  ASSUME NEW n \in Nat, NEW ids \in SUBSET Ids, NEW id \in Ids
  PROVE  Asks(n, ids) \in Entries /\ Tells(n, id) \in Entries
  BY DEF Asks, Tells, Entries

\* A call without an answer is a call of an entry of the context.
LEMMA UnansweredIs ==
  ASSUME NEW w \in Windows, NEW call \in Unanswered(w)
  PROVE  \E i \in DOMAIN w.talk :
            /\ w.talk[i].kind = "asks"
            /\ call.id \in w.talk[i].ids /\ call.asked = w.talk[i].seq
            /\ call.id \in Ids /\ call.asked \in Nat
  <1>2. \A i \in DOMAIN w.talk : w.talk[i].seq \in Nat
    BY WindowTypes
  <1>3. /\ call.id \in Ids
        /\ \E i \in DOMAIN w.talk :
              /\ w.talk[i].kind = "asks"
              /\ w.talk[i].seq = call.asked /\ call.id \in w.talk[i].ids
    BY DEF Unanswered
  <1> QED
    BY <1>2, <1>3

-----------------------------------------------------------------------------
(* The inductive invariant                                                 *)

\* Between the recovery and the end of a run the context in memory is the one
\* that is saved; recovery only adds answers to the saved one.
Working == pc \notin {"idle", "recover"} => taskOpen /\ mine = saved
Carried ==
    /\ pc = "recover" =>
          /\ mine.program = saved.program /\ mine.running = saved.running
          /\ Len(saved.talk) <= Len(mine.talk)
          /\ \A i \in DOMAIN saved.talk : mine.talk[i] = saved.talk[i]
    /\ ~taskOpen => saved = Empty

\* Numbers of entries and results are numbers of events; a result comes after
\* the message it answers.
Numbered ==
    /\ \A i \in DOMAIN mine.talk : mine.talk[i].seq <= seq
    /\ \A i \in DOMAIN saved.talk : saved.talk[i].seq <= seq
    /\ \A r \in results : r.of < r.seq /\ r.seq <= seq
    /\ pc = "replied" => \A r \in results : r.seq < seq

\* The calls to make are those of the newest message that asked, the call in
\* hand is one of them, and none but that one has a result.
IsNewest(i) ==
    /\ i \in DOMAIN mine.talk /\ mine.talk[i].kind = "asks"
    /\ \A j \in DOMAIN mine.talk :
          mine.talk[j].kind = "asks" => mine.talk[j].seq <= mine.talk[i].seq
InHand ==
    pc \in {"calls", "calling", "called", "recorded"} =>
        \E i \in DOMAIN mine.talk :
            /\ IsNewest(i)
            /\ todo \subseteq mine.talk[i].ids
            /\ pc # "calls" => at.asked = mine.talk[i].seq /\ at.id \in todo
            /\ \A r \in results :
                  r.of = mine.talk[i].seq /\ r.id \in todo =>
                      pc = "recorded" /\ r.id = at.id

\* The pending step of a program, and what is known of the others.
Stepping ==
    /\ ~saved.running => saved.program.pending = 0 /\ saved.program.left = 0
    /\ saved.program.pending <= actions
    /\ pc \in {"step", "stepped"} =>
          saved.program.pending # 0 /\ saved.program.pending \notin receipts
    /\ pc = "resolve" => saved.program.pending \in receipts
    /\ pc \in {"step", "stepped", "resolve"} => saved.program.left > 0
    /\ saved.program.pending # 0 => saved.program.left > 0
    /\ pc \in {"replied", "calls", "calling", "called", "recorded"} => ~saved.running
    /\ \A a \in DOMAIN ranSteps :
          \/ a \in receipts \/ a \in cut
          \/ pc = "stepped" /\ a = saved.program.pending

IInv == /\ TypeOK /\ Working /\ Carried /\ Numbered /\ InHand /\ Stepping
        /\ OneResult /\ EffectsAreKnown /\ StepsAccounted /\ RecordedStepsOnce

Results == [seq : Nat, id : Ids, of : Nat, known : BOOLEAN]
Asked   == [asked : Nat, id : Ids]
Hands   == [asked : Nat, id : Ids \cup {NoId}]

\* The type invariant in two halves: what model calls change, and what steps do.
CallTypes ==
    /\ seq \in Nat
    /\ results \subseteq Results
    /\ saved \in Windows /\ mine \in Windows /\ taskOpen \in BOOLEAN
    /\ pc \in Labels
    /\ todo \in SUBSET Ids /\ at \in Hands
    /\ ranCalls \subseteq Asked
StepTypes ==
    /\ receipts \in SUBSET (1..actions)
    /\ actions \in Nat /\ DOMAIN ranSteps \subseteq 1..actions
    /\ \A a \in DOMAIN ranSteps : ranSteps[a] \in Nat \ {0}
    /\ cut \in SUBSET (1..actions)

LEMMA TypeHalves == TypeOK <=> CallTypes /\ StepTypes
  BY DEF TypeOK, CallTypes, StepTypes, Results, Asked, Hands

LEMMA InvInit == Init => IInv
  <1> SUFFICES ASSUME Init PROVE IInv
    OBVIOUS
  <1> USE EmptyType DEF Init
  <1>1. CallTypes
    BY DEF CallTypes, NoCall, Labels, Hands
  <1>5. DOMAIN ranSteps = {}
    OBVIOUS
  <1>6. StepTypes
    BY <1>5 DEF StepTypes
  <1>2. Working /\ Carried /\ Numbered /\ InHand
    BY DEF Working, Carried, Numbered, InHand
  <1>3. Stepping
    BY DEF Stepping, NoProgram
  <1>4. OneResult /\ EffectsAreKnown /\ StepsAccounted /\ RecordedStepsOnce
    BY <1>5 DEF OneResult, EffectsAreKnown, StepsAccounted, RecordedStepsOnce
  <1> QED
    BY <1>1, <1>2, <1>3, <1>4, <1>6, TypeHalves DEF IInv

\* Among results numbered up to a bound there is a newest: by the well-founded
\* order on their distances from the bound.
LEMMA NewestIs ==
  ASSUME NEW R, R # {}, NEW bound \in Nat,
         \A r \in R : r.seq \in Nat /\ r.seq <= bound
  PROVE  Newest(R) \in R /\ \A s \in R : s.seq <= Newest(R).seq
  <1> DEFINE Gaps == {bound - r.seq : r \in R}
  <1>1. Gaps \subseteq Nat /\ Gaps # {}
    OBVIOUS
  <1>2. PICK least \in Gaps : \A gap \in Gaps : least <= gap
    <2>1. PICK least \in Gaps : \A gap \in Gaps : <<gap, least>> \notin OpToRel(<, Nat)
      BY <1>1, NatLessThanWellFounded, WFMin, Zenon
    <2>2. \A i, j \in Nat : i < j => <<i, j>> \in OpToRel(<, Nat)
      BY DEF OpToRel
    <2>3. \A i, j \in Nat : ~ (i < j) => j <= i
      OBVIOUS
    <2> QED
      BY <1>1, <2>1, <2>2, <2>3
  <1>3. PICK r \in R : least = bound - r.seq
    BY <1>2
  <1>4. ASSUME NEW s \in R PROVE s.seq <= r.seq
    <2>1. least <= bound - s.seq
      BY <1>2
    <2> QED
      BY <1>3, <2>1
  <1> QED
    BY <1>4 DEF Newest

\* A step that is pending, or made, is one the program has left.
LEMMA LeftIs ==
  ASSUME IInv
  PROVE  /\ mine.program.pending # 0 /\ pc = "loop" => mine.program.left > 0
         /\ pc = "resolve" => mine.program.left > 0
  BY DEF IInv, Stepping, Working

\* The call in hand is one the message asked for.
LEMMA AtIs ==
  ASSUME IInv, pc \in {"calling", "called", "recorded"}
  PROVE  at.id \in todo /\ at.id \in Ids /\ at.asked \in Nat /\ at \in Asked
  <1>1. at.id \in todo
    BY DEF IInv, InHand
  <1> QED
    BY <1>1 DEF IInv, TypeOK, Asked

\* A call is made in the name of the newest message that asked.
LEMMA CallIs ==
  ASSUME mine \in Windows, NEW i, IsNewest(i), NEW id, Call(id)
  PROVE  at' = [asked |-> mine.talk[i].seq, id |-> id]
  <1>1. /\ mine.talk[i] \in Questions(mine)
        /\ \A q \in Questions(mine) :
              q.seq \in Nat /\ q.seq <= mine.talk[i].seq
    BY WindowTypes DEF IsNewest, Questions
  <1>2. mine.talk[i].seq \in Nat
    BY <1>1
  <1>3. /\ Newest(Questions(mine)) \in Questions(mine)
        /\ mine.talk[i].seq <= Newest(Questions(mine)).seq
    BY <1>1, <1>2, NewestIs
  <1>4. Newest(Questions(mine)).seq = mine.talk[i].seq
    BY <1>1, <1>2, <1>3
  <1> QED
    BY <1>4 DEF Call

LEMMA CallTypesStep == IInv /\ [Next]_vars => CallTypes'
  <1> SUFFICES ASSUME IInv, [Next]_vars PROVE CallTypes'
    OBVIOUS
  <1>0. CallTypes
    BY TypeHalves DEF IInv
  <1> USE DEF CallTypes, durable, worker, history, budget
  <1>1. CASE UNCHANGED vars
    BY <1>0, <1>1 DEF vars
  <1>2. CASE Begin
    BY <1>0, <1>2, EmptyWindow DEF Begin, Labels
  <1>3. ASSUME NEW call \in Unanswered(mine), Recover(call) PROVE CallTypes'
    <2>1. call.id \in Ids /\ call.asked \in Nat
      BY <1>0, UnansweredIs
    <2>2. CASE Recorded(call) # {}
      <3> DEFINE n == Newest(Recorded(call))
      <3>1. n \in Results
        <4>1. /\ Recorded(call) \subseteq results
              /\ \A r \in results : r.seq \in Nat /\ r.seq <= seq
          BY <1>0 DEF Recorded, Results, IInv, Numbered
        <4> QED
          BY <1>0, <2>2, <4>1, NewestIs
      <3>2. /\ mine' = Say(mine, Tells(n.seq, call.id))
            /\ UNCHANGED <<seq, results, saved, taskOpen, pc, todo, at, ranCalls>>
        BY <1>3, <2>2 DEF Recover
      <3> HIDE DEF n
      <3>3. Tells(n.seq, call.id) \in Entries
        BY <2>1, <3>1, EntryTypes DEF Results
      <3>4. mine' \in Windows
        BY <1>0, <3>2, <3>3, SayIs
      <3> QED
        BY <1>0, <3>2, <3>4
    <2>3. CASE Recorded(call) = {}
      <3>1. mine' = Say(mine, Tells(seq + 1, call.id))
        BY <1>3, <2>3 DEF Recover
      <3>2. mine' \in Windows
        <4>1. Tells(seq + 1, call.id) \in Entries
          BY <1>0, <2>1, EntryTypes
        <4> QED
          BY <1>0, <3>1, <4>1, SayIs
      <3> DEFINE r == [seq |-> seq + 1, id |-> call.id, of |-> call.asked,
                       known |-> FALSE]
      <3>3. r \in Results
        BY <1>0, <2>1 DEF Results
      <3>4. results' = results \cup {r} /\ seq' = seq + 1
        BY <1>3, <2>3 DEF Recover
      <3> HIDE DEF r
      <3>5. UNCHANGED <<saved, taskOpen, pc, todo, at, ranCalls>>
        BY <1>3 DEF Recover
      <3> QED
        BY <1>0, <3>2, <3>3, <3>4, <3>5
    <2> QED
      BY <2>2, <2>3
  <1>4. CASE Open
    BY <1>0, <1>4 DEF Open, Labels
  <1>5. ASSUME NEW ids \in SUBSET Ids \ {{}}, Reply(ids) PROVE CallTypes'
    BY <1>0, <1>5 DEF Reply, Labels
  <1>6. CASE Keep
    <2>1. mine' \in Windows
      <3>1. Asks(seq, todo) \in Entries
        BY <1>0 DEF Asks, Entries
      <3> QED
        BY <1>0, <1>6, <3>1, SayIs DEF Keep, Retain
    <2> QED
      BY <1>0, <1>6, <2>1 DEF Keep, Retain, Labels
  <1>7. ASSUME NEW id \in Ids, Call(id) PROVE CallTypes'
    <2>1. PICK i \in DOMAIN mine.talk : IsNewest(i)
      BY <1>7 DEF Call, IInv, InHand
    <2>2. /\ id \in Ids /\ at'.id = id /\ pc' = "calling" /\ seq' = seq + 1
          /\ UNCHANGED <<results, saved, taskOpen, mine, todo, ranCalls>>
      BY <1>7 DEF Call
    <2>3. at' = [asked |-> mine.talk[i].seq, id |-> id]
      BY <1>0, <1>7, <2>1, CallIs
    <2>4. at' \in Hands
      BY <1>0, <2>3, WindowTypes DEF Hands
    <2> QED
      BY <1>0, <2>2, <2>4 DEF Labels
  <1>8. CASE Execute
    <2>1. at \in Asked
      BY <1>8, AtIs DEF Execute
    <2> QED
      BY <1>0, <1>8, <2>1 DEF Execute, Labels
  <1>9. CASE Record
    <2> DEFINE r == [seq |-> seq + 1, id |-> at.id, of |-> at.asked,
                     known |-> TRUE]
    <2>1. r \in Results
      BY <1>0, <1>9, AtIs DEF Record, Results
    <2>2. results' = results \cup {r} /\ seq' = seq + 1
      BY <1>9 DEF Record
    <2> HIDE DEF r
    <2>3. pc' \in Labels /\ UNCHANGED <<saved, mine, taskOpen, todo, at, ranCalls>>
      BY <1>9 DEF Record, Labels
    <2> QED
      BY <1>0, <2>1, <2>2, <2>3
  <1>10. CASE Tell
    <2>1. mine' \in Windows
      BY <1>0, <1>10, AtIs, EntryTypes, SayIs DEF Tell
    <2> QED
      BY <1>0, <1>10, <2>1 DEF Tell, Labels, NoCall, Hands
  <1>11. CASE Install
    <2>1. mine' \in Windows
      <3>1. PICK n \in 1..MaxSteps :
               mine' = [mine EXCEPT !.running = TRUE,
                                    !.program = [left |-> n, pending |-> 0]]
        BY <1>11 DEF Install
      <3>2. [left |-> n, pending |-> 0] \in Programs
        BY ToolCallsAssumption DEF Programs
      <3> QED
        BY <1>0, <3>1, <3>2, RunningIs
    <2> QED
      BY <1>0, <1>11, <2>1 DEF Install
  <1>12. CASE Consume
    <2>1. mine' \in Windows
      BY <1>0, <1>12, ResolvedIs, LeftIs DEF Consume
    <2> QED
      BY <1>0, <1>12, <2>1 DEF Consume
  <1>13. CASE Dispatch
    <2>1. mine' \in Windows
      <3>1. actions \in Nat
        BY TypeHalves DEF IInv, StepTypes
      <3>2. CASE mine' = mine
        BY <1>0, <3>2
      <3>3. CASE mine' = StoppedAt(mine, actions + 1)
        BY <1>0, <3>1, <3>3, PendingIs
      <3>4. mine' = mine \/ mine' = StoppedAt(mine, actions + 1)
        BY <1>13 DEF Dispatch, HandOut
      <3> QED
        BY <3>2, <3>3, <3>4
    <2> QED
      BY <1>0, <1>13, <2>1 DEF Dispatch, HandOut, Labels
  <1>14. CASE ExecuteStep
    BY <1>0, <1>14 DEF ExecuteStep, Labels
  <1>15. CASE RecordStep
    BY <1>0, <1>15 DEF RecordStep, Labels
  <1>16. CASE Resolve
    <2>1. mine' \in Windows
      BY <1>0, <1>16, ResolvedIs, LeftIs DEF Resolve
    <2> QED
      BY <1>0, <1>16, <2>1 DEF Resolve, Labels
  <1>17. CASE Rewrite
    <2>1. mine' \in Windows
      <3>1. NoProgram \in Programs
        BY ToolCallsAssumption DEF Programs, NoProgram
      <3> QED
        BY <1>0, <1>17, <3>1, RunningIs DEF Rewrite
    <2> QED
      BY <1>0, <1>17, <2>1 DEF Rewrite
  <1>18. CASE Finish
    <2>1. seq' \in Nat /\ pc' \in Labels /\ ranCalls' = {} /\ taskOpen' = FALSE
      BY <1>0, <1>18 DEF Finish, Labels
    <2>2. saved' = Empty /\ mine' = Empty /\ UNCHANGED <<results, todo, at>>
      BY <1>18 DEF Finish
    <2> QED
      BY <1>0, <2>1, <2>2, EmptyWindow
  <1>19. CASE Stop
    BY <1>0, <1>19, EmptyWindow DEF Stop, NoCall, Labels, Hands
  <1> QED
    BY <1>1, <1>2, <1>3, <1>4, <1>5, <1>6, <1>7, <1>8, <1>9, <1>10, <1>11,
       <1>12, <1>13, <1>14, <1>15, <1>16, <1>17, <1>18, <1>19 DEF Next

-----------------------------------------------------------------------------
(* The context in memory and the saved one                                 *)

LEMMA ContextStep == IInv /\ [Next]_vars => (Working /\ Carried)'
  <1> SUFFICES ASSUME IInv, [Next]_vars PROVE (Working /\ Carried)'
    OBVIOUS
  <1>0. Working /\ Carried /\ mine \in Windows /\ saved \in Windows
    BY DEF IInv, TypeOK
  <1> USE DEF Working, Carried, durable, worker, history, budget
  <1>1. CASE UNCHANGED vars
    BY <1>0, <1>1 DEF vars
  <1>2. CASE Begin
    <2>1. mine' = saved /\ pc' = "recover" /\ UNCHANGED <<saved, taskOpen>>
      BY <1>0, <1>2 DEF Begin
    <2>2. Len(saved.talk) \in Nat
      BY <1>0, WindowTypes
    <2> QED
      BY <1>0, <2>1, <2>2
  <1>3. ASSUME NEW call \in Unanswered(mine), Recover(call)
        PROVE  (Working /\ Carried)'
    <2>1. call.id \in Ids /\ call.asked \in Nat
      BY <1>0, UnansweredIs
    <2>2. PICK n \in Nat : mine' = Say(mine, Tells(n, call.id))
      <3>1. seq \in Nat /\ results \subseteq Results
        BY TypeHalves DEF IInv, CallTypes
      <3>2. CASE Recorded(call) = {}
        BY <1>3, <3>1, <3>2 DEF Recover
      <3>3. CASE Recorded(call) # {}
        <4>1. Newest(Recorded(call)) \in results
          <5>1. \A r \in Recorded(call) : r.seq \in Nat /\ r.seq <= seq
            BY <3>1 DEF IInv, Numbered, Recorded, Results
          <5>2. Newest(Recorded(call)) \in Recorded(call)
            BY <3>1, <3>3, <5>1, NewestIs
          <5> QED
            BY <5>2 DEF Recorded
        <4>2. Newest(Recorded(call)).seq \in Nat
          BY <3>1, <4>1 DEF Results
        <4> QED
          BY <1>3, <3>3, <4>2 DEF Recover
      <3> QED
        BY <3>2, <3>3
    <2>3. /\ mine'.program = mine.program /\ mine'.running = mine.running
          /\ Len(mine'.talk) = Len(mine.talk) + 1
          /\ \A i \in DOMAIN mine.talk : mine'.talk[i] = mine.talk[i]
      BY <1>0, <2>1, <2>2, EntryTypes, SayIs
    <2>4. /\ Len(saved.talk) \in Nat /\ Len(mine.talk) \in Nat
          /\ DOMAIN saved.talk = 1 .. Len(saved.talk)
          /\ DOMAIN mine.talk = 1 .. Len(mine.talk)
      BY <1>0, WindowTypes
    <2>5. UNCHANGED <<saved, taskOpen, pc>> /\ pc = "recover"
      BY <1>3 DEF Recover
    <2> QED
      BY <1>0, <2>3, <2>4, <2>5
  <1>4. CASE Open
    BY <1>0, <1>4 DEF Open
  <1>5. ASSUME NEW ids \in SUBSET Ids \ {{}}, Reply(ids)
        PROVE  (Working /\ Carried)'
    BY <1>0, <1>5 DEF Reply
  <1>6. CASE Keep
    BY <1>0, <1>6 DEF Keep, Retain
  <1>7. ASSUME NEW id \in Ids, Call(id) PROVE (Working /\ Carried)'
    BY <1>0, <1>7 DEF Call
  <1>8. CASE Execute \/ Record
    BY <1>0, <1>8 DEF Execute, Record
  <1>9. CASE Tell
    BY <1>0, <1>9 DEF Tell
  <1>10. CASE Install \/ Consume \/ Resolve \/ Rewrite
    <2>1. /\ saved' = mine' /\ pc' \notin {"idle", "recover"}
          /\ UNCHANGED taskOpen /\ taskOpen
      BY <1>0, <1>10 DEF Install, Consume, Resolve, Rewrite
    <2> QED
      BY <1>0, <2>1
  <1>11. CASE Dispatch
    <2>1. /\ saved' = mine' /\ pc' = "step" /\ UNCHANGED taskOpen /\ taskOpen
      BY <1>0, <1>11 DEF Dispatch, HandOut
    <2> QED
      BY <2>1
  <1>12. CASE ExecuteStep \/ RecordStep
    BY <1>0, <1>12 DEF ExecuteStep, RecordStep
  <1>13. CASE Finish \/ Stop
    BY <1>0, <1>13 DEF Finish, Stop
  <1> QED
    BY <1>1, <1>2, <1>3, <1>4, <1>5, <1>6, <1>7, <1>8, <1>9, <1>10, <1>11,
       <1>12, <1>13 DEF Next

-----------------------------------------------------------------------------
(* The steps of programs                                                   *)

StepsInv == StepTypes /\ Stepping /\ StepsAccounted /\ RecordedStepsOnce

LEMMA StepsStep == IInv /\ [Next]_vars => StepsInv'
  <1> SUFFICES ASSUME IInv, [Next]_vars PROVE StepsInv'
    OBVIOUS
  <1>0. /\ StepsInv /\ Working /\ Carried /\ mine \in Windows /\ saved \in Windows
        /\ saved.program.pending \in Nat /\ saved.program.left \in Nat
        /\ pc \in Labels
    BY TypeHalves, WindowTypes DEF IInv, StepsInv, CallTypes
  <1> USE DEF StepsInv, StepTypes, Stepping, StepsAccounted, RecordedStepsOnce,
              Times, durable, worker, history, budget
  <1>1. CASE UNCHANGED vars
    BY <1>0, <1>1 DEF vars
  <1>2. CASE Begin
    BY <1>0, <1>2 DEF Begin
  <1>3. ASSUME NEW call \in Unanswered(mine), Recover(call) PROVE StepsInv'
    BY <1>0, <1>3 DEF Recover
  <1>4. CASE Open
    <2>1. mine.program = saved.program /\ mine.running = saved.running
      BY <1>0, <1>4 DEF Open, Carried
    <2>2. /\ saved'.program = saved.program /\ saved'.running = saved.running
          /\ pc' = "loop" /\ pc = "recover"
          /\ UNCHANGED <<receipts, actions, ranSteps, cut>>
      BY <1>4, <2>1 DEF Open
    <2> QED
      BY <1>0, <2>2
  <1>5. ASSUME NEW ids \in SUBSET Ids \ {{}}, Reply(ids) PROVE StepsInv'
    BY <1>0, <1>5 DEF Reply, Working
  <1>6. CASE Keep
    <2>1. /\ mine'.program = mine.program /\ mine'.running = mine.running
      BY <1>0, <1>6 DEF Keep, Retain, Say, Windows
    <2>2. /\ saved'.program = saved.program /\ saved'.running = saved.running
          /\ pc' = "calls" /\ pc = "replied"
          /\ UNCHANGED <<receipts, actions, ranSteps, cut>>
      BY <1>0, <1>6, <2>1 DEF Keep, Retain, Working
    <2> QED
      BY <1>0, <2>2
  <1>7. ASSUME NEW id \in Ids, Call(id) PROVE StepsInv'
    BY <1>0, <1>7 DEF Call
  <1>8. CASE Execute \/ Record
    BY <1>0, <1>8 DEF Execute, Record
  <1>9. CASE Tell
    <2>1. /\ mine'.program = mine.program /\ mine'.running = mine.running
      BY <1>0, <1>9 DEF Tell, Say, Windows
    <2>2. /\ saved'.program = saved.program /\ saved'.running = saved.running
          /\ pc' \in {"loop", "calls"} /\ pc = "recorded"
          /\ UNCHANGED <<receipts, actions, ranSteps, cut>>
      BY <1>0, <1>9, <2>1 DEF Tell, Working
    <2> QED
      BY <1>0, <2>2
  <1>10. CASE Install
    <2>1. PICK n \in 1..MaxSteps :
             mine' = [mine EXCEPT !.running = TRUE,
                                  !.program = [left |-> n, pending |-> 0]]
      BY <1>10 DEF Install
    <2>2. [left |-> n, pending |-> 0] \in Programs
      BY ToolCallsAssumption DEF Programs
    <2>3. mine'.running = TRUE /\ mine'.program = [left |-> n, pending |-> 0]
      BY <1>0, <2>1, <2>2, RunningIs
    <2>4. /\ saved'.running = TRUE /\ saved'.program.pending = 0
          /\ saved.program.pending = 0 /\ pc = "loop" /\ pc' = "loop"
          /\ UNCHANGED <<receipts, actions, ranSteps, cut>>
      BY <1>0, <1>10, <2>3 DEF Install, Working
    <2> QED
      BY <1>0, <2>4
  <1>11. CASE Consume \/ Resolve
    <2>1. /\ mine = saved /\ saved.program.left > 0
          /\ saved.program.pending \in receipts
          /\ mine' = Resolved(mine) /\ saved' = mine' /\ pc' = "loop"
          /\ UNCHANGED <<receipts, actions, ranSteps, cut>>
      BY <1>0, <1>11, LeftIs DEF Consume, Resolve, Working, Receipt
    <2>2. /\ saved'.running = saved.running /\ saved'.program.pending = 0
      <3>1. saved \in Windows
        BY <1>0
      <3> DEFINE p == [left |-> saved.program.left - 1, pending |-> 0]
      <3>3. Resolved(saved).running = saved.running /\ Resolved(saved).program = p
        BY <2>1, <3>1, ResolvedIs, Zenon
      <3>4. p.pending = 0
        OBVIOUS
      <3>2. /\ Resolved(saved).running = saved.running
            /\ Resolved(saved).program.pending = 0
        BY <3>3, <3>4, Zenon
      <3> QED
        BY <2>1, <3>2
    <2> QED
      BY <1>0, <2>1, <2>2
  <1>12. CASE Dispatch
    <2>1. /\ mine = saved /\ mine.program.left > 0 /\ saved' = mine'
          /\ pc = "loop" /\ pc' = "step" /\ UNCHANGED <<receipts, ranSteps, cut>>
      BY <1>0, <1>12 DEF Dispatch, HandOut, Working
    <2>2. CASE /\ mine.program.pending = 0 /\ actions' = actions + 1
               /\ mine' = StoppedAt(mine, actions')
      <3>1. /\ saved'.running = saved.running
            /\ saved'.program.pending = actions + 1
            /\ saved'.program.left = saved.program.left
        BY <1>0, <2>1, <2>2, PendingIs
      <3>2. actions + 1 \notin receipts /\ 1..actions' = 1..actions \cup {actions + 1}
        BY <1>0, <2>2
      <3>3. saved.running
        BY <1>0, <2>1
      <3>4. StepTypes'
        BY <1>0, <2>1, <2>2, <3>2
      <3>5. Stepping'
        <4>1. /\ pc' = "step" /\ saved'.running /\ saved'.program.left > 0
              /\ saved'.program.pending = actions' /\ actions' \in Nat \ {0}
              /\ actions' \notin receipts'
          <5>1. actions \in Nat
            BY <1>0
          <5>2. saved.program.left > 0
            BY <2>1, Zenon
          <5>3. saved'.running
            BY <3>1, <3>3, Zenon
          <5>4. saved'.program.left > 0
            BY <3>1, <5>2, Zenon
          <5>5. actions' = actions + 1 /\ saved'.program.pending = actions + 1
            BY <2>2, <3>1, Zenon
          <5>6. pc' = "step" /\ receipts' = receipts /\ actions + 1 \notin receipts
            BY <2>1, <3>2, Zenon
          <5> QED
            BY <5>1, <5>3, <5>4, <5>5, <5>6
        <4>2. \A a \in DOMAIN ranSteps' : a \in receipts' \/ a \in cut'
          BY <1>0, <2>1
        <4> QED
          BY <4>1, <4>2
      <3>7. RecordedStepsOnce'
        BY <1>0, <2>1
      <3>6. StepsAccounted'
        BY <1>0, <2>1, <2>2, <3>1, <3>2
      <3> QED
        BY <3>4, <3>5, <3>6, <3>7
    <2>3. CASE /\ mine.program.pending # 0 /\ ~Receipt(mine.program.pending)
               /\ UNCHANGED <<actions, mine>>
      BY <1>0, <2>1, <2>3 DEF Receipt
    <2> QED
      BY <1>12, <2>2, <2>3 DEF Dispatch, HandOut
  <1>13. CASE ExecuteStep
    <2>1. /\ mine = saved /\ pc = "step" /\ pc' = "stepped"
          /\ UNCHANGED <<saved, receipts, actions, cut>>
      BY <1>0, <1>13 DEF ExecuteStep, Working
    <2>2. CASE UNCHANGED ranSteps
      BY <1>0, <2>1, <2>2
    <2> DEFINE a == saved.program.pending
    <2>3. CASE ranSteps' = [b \in DOMAIN ranSteps \cup {a} |->
                               Times(b) + IF a = b THEN 1 ELSE 0]
      <3>1. a \in 1..actions /\ a \notin receipts
        BY <1>0, <2>1
      <3>2. a \in DOMAIN ranSteps => a \in cut
        BY <1>0, <2>1, <3>1
      <3>3. DOMAIN ranSteps' = DOMAIN ranSteps \cup {a}
        BY <2>3
      <3>4. \A b \in DOMAIN ranSteps \ {a} : ranSteps'[b] = ranSteps[b]
        BY <1>0, <2>3
      <3>5. /\ ranSteps'[a] \in Nat \ {0}
            /\ a \notin DOMAIN ranSteps => ranSteps'[a] = 1
        BY <1>0, <2>3
      <3> HIDE DEF a
      <3>6. StepTypes'
        BY <1>0, <2>1, <3>1, <3>3, <3>4, <3>5
      <3>7. (Stepping /\ StepsAccounted)'
        BY <1>0, <2>1, <3>3 DEF a
      <3>8. RecordedStepsOnce'
        BY <1>0, <2>1, <3>2, <3>3, <3>4, <3>5
      <3> QED
        BY <3>6, <3>7, <3>8
    <2> QED
      BY <1>13, <2>1, <2>2, <2>3 DEF ExecuteStep
  <1>14. CASE RecordStep
    <2>1. /\ mine = saved /\ pc = "stepped" /\ pc' = "resolve"
          /\ receipts' = receipts \cup {saved.program.pending}
          /\ UNCHANGED <<saved, actions, ranSteps, cut>>
      BY <1>0, <1>14 DEF RecordStep, Working
    <2>2. saved.program.pending \in 1..actions
      BY <1>0, <2>1
    <2>3. StepTypes' /\ StepsAccounted' /\ RecordedStepsOnce'
      BY <1>0, <2>1, <2>2
    <2>4. Stepping'
      BY <1>0, <2>1
    <2> QED
      BY <2>3, <2>4
  <1>15. CASE Rewrite
    <2>1. NoProgram \in Programs
      BY ToolCallsAssumption DEF Programs, NoProgram
    <2>2. mine'.running = FALSE /\ mine'.program = NoProgram
      BY <1>0, <1>15, <2>1, RunningIs DEF Rewrite
    <2>3. /\ saved'.running = FALSE
          /\ saved'.program.pending = 0 /\ saved'.program.left = 0
          /\ saved.program.pending = 0 /\ pc = "loop" /\ pc' = "loop"
          /\ UNCHANGED <<receipts, actions, ranSteps, cut>>
      BY <1>0, <1>15, <2>2 DEF Rewrite, Working, NoProgram
    <2> QED
      BY <1>0, <2>3
  <1>16. CASE Finish
    <2>1. /\ saved'.running = FALSE
          /\ saved'.program.pending = 0 /\ saved'.program.left = 0
          /\ saved.program.pending = 0 /\ pc = "loop" /\ pc' = "idle"
          /\ UNCHANGED <<receipts, actions, ranSteps, cut>>
      BY <1>0, <1>16 DEF Finish, Working, Empty, NoProgram
    <2> QED
      BY <1>0, <2>1
  <1>17. CASE Stop
    <2>1. /\ UNCHANGED <<saved, receipts, actions, ranSteps>> /\ pc' = "idle"
          /\ cut' = IF pc = "stepped" THEN cut \cup {saved.program.pending} ELSE cut
      BY <1>0, <1>17 DEF Stop, Working
    <2> QED
      BY <1>0, <2>1
  <1> QED
    BY <1>1, <1>2, <1>3, <1>4, <1>5, <1>6, <1>7, <1>8, <1>9, <1>10, <1>11,
       <1>12, <1>13, <1>14, <1>15, <1>16, <1>17 DEF Next

-----------------------------------------------------------------------------
(* The calls of the model                                                  *)

CallsInv == Numbered /\ InHand /\ OneResult /\ EffectsAreKnown

\* Nothing that was known to be asked is forgotten by a context that only grows.
LEMMA StillKnown ==
  ASSUME EffectsAreKnown, ranCalls' = ranCalls,
         \A i \in DOMAIN saved.talk :
            i \in DOMAIN saved'.talk /\ saved'.talk[i] = saved.talk[i]
  PROVE  EffectsAreKnown'
  BY DEF EffectsAreKnown

\* A step that leaves the messages, the results and the effects alone, outside
\* of the calls of a message.
LEMMA Elsewhere ==
  ASSUME CallTypes, CallsInv, UNCHANGED <<results, ranCalls>>,
         mine'.talk = mine.talk, saved'.talk = saved.talk,
         seq' \in Nat, seq <= seq',
         pc' \notin {"replied", "calls", "calling", "called", "recorded"}
  PROVE  CallsInv'
  <1>1. EffectsAreKnown'
    BY StillKnown DEF CallsInv
  <1>2. OneResult' /\ InHand'
    BY DEF CallsInv, OneResult, InHand
  <1>3. Numbered'
    <2>1. /\ \A i \in DOMAIN mine.talk : mine.talk[i].seq \in Nat
          /\ \A i \in DOMAIN saved.talk : saved.talk[i].seq \in Nat
          /\ \A r \in results : r.seq \in Nat /\ r.of \in Nat
      BY WindowTypes DEF CallTypes, Results
    <2> QED
      BY <2>1 DEF CallsInv, CallTypes, Numbered
  <1> QED
    BY <1>1, <1>2, <1>3 DEF CallsInv

\* An answer behind the other entries is the only one that may raise a bound.
LEMMA ToldIs ==
  ASSUME mine \in Windows, NEW n \in Nat, NEW id \in Ids, NEW bound \in Nat,
         n <= bound, \A j \in DOMAIN mine.talk : mine.talk[j].seq <= bound
  PROVE  \A j \in DOMAIN Say(mine, Tells(n, id)).talk :
            Say(mine, Tells(n, id)).talk[j].seq <= bound
  <1> DEFINE e == Tells(n, id)
  <1>1. e \in Entries /\ e.seq = n
    BY DEF Tells, Entries
  <1> HIDE DEF e
  <1>2. /\ Say(mine, e).talk[Len(mine.talk) + 1] = e
        /\ \A j \in DOMAIN mine.talk : Say(mine, e).talk[j] = mine.talk[j]
        /\ DOMAIN Say(mine, e).talk = 1 .. Len(mine.talk) + 1
        /\ DOMAIN mine.talk = 1 .. Len(mine.talk) /\ Len(mine.talk) \in Nat
    BY <1>1, SayIs, WindowTypes
  <1>3. ASSUME NEW j \in DOMAIN Say(mine, e).talk
        PROVE  Say(mine, e).talk[j].seq <= bound
    <2>1. CASE j = Len(mine.talk) + 1
      BY <1>1, <1>2, <2>1
    <2>2. CASE j \in DOMAIN mine.talk
      BY <1>2, <2>2
    <2> QED
      BY <1>2, <2>1, <2>2
  <1> QED
    BY <1>3 DEF e

\* The steps of a program, between its installation and its end, change the
\* program in the context and leave the messages alone.
LEMMA ProgramStep ==
  ASSUME IInv, Install \/ Consume \/ Dispatch \/ Resolve \/ Rewrite
  PROVE  /\ UNCHANGED <<results, ranCalls>> /\ seq' \in {seq, seq + 1}
         /\ saved' = mine' /\ pc' \in {"loop", "step"}
         /\ pc \in {"loop", "resolve"} /\ mine = saved /\ mine'.talk = mine.talk
  <1>t. mine \in Windows
    BY TypeHalves DEF IInv, CallTypes
  <1> USE DEF durable, worker, history, budget
  <1>1. /\ UNCHANGED <<results, ranCalls>> /\ seq' \in {seq, seq + 1}
        /\ saved' = mine' /\ pc' \in {"loop", "step"}
        /\ pc \in {"loop", "resolve"}
    <2>1. CASE Install
      BY <2>1 DEF Install
    <2>2. CASE Rewrite
      BY <2>2 DEF Rewrite
    <2>3. CASE Consume
      BY <2>3 DEF Consume
    <2>4. CASE Resolve
      BY <2>4 DEF Resolve
    <2>5. CASE Dispatch
      BY <2>5 DEF Dispatch, HandOut
    <2> QED
      BY <2>1, <2>2, <2>3, <2>4, <2>5
  <1>2. mine = saved
    BY <1>1 DEF IInv, Working
  <1>3. mine'.talk = mine.talk
    <2>1. CASE Install
      <3>1. PICK n \in 1..MaxSteps :
               mine' = [mine EXCEPT !.running = TRUE,
                                    !.program = [left |-> n, pending |-> 0]]
        BY <2>1 DEF Install
      <3> QED
        BY <1>t, <3>1 DEF Windows
    <2>2. CASE Rewrite
      BY <1>t, <2>2 DEF Rewrite, Windows
    <2>3. CASE Consume \/ Resolve
      <3>1. mine' = Resolved(mine)
        BY <2>3 DEF Consume, Resolve
      <3> QED
        BY <1>t, <3>1 DEF Resolved, Windows
    <2>4. CASE Dispatch
      <3>1. \/ mine' = mine
            \/ mine' = StoppedAt(mine, actions')
        BY <2>4 DEF Dispatch, HandOut
      <3> QED
        BY <1>t, <3>1 DEF StoppedAt, Windows
    <2> QED
      BY <2>1, <2>2, <2>3, <2>4
  <1> QED
    BY <1>1, <1>2, <1>3

LEMMA CallsStep == IInv /\ [Next]_vars => CallsInv'
  <1> SUFFICES ASSUME IInv, [Next]_vars PROVE CallsInv'
    OBVIOUS
  <1>0. CallTypes /\ CallsInv /\ Working /\ Carried
    BY TypeHalves DEF IInv, CallsInv
  <1>t. /\ seq \in Nat /\ mine \in Windows /\ saved \in Windows
        /\ \A r \in results : r.seq \in Nat /\ r.of \in Nat /\ r.id \in Ids
    BY <1>0 DEF CallTypes, Results
  <1>n. /\ \A i \in DOMAIN mine.talk : mine.talk[i].seq \in Nat
        /\ \A i \in DOMAIN saved.talk : saved.talk[i].seq \in Nat
    BY <1>t, WindowTypes
  <1> USE DEF durable, worker, history, budget
  <1>1. CASE UNCHANGED vars
    BY <1>0, <1>1 DEF vars, CallsInv, Numbered, InHand, IsNewest, OneResult,
                      EffectsAreKnown
  <1>2. CASE Begin
    <2>1. /\ mine' = saved /\ pc' = "recover"
          /\ UNCHANGED <<seq, results, saved, ranCalls>>
      BY <1>0, <1>2 DEF Begin, Carried
    <2> QED
      BY <1>0, <2>1 DEF CallsInv, Numbered, InHand, OneResult, EffectsAreKnown
  <1>3. ASSUME NEW call \in Unanswered(mine), Recover(call) PROVE CallsInv'
    <2>1. PICK i \in DOMAIN mine.talk :
             /\ call.id \in Ids /\ call.asked \in Nat
             /\ call.asked = mine.talk[i].seq
      BY <1>t, UnansweredIs
    <2>2. pc' = "recover" /\ UNCHANGED <<saved, ranCalls>>
      BY <1>3 DEF Recover
    <2>3. EffectsAreKnown' /\ InHand'
      BY <1>0, <2>2 DEF CallsInv, EffectsAreKnown, InHand
    <2>4. CASE Recorded(call) # {}
      <3> DEFINE r == Newest(Recorded(call))
      <3>1. r \in results
        <4>1. /\ Recorded(call) \subseteq results
              /\ \A q \in results : q.seq \in Nat /\ q.seq <= seq
          BY <1>0, <1>t DEF Recorded, CallsInv, Numbered
        <4> QED
          BY <1>t, <2>4, <4>1, NewestIs
      <3>2. mine' = Say(mine, Tells(r.seq, call.id)) /\ UNCHANGED <<seq, results>>
        BY <1>3, <2>4 DEF Recover
      <3> HIDE DEF r
      <3>3. r.seq \in Nat /\ r.seq <= seq
        BY <1>0, <1>t, <3>1 DEF CallsInv, Numbered
      <3>4. \A j \in DOMAIN mine'.talk : mine'.talk[j].seq <= seq
        BY <1>0, <1>t, <2>1, <3>2, <3>3, ToldIs DEF CallsInv, Numbered
      <3>5. Numbered'
        BY <1>0, <2>2, <3>2, <3>4 DEF CallsInv, Numbered
      <3> QED
        BY <1>0, <2>3, <3>2, <3>5 DEF CallsInv, OneResult
    <2>5. CASE Recorded(call) = {}
      <3> DEFINE new == [seq |-> seq + 1, id |-> call.id, of |-> call.asked,
                         known |-> FALSE]
      <3>1. /\ mine' = Say(mine, Tells(seq + 1, call.id)) /\ seq' = seq + 1
            /\ results' = results \cup {new}
        BY <1>3, <2>5 DEF Recover
      <3>2. new.seq = seq + 1 /\ new.id = call.id /\ new.of = call.asked
        OBVIOUS
      <3> HIDE DEF new
      <3>3. \A r \in results : ~(r.id = call.id /\ r.of = call.asked)
        <4>1. \A r \in results : r.id = call.id => ~(r.seq > call.asked)
          BY <2>5 DEF Recorded
        <4>2. \A r \in results : r.of < r.seq
          BY <1>0 DEF CallsInv, Numbered
        <4> QED
          BY <1>t, <2>1, <4>1, <4>2
      <3>4. OneResult'
        BY <1>0, <3>1, <3>2, <3>3 DEF CallsInv, OneResult
      <3>5. \A j \in DOMAIN mine'.talk : mine'.talk[j].seq <= seq + 1
        <4>1. \A j \in DOMAIN mine.talk : mine.talk[j].seq <= seq + 1
          BY <1>0, <1>t, <1>n DEF CallsInv, Numbered
        <4> QED
          BY <1>t, <2>1, <3>1, <4>1, ToldIs
      <3>6. new.of < new.seq
        BY <1>0, <1>t, <2>1, <3>2 DEF CallsInv, Numbered
      <3>7. Numbered'
        BY <1>0, <1>t, <1>n, <2>2, <3>1, <3>2, <3>5, <3>6 DEF CallsInv, Numbered
      <3> QED
        BY <2>3, <3>4, <3>7 DEF CallsInv
    <2> QED
      BY <2>4, <2>5
  <1>4. CASE Open
    <2>1. /\ saved' = mine /\ mine' = mine /\ seq' = seq + 1 /\ pc' = "loop"
          /\ UNCHANGED <<results, ranCalls>>
      BY <1>4 DEF Open
    <2>2. \A i \in DOMAIN saved.talk :
             i \in DOMAIN mine.talk /\ mine.talk[i] = saved.talk[i]
      <3>1. /\ Len(saved.talk) <= Len(mine.talk)
            /\ \A i \in DOMAIN saved.talk : mine.talk[i] = saved.talk[i]
        BY <1>0, <1>4 DEF Carried, Open
      <3>2. /\ DOMAIN mine.talk = 1 .. Len(mine.talk) /\ Len(mine.talk) \in Nat
            /\ DOMAIN saved.talk = 1 .. Len(saved.talk) /\ Len(saved.talk) \in Nat
        BY <1>t, WindowTypes
      <3> QED
        BY <3>1, <3>2
    <2>3. EffectsAreKnown'
      BY <1>0, <2>1, <2>2, StillKnown DEF CallsInv
    <2>4. Numbered'
      BY <1>0, <1>t, <1>n, <2>1 DEF CallsInv, Numbered
    <2> QED
      BY <1>0, <2>1, <2>3, <2>4 DEF CallsInv, InHand, OneResult
  <1>5. ASSUME NEW ids \in SUBSET Ids \ {{}}, Reply(ids) PROVE CallsInv'
    <2>1. /\ seq' = seq + 1 /\ pc' = "replied"
          /\ UNCHANGED <<results, mine, saved, ranCalls>>
      BY <1>5 DEF Reply
    <2>2. Numbered'
      BY <1>0, <1>t, <1>n, <2>1 DEF CallsInv, Numbered
    <2> QED
      BY <1>0, <2>1, <2>2 DEF CallsInv, InHand, OneResult, EffectsAreKnown
  <1>6. CASE Keep
    <2> DEFINE n == Len(mine.talk) + 1
               e == Asks(seq, todo)
    <2>1. /\ mine = saved /\ mine' = Say(mine, e) /\ saved' = mine'
          /\ pc = "replied" /\ pc' = "calls"
          /\ UNCHANGED <<seq, results, todo, at, ranCalls>>
      BY <1>0, <1>6 DEF Keep, Retain, Working
    <2>2. e \in Entries /\ e.kind = "asks" /\ e.seq = seq /\ e.ids = todo
      BY <1>0, <1>t DEF Asks, Entries, CallTypes
    <2> HIDE DEF e
    <2>3. /\ mine'.talk[n] = e /\ n \in DOMAIN mine'.talk
          /\ DOMAIN mine'.talk = DOMAIN mine.talk \cup {n}
          /\ \A i \in DOMAIN mine.talk : mine'.talk[i] = mine.talk[i]
      <3>1. /\ Len(mine.talk) \in Nat /\ DOMAIN mine.talk = 1 .. Len(mine.talk)
            /\ DOMAIN mine'.talk = 1 .. n
        BY <1>t, <2>1, <2>2, WindowTypes, SayIs
      <3>2. /\ mine'.talk[n] = e
            /\ \A i \in DOMAIN mine.talk : mine'.talk[i] = mine.talk[i]
        BY <1>t, <2>1, <2>2, SayIs
      <3> QED
        BY <3>1, <3>2
    <2> HIDE DEF n
    <2>4. EffectsAreKnown'
      BY <1>0, <2>1, <2>3, StillKnown DEF CallsInv
    <2>5. Numbered'
      BY <1>0, <1>t, <2>1, <2>2, <2>3 DEF CallsInv, Numbered
    <2>6. \A j \in DOMAIN mine'.talk : mine'.talk[j].seq <= seq
      BY <2>1, <2>5 DEF Numbered
    <2>7. \A r \in results : r.of # seq
      BY <1>0, <1>t, <2>1 DEF CallsInv, Numbered
    <2>8. InHand'
      BY <2>1, <2>2, <2>3, <2>6, <2>7 DEF InHand, IsNewest
    <2> QED
      BY <1>0, <2>1, <2>4, <2>5, <2>8 DEF CallsInv, OneResult
  <1>7. ASSUME NEW id \in Ids, Call(id) PROVE CallsInv'
    <2>1. /\ pc = "calls" /\ id \in todo /\ seq' = seq + 1 /\ pc' = "calling"
          /\ UNCHANGED <<results, saved, mine, todo, ranCalls>>
      BY <1>7 DEF Call
    <2>2. PICK i \in DOMAIN mine.talk :
             /\ IsNewest(i) /\ todo \subseteq mine.talk[i].ids
             /\ \A r \in results : ~(r.of = mine.talk[i].seq /\ r.id \in todo)
      BY <1>0, <2>1 DEF CallsInv, InHand
    <2>3. at' = [asked |-> mine.talk[i].seq, id |-> id]
      BY <1>t, <1>7, <2>2, CallIs
    <2>4. InHand'
      BY <2>1, <2>2, <2>3 DEF InHand, IsNewest
    <2>5. Numbered'
      BY <1>0, <1>t, <1>n, <2>1 DEF CallsInv, Numbered
    <2> QED
      BY <1>0, <2>1, <2>4, <2>5 DEF CallsInv, OneResult, EffectsAreKnown
  <1>8. CASE Execute
    <2>1. /\ pc = "calling" /\ pc' = "called" /\ mine = saved
          /\ UNCHANGED <<seq, results, saved, mine, todo, at>>
          /\ ranCalls' \subseteq ranCalls \cup {at}
      BY <1>0, <1>8 DEF Execute, Working
    <2>2. PICK i \in DOMAIN mine.talk :
             /\ IsNewest(i) /\ todo \subseteq mine.talk[i].ids
             /\ at.asked = mine.talk[i].seq /\ at.id \in todo
             /\ \A r \in results : ~(r.of = mine.talk[i].seq /\ r.id \in todo)
      BY <1>0, <2>1 DEF CallsInv, InHand
    <2>3. EffectsAreKnown'
      BY <1>0, <2>1, <2>2 DEF CallsInv, EffectsAreKnown, IsNewest
    <2>4. InHand'
      BY <2>1, <2>2 DEF InHand, IsNewest
    <2> QED
      BY <1>0, <2>1, <2>3, <2>4 DEF CallsInv, OneResult, Numbered
  <1>9. CASE Record
    <2> DEFINE new == [seq |-> seq + 1, id |-> at.id, of |-> at.asked, known |-> TRUE]
    <2>1. /\ pc = "called" /\ pc' = "recorded" /\ seq' = seq + 1
          /\ results' = results \cup {new}
          /\ UNCHANGED <<saved, mine, todo, at, ranCalls>>
      BY <1>9 DEF Record
    <2>2. new.seq = seq + 1 /\ new.id = at.id /\ new.of = at.asked
      OBVIOUS
    <2> HIDE DEF new
    <2>3. PICK i \in DOMAIN mine.talk :
             /\ IsNewest(i) /\ todo \subseteq mine.talk[i].ids
             /\ at.asked = mine.talk[i].seq /\ at.id \in todo
             /\ \A r \in results : ~(r.of = mine.talk[i].seq /\ r.id \in todo)
      BY <1>0, <2>1 DEF CallsInv, InHand
    <2>4. OneResult'
      BY <1>0, <2>1, <2>2, <2>3 DEF CallsInv, OneResult
    <2>5. InHand'
      BY <2>1, <2>2, <2>3 DEF InHand, IsNewest
    <2>6. Numbered'
      <3>1. new.of < new.seq /\ new.seq = seq'
        BY <1>0, <1>t, <1>n, <2>1, <2>2, <2>3 DEF CallsInv, Numbered
      <3> QED
        BY <1>0, <1>t, <1>n, <2>1, <3>1 DEF CallsInv, Numbered
    <2> QED
      BY <1>0, <2>1, <2>4, <2>5, <2>6 DEF CallsInv, EffectsAreKnown
  <1>10. CASE Tell
    <2> DEFINE n == Len(mine.talk) + 1
               e == Tells(seq, at.id)
    <2>1. /\ mine = saved /\ mine' = Say(mine, e) /\ saved' = mine'
          /\ pc = "recorded" /\ todo' = todo \ {at.id} /\ pc' \in {"loop", "calls"}
          /\ UNCHANGED <<seq, results, ranCalls>>
      BY <1>0, <1>10 DEF Tell, Working
    <2>2. e \in Entries /\ e.kind = "tells" /\ e.seq = seq
      <3>1. at.id \in Ids
        BY <1>10, AtIs DEF Tell
      <3> QED
        BY <1>t, <3>1 DEF Tells, Entries
    <2> HIDE DEF e
    <2>3. /\ mine'.talk[n] = e
          /\ DOMAIN mine'.talk = DOMAIN mine.talk \cup {n}
          /\ \A i \in DOMAIN mine.talk : mine'.talk[i] = mine.talk[i]
      <3>1. /\ Len(mine.talk) \in Nat /\ DOMAIN mine.talk = 1 .. Len(mine.talk)
            /\ DOMAIN mine'.talk = 1 .. n
        BY <1>t, <2>1, <2>2, WindowTypes, SayIs
      <3>2. /\ mine'.talk[n] = e
            /\ \A i \in DOMAIN mine.talk : mine'.talk[i] = mine.talk[i]
        BY <1>t, <2>1, <2>2, SayIs
      <3> QED
        BY <3>1, <3>2
    <2> HIDE DEF n
    <2>4. EffectsAreKnown'
      BY <1>0, <2>1, <2>3, StillKnown DEF CallsInv
    <2>5. Numbered'
      BY <1>0, <1>t, <2>1, <2>2, <2>3 DEF CallsInv, Numbered
    <2>6. PICK i \in DOMAIN mine.talk :
             /\ IsNewest(i) /\ todo \subseteq mine.talk[i].ids
             /\ \A r \in results :
                   r.of = mine.talk[i].seq /\ r.id \in todo => r.id = at.id
      BY <1>0, <2>1 DEF CallsInv, InHand
    <2>7. /\ i \in DOMAIN mine'.talk /\ mine'.talk[i] = mine.talk[i]
          /\ IsNewest(i)'
      BY <2>2, <2>3, <2>6 DEF IsNewest
    <2>8. InHand'
      BY <2>1, <2>6, <2>7 DEF InHand
    <2> QED
      BY <1>0, <2>1, <2>4, <2>5, <2>8 DEF CallsInv, OneResult
  <1>11. CASE Install \/ Consume \/ Dispatch \/ Resolve \/ Rewrite
    <2>1. /\ UNCHANGED <<results, ranCalls>> /\ seq' \in {seq, seq + 1}
          /\ saved' = mine' /\ pc' \in {"loop", "step"}
          /\ mine = saved /\ mine'.talk = mine.talk
      BY <1>11, ProgramStep
    <2>2. seq' \in Nat /\ seq <= seq'
      BY <1>t, <2>1
    <2> QED
      BY <1>0, <2>1, <2>2, Elsewhere
  <1>12. CASE ExecuteStep \/ RecordStep
    <2>1. /\ UNCHANGED <<results, ranCalls, mine, saved>> /\ seq' = seq + 1
          /\ pc' \in {"stepped", "resolve"}
      BY <1>12 DEF ExecuteStep, RecordStep
    <2> QED
      BY <1>0, <1>t, <2>1, Elsewhere
  <1>13. CASE Finish
    <2>1. /\ saved'.talk = <<>> /\ mine'.talk = <<>> /\ ranCalls' = {}
          /\ seq' = seq + 1 /\ pc' = "idle" /\ results' = results
      BY <1>13 DEF Finish, Empty
    <2>2. Numbered'
      BY <1>0, <1>t, <2>1 DEF CallsInv, Numbered
    <2> QED
      BY <1>0, <2>1, <2>2 DEF CallsInv, InHand, OneResult, EffectsAreKnown
  <1>14. CASE Stop
    <2>1. /\ mine'.talk = <<>> /\ pc' = "idle"
          /\ UNCHANGED <<seq, results, saved, ranCalls>>
      BY <1>14 DEF Stop, Empty
    <2> QED
      BY <1>0, <2>1 DEF CallsInv, Numbered, InHand, OneResult, EffectsAreKnown
  <1> QED
    BY <1>1, <1>2, <1>3, <1>4, <1>5, <1>6, <1>7, <1>8, <1>9, <1>10, <1>11,
       <1>12, <1>13, <1>14 DEF Next

LEMMA InvStep == IInv /\ [Next]_vars => IInv'
  <1> SUFFICES ASSUME IInv, [Next]_vars PROVE IInv'
    OBVIOUS
  <1>1. CallTypes' /\ Working' /\ Carried' /\ CallsInv'
    BY CallTypesStep, ContextStep, CallsStep
  <1>2. StepsInv'
    BY StepsStep
  <1>3. TypeOK'
    BY <1>1, <1>2
       DEF StepsInv, TypeOK, CallTypes, StepTypes, Results, Asked, Hands
  <1> QED
    BY <1>1, <1>2, <1>3 DEF IInv, StepsInv, CallsInv

-----------------------------------------------------------------------------
(* Answers and the calls they belong to                                    *)

\* The answer at j is the next word on its calls after the question at i.
Pair(t, i, j) ==
    /\ i < j /\ t[i].kind = "asks" /\ t[j].kind = "tells"
    /\ t[j].ids \subseteq t[i].ids
    /\ \A k \in i + 1 .. j - 1 : t[j].ids \cap t[k].ids = {}

\* Questions follow each other; every answer is the recorded result of its
\* question; a result recorded after a question about that id belongs to a
\* question at least as new.
Ordered(t) ==
    \A i, j \in DOMAIN t :
        i < j /\ t[i].kind = "asks" /\ t[j].kind = "asks" => t[i].seq < t[j].seq
Owned(t, R) ==
    \A i, j \in DOMAIN t : Pair(t, i, j) =>
        \E r \in R : r.seq = t[j].seq /\ r.of = t[i].seq /\ {r.id} = t[j].ids
Later(t, R) ==
    \A i \in DOMAIN t, r \in R :
        t[i].kind = "asks" /\ r.id \in t[i].ids /\ r.seq > t[i].seq =>
            \E k \in DOMAIN t :
                /\ t[k].kind = "asks" /\ r.id \in t[k].ids
                /\ t[k].seq = r.of /\ t[i].seq <= t[k].seq
Fits(t, R) == Ordered(t) /\ Owned(t, R) /\ Later(t, R)

\* What is left without an answer, wherever the worker stands.
Outstanding ==
    /\ pc \in {"loop", "replied", "step", "stepped", "resolve"} =>
          Unanswered(mine) = {}
    /\ pc \in {"calls", "calling", "called", "recorded"} =>
          \A call \in Unanswered(mine) : call.id \in todo

\* Recovery asks nothing; a reply in hand is newer than the context, a result
\* in hand is that of the call.
Handed ==
    /\ pc = "recover" =>
          \A i \in DOMAIN mine.talk : mine.talk[i].kind = "asks" => i \in DOMAIN saved.talk
    /\ pc = "replied" => \A i \in DOMAIN mine.talk : mine.talk[i].seq < seq
    /\ pc = "recorded" =>
          \E r \in results : r.seq = seq /\ r.id = at.id /\ r.of = at.asked

Told == /\ Fits(saved.talk, results) /\ Fits(mine.talk, results)
        /\ Outstanding /\ Handed

\* The talk u is t with one entry more.
Longer(t, u, e) ==
    /\ Len(t) \in Nat /\ DOMAIN t = 1 .. Len(t) /\ DOMAIN u = 1 .. Len(t) + 1
    /\ u[Len(t) + 1] = e /\ \A i \in DOMAIN t : u[i] = t[i]
    /\ \A i \in DOMAIN t : t[i].seq \in Nat

LEMMA SayLonger ==
    ASSUME NEW w \in Windows, NEW e \in Entries
    PROVE  Longer(w.talk, Say(w, e).talk, e)
  BY SayIs, WindowTypes DEF Longer

LEMMA OrderedLonger ==
    ASSUME NEW t, NEW u, NEW e, Longer(t, u, e), Ordered(t),
           e.kind = "asks" => \A i \in DOMAIN t : t[i].seq < e.seq
    PROVE  Ordered(u)
  <1>1. ASSUME NEW i \in DOMAIN u, NEW j \in DOMAIN u,
               i < j, u[i].kind = "asks", u[j].kind = "asks"
        PROVE  u[i].seq < u[j].seq
    <2>1. i \in DOMAIN t
      BY <1>1 DEF Longer
    <2>2. CASE j \in DOMAIN t
      BY <1>1, <2>1, <2>2 DEF Longer, Ordered
    <2>3. CASE j = Len(t) + 1
      BY <1>1, <2>1, <2>3 DEF Longer
    <2> QED
      BY <2>2, <2>3 DEF Longer
  <1> QED
    BY <1>1 DEF Ordered

\* Old answers keep their question; a new one needs its own.
LEMMA OwnedLonger ==
    ASSUME NEW t, NEW u, NEW e, Longer(t, u, e), NEW R, NEW S, R \subseteq S,
           Owned(t, R),
           \A i \in DOMAIN t : Pair(u, i, Len(t) + 1) =>
               \E r \in S : r.seq = e.seq /\ r.of = t[i].seq /\ {r.id} = e.ids
    PROVE  Owned(u, S)
  <1>1. ASSUME NEW i \in DOMAIN u, NEW j \in DOMAIN u, Pair(u, i, j)
        PROVE  \E r \in S : r.seq = u[j].seq /\ r.of = u[i].seq /\ {r.id} = u[j].ids
    <2>1. i \in DOMAIN t /\ u[i] = t[i]
      BY <1>1 DEF Longer, Pair
    <2>2. CASE j \in DOMAIN t
      <3>1. \A k \in i + 1 .. j - 1 : k \in DOMAIN t /\ u[k] = t[k]
        BY <2>1, <2>2 DEF Longer
      <3>2. Pair(t, i, j)
        BY <1>1, <2>1, <2>2, <3>1 DEF Longer, Pair
      <3> QED
        BY <2>1, <2>2, <3>2 DEF Longer, Owned
    <2>3. CASE j = Len(t) + 1
      BY <1>1, <2>1, <2>3 DEF Longer
    <2> QED
      BY <2>2, <2>3 DEF Longer
  <1> QED
    BY <1>1 DEF Owned

\* An answer adds no question, a question is newer than all results.
LEMMA LaterLonger ==
    ASSUME NEW t, NEW u, NEW e, Longer(t, u, e), NEW R, Later(t, R),
           e.kind = "tells" \/ \A r \in R : ~(r.seq > e.seq)
    PROVE  Later(u, R)
  <1>1. ASSUME NEW i \in DOMAIN u, NEW r \in R,
               u[i].kind = "asks", r.id \in u[i].ids, r.seq > u[i].seq
        PROVE  \E k \in DOMAIN u :
                   /\ u[k].kind = "asks" /\ r.id \in u[k].ids
                   /\ u[k].seq = r.of /\ u[i].seq <= u[k].seq
    <2>1. i \in DOMAIN t /\ u[i] = t[i]
      BY <1>1 DEF Longer
    <2>2. PICK k \in DOMAIN t :
                   /\ t[k].kind = "asks" /\ r.id \in t[k].ids
                   /\ t[k].seq = r.of /\ t[i].seq <= t[k].seq
      BY <1>1, <2>1 DEF Later
    <2> QED
      BY <2>1, <2>2 DEF Longer
  <1> QED
    BY <1>1 DEF Later

\* A new result does no harm as long as it is of the newest question about it.
LEMMA LaterRecorded ==
    ASSUME NEW t, NEW R, NEW new, Later(t, R),
           \A i \in DOMAIN t : t[i].kind = "asks" /\ new.id \in t[i].ids =>
               \E k \in DOMAIN t :
                   /\ t[k].kind = "asks" /\ new.id \in t[k].ids
                   /\ t[k].seq = new.of /\ t[i].seq <= t[k].seq
    PROVE  Later(t, R \cup {new})
  BY DEF Later

LEMMA OwnedRecorded ==
    ASSUME NEW t, NEW R, NEW S, R \subseteq S, Owned(t, R)
    PROVE  Owned(t, S)
  BY DEF Owned

\* Whatever is unanswered was, and is not mentioned by the new entry, or is
\* what the new entry asks.
LEMMA UnansweredLonger ==
    ASSUME NEW w \in Windows, NEW v \in Windows, NEW e, Longer(w.talk, v.talk, e),
           NEW call \in Unanswered(v)
    PROVE  \/ call \in Unanswered(w) /\ call.id \notin e.ids
           \/ e.kind = "asks" /\ call.id \in e.ids
  <1> DEFINE t == w.talk
             u == v.talk
  <1>1. PICK i \in DOMAIN u :
           /\ u[i].kind = "asks" /\ u[i].seq = call.asked /\ call.id \in u[i].ids
           /\ \A j \in i + 1 .. Len(u) : call.id \notin u[j].ids
    BY DEF Unanswered
  <1>2. call \in [asked : {u[k].seq : k \in DOMAIN u}, id : Ids]
    BY DEF Unanswered
  <1>3. Len(u) = Len(t) + 1
    <2>1. Len(u) \in Nat /\ DOMAIN u = 1 .. Len(u)
      BY WindowTypes
    <2> QED
      BY <2>1 DEF Longer
  <1>4. CASE i \in DOMAIN t
    <2>1. /\ t[i].kind = "asks" /\ t[i].seq = call.asked /\ call.id \in t[i].ids
          /\ u[Len(t) + 1] = e /\ Len(t) + 1 \in i + 1 .. Len(u)
      BY <1>1, <1>3, <1>4 DEF Longer
    <2>2. ASSUME NEW j \in i + 1 .. Len(t) PROVE call.id \notin t[j].ids
      <3>1. j \in i + 1 .. Len(u) /\ u[j] = t[j]
        BY <1>3, <1>4, <2>2 DEF Longer
      <3> QED
        BY <1>1, <3>1
    <2>3. call \in [asked : {t[k].seq : k \in DOMAIN t}, id : Ids]
      BY <1>2, <1>4, <2>1
    <2>4. call \in Unanswered(w)
      BY <1>4, <2>1, <2>2, <2>3 DEF Unanswered
    <2> QED
      BY <1>1, <2>1, <2>4
  <1>5. CASE i = Len(t) + 1
    BY <1>1, <1>5 DEF Longer
  <1> QED
    BY <1>4, <1>5 DEF Longer

\* The same messages leave the same calls unanswered.
LEMMA UnansweredSame ==
    ASSUME NEW w, NEW v, w.talk = v.talk
    PROVE  Unanswered(w) = Unanswered(v)
  BY DEF Unanswered

LEMMA NothingUnanswered == Unanswered(Empty) = {} /\ \A R : Fits(<<>>, R)
  BY DEF Unanswered, Empty, Fits, Ordered, Owned, Later

\* Told of the next state, when the messages and the results stay.
LEMMA ToldStill ==
    ASSUME Told, UNCHANGED results, mine'.talk = mine.talk,
           saved'.talk = saved.talk, Outstanding', Handed'
    PROVE  Told'
  BY DEF Told

\* An answer to a call whose newest question is at i is paired with that one.
LEMMA PairIs ==
    ASSUME NEW t, NEW u, NEW e, Longer(t, u, e),
           NEW i \in DOMAIN t, NEW id, t[i].kind = "asks", id \in t[i].ids,
           e.ids = {id},
           \A j \in DOMAIN t : t[j].kind = "asks" /\ id \in t[j].ids => j <= i
    PROVE  \A j \in DOMAIN t : Pair(u, j, Len(t) + 1) => j = i
  <1>1. ASSUME NEW j \in DOMAIN t, Pair(u, j, Len(t) + 1)
        PROVE  j = i
    <2>1. t[j].kind = "asks" /\ id \in t[j].ids
      BY <1>1 DEF Pair, Longer
    <2>2. j <= i
      BY <2>1
    <2>3. ASSUME j < i PROVE FALSE
      <3>1. i \in j + 1 .. (Len(t) + 1) - 1
        BY <2>3 DEF Longer
      <3>2. u[Len(t) + 1].ids \cap u[i].ids = {}
        BY <1>1, <3>1 DEF Pair
      <3> QED
        BY <3>2 DEF Longer
    <2> QED
      BY <2>2, <2>3 DEF Longer
  <1> QED
    BY <1>1

\* Recovery answers a call with the result of that very call.
LEMMA RecoverTold ==
    ASSUME IInv, Told, NEW call \in Unanswered(mine), Recover(call)
    PROVE  Told'
  <1> DEFINE t == mine.talk
  <1>t. /\ seq \in Nat /\ mine \in Windows /\ saved \in Windows
        /\ \A r \in results : r.seq \in Nat /\ r.of \in Nat /\ r.id \in Ids
        /\ \A r \in results : r.of < r.seq /\ r.seq <= seq
    BY TypeHalves DEF IInv, CallTypes, Results, Numbered
  <1>d. /\ Len(t) \in Nat /\ DOMAIN t = 1 .. Len(t)
        /\ \A i \in DOMAIN t : t[i].seq \in Nat
    BY <1>t, WindowTypes
  <1>1. /\ pc = "recover" /\ pc' = "recover" /\ UNCHANGED saved
        /\ Fits(t, results) /\ Fits(saved.talk, results)
    BY DEF Recover, Told
  <1>2. PICK i \in DOMAIN t :
           /\ t[i].kind = "asks" /\ t[i].seq = call.asked /\ call.id \in t[i].ids
           /\ \A j \in i + 1 .. Len(t) : call.id \notin t[j].ids
    BY DEF Unanswered
  <1>3. call.id \in Ids /\ call.asked \in Nat
    BY <1>t, UnansweredIs
  <1>4. \A j \in DOMAIN t : t[j].kind = "asks" /\ call.id \in t[j].ids =>
           j <= i /\ t[j].seq <= t[i].seq
    <2>1. ASSUME NEW j \in DOMAIN t, t[j].kind = "asks", call.id \in t[j].ids
          PROVE  j <= i
      BY <1>d, <1>2, <2>1
    <2>2. ASSUME NEW j \in DOMAIN t, t[j].kind = "asks", j <= i
          PROVE  t[j].seq <= t[i].seq
      BY <1>d, <1>1, <1>2, <2>2 DEF Fits, Ordered
    <2> QED
      BY <2>1, <2>2
  <1>5. PICK n \in Nat :
           /\ mine' = Say(mine, Tells(n, call.id))
           /\ \E r \in results' : r.seq = n /\ r.of = call.asked /\ r.id = call.id
           /\ results \subseteq results'
           /\ \A r \in results' \ results : r.of = call.asked /\ r.id = call.id
    <2>1. CASE Recorded(call) # {}
      <3> DEFINE r == Newest(Recorded(call))
      <3>1. r \in Recorded(call)
        <4>1. \A q \in Recorded(call) : q.seq \in Nat /\ q.seq <= seq
          BY <1>t DEF Recorded
        <4> QED
          BY <1>t, <2>1, <4>1, NewestIs
      <3>2. mine' = Say(mine, Tells(r.seq, call.id)) /\ UNCHANGED results
        BY <2>1 DEF Recover
      <3> HIDE DEF r
      <3>3. r \in results /\ r.id = call.id /\ r.seq > call.asked
        BY <3>1 DEF Recorded
      <3>4. PICK k \in DOMAIN t :
               /\ t[k].kind = "asks" /\ r.id \in t[k].ids
               /\ t[k].seq = r.of /\ t[i].seq <= t[k].seq
        BY <1>1, <1>2, <3>3 DEF Fits, Later
      <3>5. r.of = call.asked
        BY <1>d, <1>2, <1>4, <3>3, <3>4
      <3> QED
        BY <1>t, <3>2, <3>3, <3>5
    <2>2. CASE Recorded(call) = {}
      <3> DEFINE new == [seq |-> seq + 1, id |-> call.id, of |-> call.asked,
                         known |-> FALSE]
      <3>1. /\ mine' = Say(mine, Tells(seq + 1, call.id))
            /\ results' = results \cup {new}
        BY <2>2 DEF Recover
      <3>2. new.seq = seq + 1 /\ new.id = call.id /\ new.of = call.asked
        OBVIOUS
      <3> HIDE DEF new
      <3> QED
        BY <1>t, <2>2, <3>1, <3>2
    <2> QED
      BY <2>1, <2>2
  <1> DEFINE e == Tells(n, call.id)
             u == mine'.talk
  <1>6. e \in Entries /\ e.kind = "tells" /\ e.seq = n /\ e.ids = {call.id}
    BY <1>3, EntryTypes DEF Tells
  <1> HIDE DEF e
  <1>7. Longer(t, u, e)
    BY <1>t, <1>5, <1>6, SayLonger DEF e
  <1>8. ASSUME NEW w \in {t, saved.talk} PROVE Later(w, results')
    <2>1. CASE results' = results
      BY <1>1, <1>8, <2>1 DEF Fits
    <2>2. CASE results' # results
      <3>1. PICK new \in results' : new.of = call.asked /\ new.id = call.id
        BY <1>5
      <3>2. i \in DOMAIN saved.talk /\ saved.talk[i] = t[i]
        BY <1>1, <1>2 DEF Told, Handed, IInv, Carried
      <3>3. \A j \in DOMAIN saved.talk : j \in DOMAIN t /\ saved.talk[j] = t[j]
        <4>1. /\ DOMAIN saved.talk = 1 .. Len(saved.talk) /\ Len(saved.talk) \in Nat
              /\ Len(saved.talk) <= Len(t)
          BY <1>t, <1>1, WindowTypes DEF IInv, Carried
        <4> QED
          BY <1>d, <1>1, <4>1 DEF IInv, Carried
      <3>4. i \in DOMAIN w /\ w[i] = t[i] /\ \A j \in DOMAIN w : j \in DOMAIN t /\ w[j] = t[j]
        BY <1>8, <3>2, <3>3
      <3>5. ASSUME NEW j \in DOMAIN w, NEW r \in results',
                   w[j].kind = "asks", r.id \in w[j].ids, r.seq > w[j].seq
            PROVE  \E k \in DOMAIN w :
                       /\ w[k].kind = "asks" /\ r.id \in w[k].ids
                       /\ w[k].seq = r.of /\ w[j].seq <= w[k].seq
        <4>1. CASE r \in results
          BY <1>1, <1>8, <3>5, <4>1 DEF Fits, Later
        <4>2. CASE r \notin results
          <5>1. r.of = call.asked /\ r.id = call.id
            BY <1>5, <4>2
          <5>2. w[j].seq <= w[i].seq
            BY <1>4, <3>4, <3>5, <5>1
          <5> QED
            BY <1>2, <3>4, <5>1, <5>2
        <4> QED
          BY <4>1, <4>2
      <3> QED
        BY <3>5 DEF Later
    <2> QED
      BY <2>1, <2>2
  <1>9. Fits(u, results')
    <2>1. Ordered(u)
      BY <1>1, <1>6, <1>7, OrderedLonger DEF Fits
    <2>2. Owned(u, results')
      <3>1. \A j \in DOMAIN t : Pair(u, j, Len(t) + 1) => j = i
        BY <1>2, <1>4, <1>6, <1>7, PairIs
      <3>2. \E r \in results' : r.seq = e.seq /\ r.of = t[i].seq /\ {r.id} = e.ids
        BY <1>2, <1>5, <1>6
      <3>3. \A j \in DOMAIN t : Pair(u, j, Len(t) + 1) =>
               \E r \in results' : r.seq = e.seq /\ r.of = t[j].seq /\ {r.id} = e.ids
        BY <3>1, <3>2
      <3> QED
        BY <1>1, <1>5, <1>7, <3>3, OwnedLonger DEF Fits
    <2>3. Later(u, results')
      BY <1>6, <1>7, <1>8, LaterLonger
    <2> QED
      BY <2>1, <2>2, <2>3 DEF Fits
  <1>10. Fits(saved.talk, results')
    BY <1>1, <1>5, <1>8, OwnedRecorded DEF Fits
  <1>11. \A j \in DOMAIN u : u[j].kind = "asks" => j \in DOMAIN saved.talk
    BY <1>1, <1>6, <1>7 DEF Told, Handed, Longer
  <1> QED
    BY <1>1, <1>9, <1>10, <1>11 DEF Told, Outstanding, Handed

LEMMA ToldStep == IInv /\ Told /\ [Next]_vars => Told'
  <1> SUFFICES ASSUME IInv, Told, [Next]_vars PROVE Told'
    OBVIOUS
  <1>t. /\ seq \in Nat /\ mine \in Windows /\ saved \in Windows /\ pc \in Labels
        /\ \A r \in results : r.seq \in Nat /\ r.of \in Nat /\ r.id \in Ids
        /\ \A r \in results : r.of < r.seq /\ r.seq <= seq
        /\ \A i \in DOMAIN mine.talk : mine.talk[i].seq \in Nat /\ mine.talk[i].seq <= seq
    BY TypeHalves, WindowTypes DEF IInv, CallTypes, Results, Numbered
  <1>f. Fits(saved.talk, results) /\ Fits(mine.talk, results)
    BY DEF Told
  <1> USE DEF durable, worker, history, budget
  <1>1. CASE UNCHANGED vars
    BY <1>1 DEF vars, Told, Outstanding, Handed, Unanswered
  <1>2. CASE Begin
    <2>1. /\ mine' \in {saved, Empty} /\ pc' = "recover"
          /\ UNCHANGED <<saved, results>> /\ mine' = saved
      BY <1>2 DEF Begin, IInv, Carried
    <2> QED
      BY <1>f, <2>1 DEF Told, Outstanding, Handed
  <1>3. ASSUME NEW call \in Unanswered(mine), Recover(call) PROVE Told'
    BY <1>3, RecoverTold
  <1>4. CASE Open
    <2>1. /\ saved' = mine /\ mine' = mine /\ pc' = "loop" /\ Unanswered(mine) = {}
          /\ UNCHANGED results
      BY <1>4 DEF Open
    <2> QED
      BY <1>f, <2>1 DEF Told, Outstanding, Handed, Unanswered
  <1>5. ASSUME NEW ids \in SUBSET Ids \ {{}}, Reply(ids) PROVE Told'
    <2>1. /\ pc = "loop" /\ pc' = "replied" /\ seq' = seq + 1
          /\ UNCHANGED <<results, mine, saved>>
      BY <1>5 DEF Reply
    <2>2. Unanswered(mine)' = {}
      BY <2>1 DEF Told, Outstanding, Unanswered
    <2> QED
      BY <1>t, <2>1, <2>2, ToldStill DEF Outstanding, Handed
  <1>6. CASE Keep
    <2> DEFINE e == Asks(seq, todo)
    <2>1. /\ mine' = Say(mine, e) /\ saved' = mine' /\ pc = "replied" /\ pc' = "calls"
          /\ UNCHANGED <<seq, results, todo>>
      BY <1>6 DEF Keep, Retain
    <2>2. e \in Entries /\ e.kind = "asks" /\ e.seq = seq /\ e.ids = todo
      BY <1>t DEF Asks, Entries, IInv, TypeOK
    <2> HIDE DEF e
    <2>3. Longer(mine.talk, mine'.talk, e) /\ mine' \in Windows
      BY <1>t, <2>1, <2>2, SayLonger, SayIs
    <2>4. \A i \in DOMAIN mine.talk : mine.talk[i].seq < seq
      BY <2>1 DEF Told, Handed
    <2>5. Fits(mine'.talk, results)
      <3>1. Ordered(mine'.talk)
        BY <1>f, <2>2, <2>3, <2>4, OrderedLonger DEF Fits
      <3>2. \A i \in DOMAIN mine.talk : ~Pair(mine'.talk, i, Len(mine.talk) + 1)
        BY <2>2, <2>3 DEF Pair, Longer
      <3>3. Owned(mine'.talk, results)
        BY <1>f, <2>3, <3>2, OwnedLonger DEF Fits
      <3>4. \A r \in results : ~(r.seq > e.seq)
        BY <1>t, <2>2
      <3>5. Later(mine'.talk, results)
        BY <1>f, <2>3, <3>4, LaterLonger DEF Fits
      <3> QED
        BY <3>1, <3>3, <3>5 DEF Fits
    <2>6. ASSUME NEW call \in Unanswered(mine') PROVE call.id \in todo
      <3>1. Unanswered(mine) = {}
        BY <2>1 DEF Told, Outstanding
      <3> QED
        BY <1>t, <2>2, <2>3, <2>6, <3>1, UnansweredLonger
    <2>7. Unanswered(mine)' = Unanswered(mine')
      BY DEF Unanswered
    <2> QED
      BY <2>1, <2>5, <2>6, <2>7 DEF Told, Outstanding, Handed
  <1>7. ASSUME NEW id \in Ids, Call(id) PROVE Told'
    <2>1. /\ pc = "calls" /\ pc' = "calling" /\ UNCHANGED <<results, mine, saved, todo>>
      BY <1>7 DEF Call
    <2> QED
      BY <2>1, ToldStill DEF Told, Outstanding, Handed, Unanswered
  <1>8. CASE Execute
    <2>1. /\ pc = "calling" /\ pc' = "called" /\ UNCHANGED <<results, mine, saved, todo>>
      BY <1>8 DEF Execute
    <2> QED
      BY <2>1, ToldStill DEF Told, Outstanding, Handed, Unanswered
  <1>9. CASE Record
    <2> DEFINE new == [seq |-> seq + 1, id |-> at.id, of |-> at.asked, known |-> TRUE]
    <2>1. /\ pc = "called" /\ pc' = "recorded" /\ seq' = seq + 1
          /\ results' = results \cup {new}
          /\ UNCHANGED <<saved, mine, todo, at>>
      BY <1>9 DEF Record
    <2>2. new.seq = seq + 1 /\ new.id = at.id /\ new.of = at.asked
      OBVIOUS
    <2> HIDE DEF new
    <2>3. mine = saved
      BY <2>1 DEF IInv, Working
    <2>4. PICK i \in DOMAIN mine.talk :
             /\ IsNewest(i) /\ todo \subseteq mine.talk[i].ids
             /\ at.asked = mine.talk[i].seq /\ at.id \in todo
      BY <2>1 DEF IInv, InHand
    <2>5. Later(mine.talk, results \cup {new})
      <3>1. \A j \in DOMAIN mine.talk :
               mine.talk[j].kind = "asks" => mine.talk[j].seq <= mine.talk[i].seq
        BY <2>4 DEF IsNewest
      <3> QED
        BY <1>f, <2>2, <2>4, <3>1, LaterRecorded DEF Fits, IsNewest
    <2>6. Owned(mine.talk, results \cup {new})
      BY <1>f, OwnedRecorded DEF Fits
    <2>7. Outstanding' /\ Handed'
      BY <2>1, <2>2 DEF Told, Outstanding, Handed, Unanswered
    <2> QED
      BY <1>f, <2>1, <2>3, <2>5, <2>6, <2>7 DEF Told, Fits
  <1>10. CASE Tell
    <2> DEFINE t == mine.talk
               e == Tells(seq, at.id)
    <2>1. /\ mine' = Say(mine, e) /\ saved' = mine'
          /\ pc = "recorded" /\ todo' = todo \ {at.id}
          /\ pc' = IF todo' = {} THEN "loop" ELSE "calls"
          /\ UNCHANGED <<seq, results>>
      BY <1>10 DEF Tell
    <2>2. e \in Entries /\ e.kind = "tells" /\ e.seq = seq /\ e.ids = {at.id}
      <3>1. at.id \in Ids
        BY <1>10, AtIs DEF Tell
      <3> QED
        BY <1>t, <3>1 DEF Tells, Entries
    <2> HIDE DEF e
    <2>3. Longer(t, mine'.talk, e) /\ mine' \in Windows
      BY <1>t, <2>1, <2>2, SayLonger, SayIs
    <2>4. PICK i \in DOMAIN t :
             /\ IsNewest(i) /\ at.id \in t[i].ids /\ at.asked = t[i].seq
      BY <2>1 DEF IInv, InHand
    <2>5. \A j \in DOMAIN t : t[j].kind = "asks" => j <= i
      <3>1. ASSUME NEW j \in DOMAIN t, t[j].kind = "asks", i < j PROVE FALSE
        <4>1. t[i].seq < t[j].seq /\ t[j].seq <= t[i].seq
          BY <1>f, <2>4, <3>1 DEF Fits, Ordered, IsNewest
        <4> QED
          BY <1>t, <3>1, <4>1
      <3> QED
        BY <2>3, <3>1 DEF Longer
    <2>6. Fits(mine'.talk, results)
      <3>1. Ordered(mine'.talk)
        BY <1>f, <2>2, <2>3, OrderedLonger DEF Fits
      <3>2. \A j \in DOMAIN t : Pair(mine'.talk, j, Len(t) + 1) => j = i
        <4>1. t[i].kind = "asks"
          BY <2>4 DEF IsNewest
        <4> QED
          BY <2>2, <2>3, <2>4, <2>5, <4>1, PairIs
      <3>3. \E r \in results : r.seq = e.seq /\ r.of = t[i].seq /\ {r.id} = e.ids
        BY <2>1, <2>2, <2>4 DEF Told, Handed
      <3>4. \A j \in DOMAIN t : Pair(mine'.talk, j, Len(t) + 1) =>
               \E r \in results : r.seq = e.seq /\ r.of = t[j].seq /\ {r.id} = e.ids
        BY <3>2, <3>3
      <3>5. Owned(mine'.talk, results)
        BY <1>f, <2>3, <3>4, OwnedLonger DEF Fits
      <3>6. Later(mine'.talk, results)
        BY <1>f, <2>2, <2>3, LaterLonger DEF Fits
      <3> QED
        BY <3>1, <3>5, <3>6 DEF Fits
    <2>7. ASSUME NEW call \in Unanswered(mine') PROVE call.id \in todo'
      <3>1. call \in Unanswered(mine) /\ call.id # at.id
        BY <1>t, <2>2, <2>3, <2>7, UnansweredLonger
      <3>2. call.id \in todo
        BY <2>1, <3>1 DEF Told, Outstanding
      <3> QED
        BY <2>1, <3>1, <3>2
    <2>8. Unanswered(mine)' = Unanswered(mine')
      BY DEF Unanswered
    <2>9. Outstanding' /\ Handed'
      BY <2>1, <2>7, <2>8 DEF Outstanding, Handed
    <2> QED
      BY <2>1, <2>6, <2>9 DEF Told
  <1>11. CASE Install \/ Consume \/ Dispatch \/ Resolve \/ Rewrite
    <2>1. /\ UNCHANGED results /\ saved' = mine' /\ pc' \in {"loop", "step"}
          /\ pc \in {"loop", "resolve"} /\ mine = saved /\ mine'.talk = mine.talk
      BY <1>11, ProgramStep
    <2>2. Unanswered(mine)' = {}
      BY <2>1 DEF Told, Outstanding, Unanswered
    <2> QED
      BY <2>1, <2>2, ToldStill DEF Outstanding, Handed
  <1>12. CASE ExecuteStep \/ RecordStep
    <2>1. /\ UNCHANGED <<results, mine, saved>>
          /\ pc' \in {"stepped", "resolve"} /\ pc \in {"step", "stepped"}
      BY <1>12 DEF ExecuteStep, RecordStep
    <2>2. Unanswered(mine)' = {}
      BY <2>1 DEF Told, Outstanding, Unanswered
    <2> QED
      BY <2>1, <2>2, ToldStill DEF Outstanding, Handed
  <1>13. CASE Finish \/ Stop
    <2>1. /\ mine'.talk = <<>> /\ saved'.talk \in {saved.talk, <<>>}
          /\ pc' = "idle" /\ results' = results
      BY <1>13 DEF Finish, Stop, Empty
    <2> QED
      BY <1>f, <2>1, NothingUnanswered DEF Told, Outstanding, Handed
  <1> QED
    BY <1>1, <1>2, <1>3, <1>4, <1>5, <1>6, <1>7, <1>8, <1>9, <1>10, <1>11,
       <1>12, <1>13 DEF Next

-----------------------------------------------------------------------------
(* Theorems                                                                *)

\* What a model's call did is never unknown to the saved context, and a call
\* has one outcome: recovery adds none to a result on record.
THEOREM EffectsAreOnRecord == Spec => [](EffectsAreKnown /\ OneResult)
  <1>1. IInv => EffectsAreKnown /\ OneResult
    BY DEF IInv
  <1> QED
    BY <1>1, InvInit, InvStep, PTL DEF Spec

\* No step of a program is lost, and one is made again only when the worker
\* stopped between its effect and its record: a recorded step never is.
THEOREM StepsAreKept == Spec => [](StepsAccounted /\ RecordedStepsOnce)
  <1>1. IInv => StepsAccounted /\ RecordedStepsOnce
    BY DEF IInv
  <1> QED
    BY <1>1, InvInit, InvStep, PTL DEF Spec

\* The worker, its context and what is stored keep their types.
THEOREM TypeInvariant == Spec => []TypeOK
  <1>1. IInv => TypeOK
    BY DEF IInv
  <1> QED
    BY <1>1, InvInit, InvStep, PTL DEF Spec

\* When the model is asked, every call it made has its own answer: no result of
\* an earlier call with the same id is taken for it, wherever the worker was cut
\* off and however often it recovered.
THEOREM AnswersAreOwn == Spec => []OwnAnswers
  <1>1. Init => Told
    BY NothingUnanswered
    DEF Init, Told, Outstanding, Handed, Empty
  <1>2. Told => OwnAnswers
    BY DEF Told, Outstanding, Fits, Owned, Pair, OwnAnswers
  <1> QED
    BY <1>1, <1>2, InvInit, InvStep, ToldStep, PTL DEF Spec
=============================================================================
