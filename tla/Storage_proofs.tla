--------------------------- MODULE Storage_proofs ---------------------------
(***************************************************************************)
(* Proofs about what is written to disk.  About DbWriter for any callers   *)
(* and any number of writers: one writer at a time, no job stranded        *)
(* between two of them, transactions of one's own, and the refinement of   *)
(* WriteQueue.  About FileChanges for any files, contents, tools and       *)
(* requests to undo: what the log of a turn says, and what an undo leaves  *)
(* behind when it fails halfway.                                           *)
(***************************************************************************)
EXTENDS DbWriter, FileChanges, SequenceTheorems, WellFoundedInduction, TLAPS

-----------------------------------------------------------------------------
(* DbWriter                                                                *)

-----------------------------------------------------------------------------
(* Sequences and what is in them *)

LEMMA ElementsEmpty == Elements(<<>>) = {}
  BY DEF Elements

LEMMA ElementsAppend ==
    ASSUME NEW S, NEW s \in Seq(S), NEW c \in S
    PROVE  Elements(Append(s, c)) = Elements(s) \cup {c}
  <1>1. DOMAIN s = 1..Len(s) /\ DOMAIN Append(s, c) = 1..Len(s) + 1
    OBVIOUS
  <1>2. \A i \in 1..Len(s) : Append(s, c)[i] = s[i]
    OBVIOUS
  <1>3. Append(s, c)[Len(s) + 1] = c /\ Len(s) \in Nat
    OBVIOUS
  <1> QED
    BY <1>1, <1>2, <1>3 DEF Elements

LEMMA ElementsOfHeadAndTail ==
    ASSUME NEW S, NEW s \in Seq(S), s # <<>>
    PROVE  /\ Head(s) \in S /\ Tail(s) \in Seq(S)
           /\ Elements(s) = {Head(s)} \cup Elements(Tail(s))
  <1>1. Len(s) \in Nat \ {0} /\ Head(s) = s[1] /\ Tail(s) \in Seq(S)
    OBVIOUS
  <1>2. DOMAIN s = 1..Len(s) /\ DOMAIN Tail(s) = 1..Len(s) - 1
    BY <1>1
  <1>3. \A i \in 1..Len(s) - 1 : Tail(s)[i] = s[i + 1]
    BY <1>1
  <1>4. \A i \in 1..Len(s) : i = 1 \/ i - 1 \in 1..Len(s) - 1
    BY <1>1
  <1>5. \A i \in 1..Len(s) : i # 1 => s[i] = Tail(s)[i - 1]
    BY <1>1, <1>3, <1>4
  <1>6. Elements(s) \subseteq {Head(s)} \cup Elements(Tail(s))
    <2>1. \A i \in 1..Len(s) : i # 1 => s[i] \in Elements(Tail(s))
      BY <1>2, <1>4, <1>5 DEF Elements
    <2> QED
      BY <1>1, <1>2, <2>1 DEF Elements
  <1>7. {Head(s)} \cup Elements(Tail(s)) \subseteq Elements(s)
    BY <1>1, <1>2, <1>3 DEF Elements
  <1> QED
    BY <1>1, <1>6, <1>7

\* No element twice.
Distinct(s) == \A i, j \in DOMAIN s : s[i] = s[j] => i = j

LEMMA DistinctAppend ==
    ASSUME NEW S, NEW s \in Seq(S), NEW c \in S, Distinct(s), c \notin Elements(s)
    PROVE  Distinct(Append(s, c))
  <1>1. DOMAIN s = 1..Len(s) /\ DOMAIN Append(s, c) = 1..Len(s) + 1 /\ Len(s) \in Nat
    OBVIOUS
  <1>2. \A i \in 1..Len(s) : Append(s, c)[i] = s[i]
    OBVIOUS
  <1>3. Append(s, c)[Len(s) + 1] = c
    OBVIOUS
  <1>4. \A i \in 1..Len(s) : s[i] # c
    BY <1>1 DEF Elements
  <1> QED
    BY <1>1, <1>2, <1>3, <1>4 DEF Distinct

LEMMA DistinctTail ==
    ASSUME NEW S, NEW s \in Seq(S), s # <<>>, Distinct(s)
    PROVE  Distinct(Tail(s)) /\ Head(s) \notin Elements(Tail(s))
  <1>1. Len(s) \in Nat \ {0} /\ Head(s) = s[1]
    OBVIOUS
  <1>2. DOMAIN s = 1..Len(s) /\ DOMAIN Tail(s) = 1..Len(s) - 1
    BY <1>1
  <1>3. \A i \in 1..Len(s) - 1 : Tail(s)[i] = s[i + 1] /\ i + 1 \in 1..Len(s) /\ i + 1 # 1
    BY <1>1
  <1>4. Distinct(Tail(s))
    BY <1>2, <1>3 DEF Distinct
  <1>5. \A i \in 1..Len(s) - 1 : Tail(s)[i] # s[1]
    BY <1>1, <1>2, <1>3 DEF Distinct
  <1> QED
    BY <1>1, <1>2, <1>4, <1>5 DEF Elements

-----------------------------------------------------------------------------
(* The writers *)

\* A writer that serves is the registered one; one that has not been started
\* has done nothing.
Registration ==
    /\ \A g \in Generations : g > generation => thread[g] = "none"
    /\ \A g \in Generations : Serving(g) => entry = g

\* A connection is clean while no job is in hand.
Clean == \A g \in Generations : thread[g] \notin {"running", "ended"} => open[g] = <<>>

\* A writer has a job in its hands while it runs one.
Busy ==
    \A g \in Generations :
        IF thread[g] = "running" THEN job[g] \in Callers ELSE job[g] = NoJob

Inv == TypeOK /\ Registration /\ Clean /\ Busy /\ NothingStranded /\ OwnTransaction

LEMMA InvInit == Init => Inv
  BY DbWriterAssumption DEF Init, Inv, TypeOK, Registration, Clean, Busy, Serving, Receives,
     NothingStranded, OwnTransaction, Threads, None, Generations

LEMMA OneServes == Registration => OneWriter
  BY DEF Registration, OneWriter

LEMMA InvStep == Inv /\ [Next]_vars => Inv'
  <1> SUFFICES ASSUME Inv, [Next]_vars PROVE Inv'
    OBVIOUS
  <1> USE DEF Inv, TypeOK, Registration, Clean, Busy, Serving, Receives,
              NothingStranded, OwnTransaction, Threads, None
  <1>0. CASE UNCHANGED vars
    BY <1>0 DEF vars
  <1>1. ASSUME NEW c \in Callers, Send(c) PROVE Inv'
    <2>1. /\ told[c] = "new" /\ entry \in Generations /\ Receives(entry)
          /\ channel' = [channel EXCEPT ![entry] = Append(@, c)]
          /\ told' = [told EXCEPT ![c] = "sent"]
          /\ UNCHANGED <<entry, generation, thread, job, open, done>>
      BY <1>1 DEF Send, Registered
    <2>2. /\ channel'[entry] \in Seq(Callers)
          /\ Elements(channel'[entry]) = Elements(channel[entry]) \cup {c}
      BY <2>1, ElementsAppend
    <2>3. \A g \in Generations : Elements(channel[g]) \subseteq Elements(channel'[g])
      BY <2>1, <2>2
    <2>4. NothingStranded'
      BY <2>1, <2>2, <2>3
    <2>5. TypeOK' /\ Registration' /\ Clean' /\ Busy' /\ OwnTransaction'
      BY <2>1, <2>2
    <2> QED
      BY <2>4, <2>5
  <1>2. ASSUME NEW c \in Callers, StartWriter(c) PROVE Inv'
    <2>1. PICK n \in Generations :
          /\ n = generation + 1
          /\ told[c] = "new" /\ thread[n] = "none"
          /\ generation' = n /\ entry' = n
          /\ thread' = [thread EXCEPT ![n] = "opening"]
          /\ channel' = [channel EXCEPT ![n] = <<c>>]
          /\ told' = [told EXCEPT ![c] = "sent"]
          /\ UNCHANGED <<job, open, done>>
      <3>1. generation + 1 \in Generations /\ thread[generation + 1] = "none"
        BY <1>2, DbWriterAssumption DEF StartWriter, Generations
      <3> QED
        BY <1>2, <3>1 DEF StartWriter
    <2>2. \A g \in Generations : ~Serving(g)
      BY <1>2 DEF StartWriter, Registered, Generations
    <2>3. <<c>> \in Seq(Callers) /\ c \in Elements(<<c>>)
      BY DEF Elements
    <2>4. /\ Receives(n)' /\ c \in Elements(channel'[n])
          /\ \A g \in Generations \ {n} : thread'[g] = thread[g] /\ channel'[g] = channel[g]
          /\ \A b \in Callers \ {c} : told'[b] = told[b]
      BY <2>1, <2>3
    <2>8. NothingStranded'
      BY <2>1, <2>4
    <2>5. TypeOK'
      <3>1. n \in 0..MaxGenerations /\ n \in Generations \cup {0}
        BY <2>1, DbWriterAssumption DEF Generations
      <3> QED
        BY <2>1, <2>3, <3>1
    <2>6. Registration'
      BY <2>1, <2>2 DEF Generations
    <2>7. Clean' /\ Busy' /\ OwnTransaction'
      BY <2>1
    <2> QED
      BY <2>5, <2>6, <2>7, <2>8
  <1>3. ASSUME NEW c \in Callers, CannotStart(c) PROVE Inv'
    <2>1. /\ generation + 1 \in 0..MaxGenerations
          /\ generation' = generation + 1 /\ told' = [told EXCEPT ![c] = "error"]
          /\ UNCHANGED <<entry, thread, channel, job, open, done>>
      BY <1>3, DbWriterAssumption DEF CannotStart
    <2>2. NothingStranded' /\ OwnTransaction'
      BY <2>1
    <2>3. TypeOK' /\ Clean' /\ Busy'
      BY <2>1
    <2>4. Registration'
      BY <2>1 DEF Generations
    <2> QED
      BY <2>2, <2>3, <2>4
  <1>4. ASSUME NEW g \in Generations, Opened(g) \/ NotOpened(g) \/ TimesOut(g) PROVE Inv'
    <2>1. PICK to \in {"waiting", "failed", "idle"} :
          /\ thread[g] \in {"opening", "waiting"}
          /\ thread' = [thread EXCEPT ![g] = to]
          /\ UNCHANGED <<entry, generation, channel, job, open, done, told>>
      BY <1>4 DEF Opened, NotOpened, TimesOut, At
    <2>2. NothingStranded'
      BY <2>1
    <2>3. TypeOK' /\ Registration' /\ Clean' /\ Busy' /\ OwnTransaction'
      BY <2>1
    <2> QED
      BY <2>2, <2>3
  <1>5. ASSUME NEW g \in Generations, Forget(g) PROVE Inv'
    BY <1>5 DEF Forget, At, Forgotten
  <1>6. ASSUME NEW g \in Generations, Drop(g) PROVE Inv'
    <2>1. /\ thread[g] = "closing" /\ thread' = [thread EXCEPT ![g] = "gone"]
          /\ channel' = [channel EXCEPT ![g] = <<>>]
          /\ told' \in [Callers -> {"new", "sent", "ok", "error"}]
          /\ \A c \in Callers : told'[c] = "sent" =>
                told[c] = "sent" /\ c \notin Elements(channel[g])
          /\ UNCHANGED <<entry, generation, job, open, done>>
      BY <1>6 DEF Drop, At
    <2>2. NothingStranded'
      BY <2>1
    <2>3. TypeOK' /\ Registration' /\ Clean' /\ Busy' /\ OwnTransaction'
      BY <2>1
    <2> QED
      BY <2>2, <2>3
  <1>7. ASSUME NEW g \in Generations, Take(g) \/ TakeLate(g) PROVE Inv'
    <2>1. /\ thread[g] \in {"waiting", "idle"}
          /\ thread' = [thread EXCEPT ![g] = "running"]
          /\ channel[g] # <<>>
          /\ job' = [job EXCEPT ![g] = Head(channel[g])]
          /\ channel' = [channel EXCEPT ![g] = Tail(channel[g])]
          /\ UNCHANGED <<entry, generation, open, done, told>>
      BY <1>7 DEF Take, TakeLate, TakeFrom, At
    <2>2. /\ Head(channel[g]) \in Callers /\ Tail(channel[g]) \in Seq(Callers)
          /\ Elements(channel[g]) =
                {Head(channel[g])} \cup Elements(Tail(channel[g]))
      BY <2>1, ElementsOfHeadAndTail
    <2>3. NothingStranded'
      BY <2>1, <2>2
    <2>4. OwnTransaction'
      BY <2>1, ElementsEmpty
    <2>5. TypeOK' /\ Registration' /\ Clean' /\ Busy'
      BY <2>1, <2>2
    <2> QED
      BY <2>3, <2>4, <2>5
  <1>8. ASSUME NEW g \in Generations, Leave(g) PROVE Inv'
    <2>1. /\ thread[g] = "idle" /\ thread' = [thread EXCEPT ![g] = "gone"]
          /\ entry' = Forgotten(g) /\ Elements(channel[g]) = {}
          /\ UNCHANGED <<generation, channel, job, open, done, told>>
      BY <1>8, ElementsEmpty DEF Leave, MayLeave, At
    <2>2. NothingStranded'
      BY <2>1
    <2>3. TypeOK' /\ Registration' /\ Clean' /\ Busy' /\ OwnTransaction'
      BY <2>1 DEF Forgotten
    <2> QED
      BY <2>2, <2>3
  <1>9. ASSUME NEW g \in Generations, Settle(g) PROVE Inv'
    BY <1>9 DEF Settle, RolledBack, At
  <1>10. ASSUME NEW g \in Generations, NEW answer \in {"ok", "error"},
                Return(g, answer)
         PROVE  Inv'
    <2>1. /\ thread[g] = "running" /\ thread' = [thread EXCEPT ![g] = "ended"]
          /\ told' = [told EXCEPT ![job[g]] = answer]
          /\ job' = [job EXCEPT ![g] = NoJob]
          /\ UNCHANGED <<entry, generation, channel, open, done>>
      BY <1>10 DEF Return, Answer, At
    <2>2. NothingStranded'
      BY <2>1
    <2>3. TypeOK' /\ Registration' /\ Clean' /\ Busy' /\ OwnTransaction'
      BY <2>1
    <2> QED
      BY <2>2, <2>3
  <1>11. ASSUME NEW g \in Generations, Write(g) PROVE Inv'
    <2>0. job[g] \in Callers
      BY <1>11 DEF Write
    <2>1. /\ Append(open[g], job[g]) \in Seq(Callers)
          /\ Elements(Append(open[g], job[g])) = Elements(open[g]) \cup {job[g]}
      BY <2>0, ElementsAppend
    <2> QED
      BY <1>11, <2>1 DEF Write
  <1>12. ASSUME NEW g \in Generations, Commit(g) PROVE Inv'
    <2>1. done' \in Seq(Callers) /\ open' = [open EXCEPT ![g] = <<>>]
          /\ UNCHANGED <<entry, generation, thread, channel, job, told>>
      BY <1>12 DEF Commit
    <2>2. OwnTransaction'
      BY <2>1, ElementsEmpty
    <2>3. TypeOK' /\ Registration' /\ Clean' /\ Busy' /\ NothingStranded'
      BY <2>1
    <2> QED
      BY <2>2, <2>3
  <1>13. ASSUME NEW g \in Generations, NEW c \in Callers, Nested(g, c) PROVE Inv'
    <2>1. /\ done' \in Seq(Callers) /\ told' \in [Callers -> {"new", "sent", "ok", "error"}]
          /\ \A b \in Callers : told'[b] = "sent" => told[b] = "sent"
          /\ UNCHANGED <<entry, generation, thread, channel, job, open>>
      <3>1. Append(done, c) \in Seq(Callers)
        OBVIOUS
      <3>2. PICK answer \in {"ok", "error"} : told' = [told EXCEPT ![c] = answer]
        BY <1>13 DEF Nested
      <3>3. done' \in Seq(Callers)
        BY <1>13, <3>1 DEF Nested
      <3>4. told[c] = "new" /\ UNCHANGED <<entry, generation, thread, channel, job, open>>
        BY <1>13 DEF Nested
      <3> QED
        BY <3>2, <3>3, <3>4
    <2>2. NothingStranded'
      BY <2>1
    <2>3. TypeOK' /\ Registration' /\ Clean' /\ Busy' /\ OwnTransaction'
      BY <2>1
    <2> QED
      BY <2>2, <2>3
  <1> HIDE DEF Inv
  <1> QED
    BY <1>0, <1>1, <1>2, <1>3, <1>4, <1>5, <1>6, <1>7, <1>8, <1>9, <1>10, <1>11,
       <1>12, <1>13
    DEF Next, Submit, Step

\* One thread at a time writes to a database, whoever starts, leaves or gives
\* up meanwhile (submit, run, forget).
THEOREM WritersAreExclusive == Spec => []OneWriter
  <1>1. Inv => OneWriter
    BY OneServes DEF Inv
  <1> QED
    BY <1>1, InvInit, InvStep, PTL DEF Spec

\* No job is lost between the writer that leaves and the one that is started.
THEOREM NoJobIsStranded == Spec => []NothingStranded
  <1>1. Inv => NothingStranded
    BY DEF Inv
  <1> QED
    BY <1>1, InvInit, InvStep, PTL DEF Spec

\* A job writes into no transaction but its own.
THEOREM TransactionsAreOwned == Spec => []OwnTransaction
  <1>1. Inv => OwnTransaction
    BY DEF Inv
  <1> QED
    BY <1>1, InvInit, InvStep, PTL DEF Spec

-----------------------------------------------------------------------------
(* DbWriter implements WriteQueue *)

-----------------------------------------------------------------------------
(* Sequences *)

LEMMA InFront ==
    ASSUME NEW S, NEW s \in Seq(S), NEW c \in S
    PROVE  /\ <<c>> \o s \in Seq(S) /\ <<c>> \o s # <<>>
           /\ Head(<<c>> \o s) = c /\ Tail(<<c>> \o s) = s
           /\ Elements(<<c>> \o s) = {c} \cup Elements(s)
  <1>1. <<c>> \in Seq(S) /\ Len(<<c>>) = 1 /\ <<c>>[1] = c /\ Len(s) \in Nat
    OBVIOUS
  <1>2. /\ <<c>> \o s \in Seq(S) /\ Len(<<c>> \o s) = 1 + Len(s)
        /\ \A i \in 1..1 + Len(s) :
              (<<c>> \o s)[i] = IF i <= 1 THEN c ELSE s[i - 1]
    BY <1>1, ConcatProperties
  <1>3. <<c>> \o s # <<>>
    BY <1>1, <1>2
  <1>4. Head(<<c>> \o s) = c
    BY <1>1, <1>2, <1>3
  <1>5. Tail(<<c>> \o s) \in Seq(S) /\ Len(Tail(<<c>> \o s)) = Len(s)
        /\ \A i \in 1..Len(s) : Tail(<<c>> \o s)[i] = (<<c>> \o s)[i + 1]
    BY <1>1, <1>2, <1>3, HeadTailProperties
  <1>6. \A i \in 1..Len(s) : Tail(<<c>> \o s)[i] = s[i]
    BY <1>1, <1>2, <1>5
  <1>7. Tail(<<c>> \o s) = s
    BY <1>5, <1>6, SeqEqual
  <1>8. Elements(<<c>> \o s) = {c} \cup Elements(s)
    BY <1>2, <1>3, <1>4, <1>7, ElementsOfHeadAndTail
  <1> QED
    BY <1>2, <1>3, <1>4, <1>7, <1>8

LEMMA AppendBehind ==
    ASSUME NEW S, NEW s \in Seq(S), NEW t \in Seq(S), NEW c \in S
    PROVE  s \o Append(t, c) = Append(s \o t, c)
  <1>1. <<c>> \in Seq(S) /\ s \o t \in Seq(S) /\ Append(t, c) = t \o <<c>>
    OBVIOUS
  <1>2. Append(s \o t, c) = (s \o t) \o <<c>>
    BY <1>1
  <1> QED
    BY <1>1, <1>2, ConcatAssociative

LEMMA Front ==
    ASSUME NEW S, NEW s \in Seq(S), s # <<>>
    PROVE  s = <<Head(s)>> \o Tail(s)
  <1>1. Head(s) \in S /\ Tail(s) \in Seq(S) /\ Len(s) \in Nat \ {0}
        /\ Head(s) = s[1] /\ Len(Tail(s)) = Len(s) - 1
        /\ \A i \in 1..Len(s) - 1 : Tail(s)[i] = s[i + 1]
    BY HeadTailProperties
  <1>2. <<Head(s)>> \in Seq(S) /\ Len(<<Head(s)>>) = 1 /\ <<Head(s)>>[1] = Head(s)
    BY <1>1
  <1>3. /\ <<Head(s)>> \o Tail(s) \in Seq(S)
        /\ Len(<<Head(s)>> \o Tail(s)) = Len(s)
        /\ \A i \in 1..Len(s) : (<<Head(s)>> \o Tail(s))[i] =
              IF i <= 1 THEN Head(s) ELSE Tail(s)[i - 1]
    BY <1>1, <1>2, ConcatProperties
  <1>4. \A i \in 1..Len(s) : s[i] = (<<Head(s)>> \o Tail(s))[i]
    BY <1>1, <1>3
  <1> QED
    BY <1>3, <1>4, SeqEqual

-----------------------------------------------------------------------------
(* The line of the writer that serves *)

Serves(th, g) == th[g] \in {"opening", "waiting", "idle", "running", "ended"}
HandOf(j, d) == IF j = NoJob \/ j \in Elements(d) THEN <<>> ELSE <<j>>
LineOf(th, ch, jb, d) ==
    IF \E g \in Generations : Serves(th, g)
    THEN LET g == CHOOSE g \in Generations : Serves(th, g)
         IN  HandOf(jb[g], d) \o ch[g]
    ELSE <<>>

LEMMA LineIs == Line = LineOf(thread, channel, job, done)
                /\ Line' = LineOf(thread', channel', job', done')
  BY DEF Line, LineOf, Serving, Serves, InHand, HandOf

LEMMA LineOfNone ==
    ASSUME NEW th, NEW ch, NEW jb, NEW d,
           \A h \in Generations : ~Serves(th, h)
    PROVE  LineOf(th, ch, jb, d) = <<>>
  BY DEF LineOf

-----------------------------------------------------------------------------
(* Every accepted write is in one place, and has not been applied *)

Places ==
    /\ \A g \in Generations :
          /\ thread[g] \in {"none", "gone"} => channel[g] = <<>>
          /\ Distinct(channel[g])
          /\ \A c \in Elements(channel[g]) :
                told[c] = "sent" /\ c \notin Elements(done)
    /\ \A g, h \in Generations :
          /\ job[g] \notin Elements(channel[h])
          /\ g # h => Elements(channel[g]) \cap Elements(channel[h]) = {}

Hands ==
    \A g \in Generations : thread[g] = "running" =>
        /\ told[job[g]] = "sent"
        /\ open[g] # <<>> => open[g] = <<job[g]>> /\ job[g] \notin Elements(done)

NewIsNew == \A c \in Callers : told[c] = "new" => c \notin Elements(done)

Order == Inv /\ Places /\ Hands /\ NewIsNew

LEMMA OrderInit == Init => Order
  <1> SUFFICES ASSUME Init PROVE Order
    OBVIOUS
  <1>1. Inv
    BY InvInit
  <1>2. \A g \in Generations : channel[g] = <<>> /\ job[g] = NoJob /\ thread[g] = "none"
    BY DEF Init
  <1>3. Distinct(<<>>) /\ Elements(<<>>) = {}
    BY DEF Distinct, Elements
  <1> QED
    BY <1>1, <1>2, <1>3 DEF Init, Order, Places, Hands, NewIsNew

\* Callers in a channel are callers.
LEMMA Channels == TypeOK => \A g \in Generations : Elements(channel[g]) \subseteq Callers
  BY DEF TypeOK, Elements

\* The line is that of the registered writer, if it serves.
LEMMA LineNow ==
    ASSUME Registration, NEW g \in Generations, Serving(g)
    PROVE  Line = HandOf(job[g], done) \o channel[g]
  <1>1. Serves(thread, g) /\ \A h \in Generations : Serves(thread, h) => h = g
    BY DEF Registration, Serving, Serves
  <1>2. LineOf(thread, channel, job, done) = HandOf(job[g], done) \o channel[g]
    BY <1>1 DEF LineOf
  <1> QED
    BY <1>2, LineIs

LEMMA LineThen ==
    ASSUME Registration', NEW g \in Generations, Serving(g)'
    PROVE  Line' = HandOf(job'[g], done') \o channel'[g]
  <1>1. Serves(thread', g) /\ \A h \in Generations : Serves(thread', h) => h = g
    BY DEF Registration, Serving, Serves
  <1>2. LineOf(thread', channel', job', done') = HandOf(job'[g], done') \o channel'[g]
    BY <1>1 DEF LineOf
  <1> QED
    BY <1>2, LineIs

LEMMA NoLine ==
    /\ (\A h \in Generations : ~Serving(h)) => Line = <<>>
    /\ (\A h \in Generations : ~Serving(h)') => Line' = <<>>
  <1>1. (\A h \in Generations : ~Serving(h)) => Line = <<>>
    BY LineIs, LineOfNone DEF Serving, Serves
  <1>2. (\A h \in Generations : ~Serving(h)') => Line' = <<>>
    BY LineIs, LineOfNone DEF Serving, Serves
  <1> QED
    BY <1>1, <1>2

\* A step that leaves hands, channels and what was done alone, and after which
\* the same writers serve, leaves the line alone.
LEMMA LineStays ==
    ASSUME Registration, Registration', UNCHANGED <<channel, job, done>>,
           \A g \in Generations : Serving(g)' <=> Serving(g)
    PROVE  Line' = Line
  <1>1. CASE \A g \in Generations : ~Serving(g)
    BY <1>1, NoLine
  <1>2. ASSUME NEW g \in Generations, Serving(g) PROVE Line' = Line
    BY <1>2, LineNow, LineThen
  <1> QED
    BY <1>1, <1>2

\* The step the abstract queue sees, if it sees any.
Abstract == Queue!Next \/ UNCHANGED Queue!vars

\* Threads that only move on.
LEMMA ThreadMoves ==
    ASSUME Order, Inv', NEW g \in Generations, NEW from, NEW to,
           thread[g] = from, from \in Threads \ {"running"}, to \notin {"running", "none"},
           thread' = [thread EXCEPT ![g] = to],
           to = "gone" => channel[g] = <<>>,
           UNCHANGED <<channel, job, done, told>>,
           \A h \in Generations : h # g => open'[h] = open[h]
    PROVE  Order' /\ ((Serving(g)' <=> Serving(g)) => Abstract)
  <1>1. ASSUME Serving(g)' <=> Serving(g) PROVE Abstract
    <2>1. \A h \in Generations : Serving(h)' <=> Serving(h)
      BY <1>1 DEF Serving, Order, Inv, TypeOK
    <2>2. Line' = Line
      BY <2>1, LineStays DEF Order, Inv
    <2> QED
      BY <2>2 DEF Abstract, Queue!vars
  <1>2. Places'
    BY DEF Places, Order, Inv, TypeOK
  <1>3. Hands'
    BY DEF Hands, Order, Inv, TypeOK
  <1>4. NewIsNew'
    BY DEF NewIsNew, Order
  <1> QED
    BY <1>1, <1>2, <1>3, <1>4 DEF Order

LEMMA MovesRefine ==
    ASSUME Order, Inv', NEW g \in Generations,
           Opened(g) \/ TimesOut(g) \/ Settle(g) \/ Forget(g)
    PROVE  Order' /\ Abstract
  <1>1. PICK from \in {"opening", "waiting", "ended", "failed"},
             to \in {"waiting", "idle", "closing"} :
              /\ thread[g] = from /\ thread' = [thread EXCEPT ![g] = to]
              /\ from = "failed" <=> to = "closing"
    BY DEF Opened, TimesOut, Settle, Forget, At
  <1>2. UNCHANGED <<channel, job, done, told>>
    BY DEF Opened, TimesOut, Settle, Forget
  <1>3. \A h \in Generations : h # g => open'[h] = open[h]
    BY DEF Opened, TimesOut, Settle, Forget, RolledBack, Order, Inv, TypeOK
  <1>4. Serving(g)' <=> Serving(g)
    BY <1>1 DEF Serving, Order, Inv, TypeOK
  <1>5. from \in Threads \ {"running"} /\ to \notin {"running", "none", "gone"}
    BY DEF Threads
  <1> QED
    BY <1>1, <1>2, <1>3, <1>4, <1>5, ThreadMoves

\* The idle writer leaves an empty line.
LEMMA LeaveRefines ==
    ASSUME Order, Inv', NEW g \in Generations, Leave(g) PROVE Order' /\ Abstract
  <1>1. /\ thread[g] = "idle" /\ thread' = [thread EXCEPT ![g] = "gone"]
        /\ channel[g] = <<>> /\ UNCHANGED <<channel, job, open, done, told>>
    BY DEF Leave, MayLeave, At
  <1>2. Order'
    BY <1>1, ThreadMoves DEF Threads
  <1>3. Line = <<>>
    <2>1. Line = HandOf(job[g], done) \o channel[g]
      BY <1>1, LineNow DEF Order, Inv, Serving
    <2>2. HandOf(job[g], done) = <<>>
      BY <1>1 DEF Order, Inv, Busy, HandOf
    <2> QED
      BY <1>1, <2>1, <2>2
  <1>4. Line' = <<>>
    <2>1. \A h \in Generations : ~Serving(h)'
      BY <1>1 DEF Order, Inv, TypeOK, Registration, Serving
    <2> QED
      BY <2>1, NoLine
  <1> QED
    BY <1>1, <1>2, <1>3, <1>4 DEF Abstract, Queue!vars

\* A writer that cannot open the database gives up its line.
LEMMA NotOpenedRefines ==
    ASSUME Order, Inv', NEW g \in Generations, NotOpened(g) PROVE Order' /\ Abstract
  <1>1. /\ thread[g] = "opening" /\ thread' = [thread EXCEPT ![g] = "failed"]
        /\ UNCHANGED <<channel, job, open, done, told>>
    BY DEF NotOpened, At
  <1>2. Order'
    BY <1>1, ThreadMoves DEF Threads
  <1>3. Line' = <<>>
    <2>1. \A h \in Generations : ~Serving(h)'
      BY <1>1 DEF Order, Inv, TypeOK, Registration, Serving
    <2> QED
      BY <2>1, NoLine
  <1> QED
    BY <1>1, <1>2, <1>3 DEF Abstract, Queue!Next, Queue!GiveUp

LEMMA CannotStartRefines ==
    ASSUME Order, Inv', NEW c \in Callers, CannotStart(c) PROVE Order' /\ Abstract
  <1>1. /\ told[c] = "new" /\ told' = [told EXCEPT ![c] = "error"]
        /\ UNCHANGED <<entry, thread, channel, job, open, done>>
    BY DEF CannotStart
  <1>2. Line' = Line
    BY <1>1, LineStays DEF Order, Inv, Serving
  <1>3. Places' /\ Hands' /\ NewIsNew'
    BY <1>1 DEF Order, Inv, TypeOK, Busy, Places, Hands, NewIsNew
  <1> QED
    BY <1>1, <1>2, <1>3 DEF Order, Abstract, Queue!Next, Queue!Refuse

LEMMA StartRefines ==
    ASSUME Order, Inv', NEW c \in Callers, StartWriter(c) PROVE Order' /\ Abstract
  <1>1. PICK n \in Generations :
        /\ told[c] = "new" /\ thread[n] = "none"
        /\ thread' = [thread EXCEPT ![n] = "opening"]
        /\ channel' = [channel EXCEPT ![n] = <<c>>]
        /\ told' = [told EXCEPT ![c] = "sent"]
        /\ UNCHANGED <<job, open, done>>
    <2>1. generation + 1 \in Generations /\ thread[generation + 1] = "none"
      BY DbWriterAssumption DEF StartWriter, Generations, Order, Inv, TypeOK, Registration
    <2> QED
      BY <2>1 DEF StartWriter
  <1>2. \A g \in Generations : ~Serving(g)
    BY DEF StartWriter, Registered, Generations, Order, Inv, Registration, Serving,
           Receives, None
  <1>3. Line = <<>>
    BY <1>2, NoLine
  <1>4. Serving(n)' /\ channel'[n] = <<c>> /\ Elements(<<c>>) = {c} /\ Distinct(<<c>>)
        /\ \A g \in Generations \ {n} : channel'[g] = channel[g]
    BY <1>1 DEF Serving, Order, Inv, TypeOK, Elements, Distinct
  <1>5. Line' = Append(<<>>, c)
    <2>1. Line' = HandOf(job'[n], done') \o channel'[n]
      BY <1>4, LineThen DEF Inv
    <2>2. HandOf(job'[n], done') = <<>>
      BY <1>1 DEF Order, Inv, Busy, HandOf
    <2> QED
      BY <1>4, <2>1, <2>2
  <1>6. c \notin Elements(done) /\ \A g \in Generations : c \notin Elements(channel[g])
    BY <1>1 DEF Order, NewIsNew, Places
  <1>7. \A g \in Generations : job[g] = NoJob /\ thread[g] # "running"
    BY <1>2 DEF Order, Inv, Busy, Serving
  <1>8. Places'
    <2>1. told'[c] = "sent" /\ \A b \in Callers \ {c} : told'[b] = told[b]
      BY <1>1 DEF Order, Inv, TypeOK
    <2>2. thread'[n] = "opening" /\ \A g \in Generations \ {n} : thread'[g] = thread[g]
      BY <1>1 DEF Order, Inv, TypeOK
    <2>3. \A g \in Generations : Elements(channel[g]) \subseteq Callers
      BY Channels DEF Order, Inv
    <2>4. \A g \in Generations :
             /\ thread'[g] \in {"none", "gone"} => channel'[g] = <<>>
             /\ Distinct(channel'[g])
             /\ \A b \in Elements(channel'[g]) :
                   told'[b] = "sent" /\ b \notin Elements(done')
      BY <1>1, <1>4, <1>6, <2>1, <2>2, <2>3 DEF Order, Places
    <2>5. \A g, h \in Generations : job'[g] \notin Elements(channel'[h])
      BY <1>1, <1>4, <1>7, DbWriterAssumption DEF Order, Places
    <2>6. \A g, h \in Generations :
             g # h => Elements(channel'[g]) \cap Elements(channel'[h]) = {}
      <3>1. \A g, h \in Generations :
               g # h => Elements(channel[g]) \cap Elements(channel[h]) = {}
        BY DEF Order, Places
      <3>2. \A g \in Generations \ {n} : Elements(channel'[g]) = Elements(channel[g])
        BY <1>4
      <3> QED
        BY <1>4, <1>6, <3>1, <3>2
    <2> QED
      BY <2>4, <2>5, <2>6 DEF Places
  <1>9. Hands' /\ NewIsNew'
    BY <1>1, <1>7 DEF Order, Hands, NewIsNew, Inv, TypeOK
  <1> QED
    BY <1>1, <1>3, <1>5, <1>8, <1>9 DEF Order, Abstract, Queue!Next, Queue!Accept

LEMMA SendRefines ==
    ASSUME Order, Inv', NEW c \in Callers, Send(c) PROVE Order' /\ Abstract
  <1>1. /\ told[c] = "new" /\ entry \in Generations /\ Receives(entry)
        /\ channel' = [channel EXCEPT ![entry] = Append(@, c)]
        /\ told' = [told EXCEPT ![c] = "sent"]
        /\ UNCHANGED <<entry, generation, thread, job, open, done>>
    BY DEF Send, Registered, Order, Inv, TypeOK, None
  <1>2. c \notin Elements(done) /\ \A g \in Generations : c \notin Elements(channel[g])
    BY <1>1 DEF Order, NewIsNew, Places
  <1>3. channel[entry] \in Seq(Callers) /\ channel'[entry] = Append(channel[entry], c)
        /\ \A g \in Generations \ {entry} : channel'[g] = channel[g]
    BY <1>1 DEF Order, Inv, TypeOK
  <1>4. Elements(channel'[entry]) = Elements(channel[entry]) \cup {c}
        /\ Distinct(channel'[entry])
    BY <1>1, <1>2, <1>3, ElementsAppend, DistinctAppend DEF Order, Places
  <1>5. \A g \in Generations : job[g] # c
    <2>1. \A g \in Generations : thread[g] = "running" => job[g] # c
      BY <1>1 DEF Order, Hands
    <2> QED
      BY <2>1, DbWriterAssumption DEF Order, Inv, Busy
  <1>6. Places'
    <2>1. \A b \in Callers \ {c} : told'[b] = told[b]
      BY <1>1
    <2>2. told'[c] = "sent"
      BY <1>1 DEF Order, Inv, TypeOK
    <2>3. thread[entry] \notin {"none", "gone"}
      BY <1>1 DEF Receives
    <2>4. \A g \in Generations : Elements(channel[g]) \subseteq Callers
      BY Channels DEF Order, Inv
    <2>5. \A g \in Generations :
             /\ thread'[g] \in {"none", "gone"} => channel'[g] = <<>>
             /\ Distinct(channel'[g])
             /\ \A b \in Elements(channel'[g]) :
                   told'[b] = "sent" /\ b \notin Elements(done')
      BY <1>1, <1>2, <1>3, <1>4, <2>1, <2>2, <2>3, <2>4 DEF Order, Places
    <2>6. \A g, h \in Generations : job'[g] \notin Elements(channel'[h])
      BY <1>1, <1>3, <1>4, <1>5 DEF Order, Places
    <2>7. \A g, h \in Generations :
             g # h => Elements(channel'[g]) \cap Elements(channel'[h]) = {}
      <3>1. \A g, h \in Generations :
               g # h => Elements(channel[g]) \cap Elements(channel[h]) = {}
        BY DEF Order, Places
      <3>2. \A g \in Generations \ {entry} : Elements(channel'[g]) = Elements(channel[g])
        BY <1>3
      <3> QED
        BY <1>2, <1>4, <3>1, <3>2
    <2> QED
      BY <2>5, <2>6, <2>7 DEF Places
  <1>7. Hands' /\ NewIsNew'
    BY <1>1, <1>5 DEF Order, Hands, NewIsNew, Inv, TypeOK
  <1>8. CASE Serving(entry)
    <2>1. Line = HandOf(job[entry], done) \o channel[entry]
      BY <1>1, <1>8, LineNow DEF Order, Inv
    <2>2. Line' = HandOf(job[entry], done) \o Append(channel[entry], c)
      <3>1. Serving(entry)'
        BY <1>1, <1>8 DEF Serving
      <3>2. Line' = HandOf(job'[entry], done') \o channel'[entry]
        BY <1>1, <3>1, LineThen DEF Inv
      <3> QED
        BY <1>1, <1>3, <3>2
    <2>3. HandOf(job[entry], done) \in Seq(Callers)
      BY <1>1 DEF HandOf, Order, Inv, TypeOK
    <2>4. Line' = Append(Line, c)
      <3> DEFINE s == HandOf(job[entry], done)
                 t == channel[entry]
      <3>1. s \in Seq(Callers) /\ t \in Seq(Callers)
        BY <1>3, <2>3
      <3> HIDE DEF s, t
      <3>2. s \o Append(t, c) = Append(s \o t, c)
        BY <3>1, AppendBehind
      <3> QED
        BY <2>1, <2>2, <3>2 DEF s, t
    <2> QED
      BY <1>1, <1>6, <1>7, <2>4 DEF Order, Abstract, Queue!Next, Queue!Accept
  <1>9. CASE ~Serving(entry)
    <2>1. \A h \in Generations : ~Serving(h) /\ ~Serving(h)'
      BY <1>1, <1>9 DEF Order, Inv, Registration, Serving
    <2>2. Line = <<>> /\ Line' = <<>>
      BY <2>1, NoLine
    <2> QED
      BY <1>1, <1>6, <1>7, <2>2 DEF Order, Abstract, Queue!Next, Queue!TurnAway
  <1> QED
    BY <1>8, <1>9

\* The receiver goes, and everyone in its channel is told.
LEMMA DropRefines ==
    ASSUME Order, Inv', NEW g \in Generations, Drop(g) PROVE Order' /\ Abstract
  <1>1. /\ thread[g] = "closing" /\ thread' = [thread EXCEPT ![g] = "gone"]
        /\ told' = [c \in Callers |->
                      IF c \in Elements(channel[g]) THEN "error" ELSE told[c]]
        /\ channel' = [channel EXCEPT ![g] = <<>>]
        /\ UNCHANGED <<entry, job, open, done>>
    BY DEF Drop, At
  <1>2. /\ channel'[g] = <<>> /\ Elements(<<>>) = {} /\ Distinct(<<>>)
        /\ \A h \in Generations \ {g} : channel'[h] = channel[h] /\ thread'[h] = thread[h]
    BY <1>1, ElementsEmpty DEF Order, Inv, TypeOK, Distinct
  <1>3. \A h \in Generations : Serving(h) => h # g
    BY <1>1 DEF Serving
  <1>4. \A h \in Generations : Serving(h)' <=> Serving(h)
    BY <1>1 DEF Order, Inv, TypeOK, Serving
  <1>5. Line' = Line /\ Elements(channel[g]) \cap Elements(Line) = {}
    <2>1. CASE \A h \in Generations : ~Serving(h)
      <3>1. Line = <<>> /\ Line' = <<>>
        BY <1>4, <2>1, NoLine
      <3> QED
        BY <1>2, <3>1
    <2>2. ASSUME NEW h \in Generations, Serving(h)
          PROVE  Line' = Line /\ Elements(channel[g]) \cap Elements(Line) = {}
      <3>1. Line = HandOf(job[h], done) \o channel[h]
        BY <2>2, LineNow DEF Order, Inv
      <3>2. Line' = HandOf(job'[h], done') \o channel'[h]
        BY <1>4, <2>2, LineThen DEF Inv
      <3>3. Elements(channel[g]) \cap Elements(channel[h]) = {}
            /\ job[h] \notin Elements(channel[g])
        BY <1>3, <2>2 DEF Order, Places
      <3>4. channel[h] \in Seq(Callers) /\ job[h] \in Callers \cup {NoJob}
        BY DEF Order, Inv, TypeOK
      <3>5. Elements(Line) \subseteq {job[h]} \cup Elements(channel[h])
        BY <3>1, <3>4, InFront, ConcatEmptySeq DEF HandOf
      <3> QED
        BY <1>1, <1>2, <1>3, <2>2, <3>1, <3>2, <3>3, <3>5
    <2> QED
      BY <2>1, <2>2
  <1>6. Elements(channel[g]) \subseteq {c \in Callers : told[c] = "sent"}
    BY Channels DEF Order, Inv, Places
  <1>7. Abstract
    <2>1. Queue!FailAll
      <3>1. Queue!Elements(Line) = Elements(Line)
        BY DEF Elements, Queue!Elements
      <3> QED
        BY <1>1, <1>5, <1>6, <3>1 DEF Queue!FailAll
    <2> QED
      BY <2>1 DEF Abstract, Queue!Next
  <1>8. Places'
    <2>1. \A h \in Generations \ {g} : \A c \in Elements(channel[h]) :
             c \in Callers /\ c \notin Elements(channel[g])
      BY Channels DEF Order, Inv, Places
    <2>2. \A h \in Generations \ {g} : \A c \in Elements(channel[h]) : told'[c] = told[c]
      BY <1>1, <2>1
    <2>3. \A h \in Generations :
             /\ thread'[h] \in {"none", "gone"} => channel'[h] = <<>>
             /\ Distinct(channel'[h])
             /\ \A c \in Elements(channel'[h]) :
                   told'[c] = "sent" /\ c \notin Elements(done')
      BY <1>1, <1>2, <2>2 DEF Order, Places
    <2>4. \A h, i \in Generations :
             /\ job'[h] \notin Elements(channel'[i])
             /\ h # i => Elements(channel'[h]) \cap Elements(channel'[i]) = {}
      BY <1>1, <1>2 DEF Order, Places
    <2> QED
      BY <2>3, <2>4 DEF Places
  <1>9. Hands' /\ NewIsNew'
    <2>1. \A h \in Generations : thread'[h] = "running" =>
             thread[h] = "running" /\ job[h] \in Callers /\ told'[job[h]] = told[job[h]]
      BY <1>1 DEF Order, Inv, TypeOK, Busy, Places
    <2>2. Hands'
      BY <1>1, <2>1 DEF Order, Hands
    <2>3. NewIsNew'
      BY <1>1 DEF Order, NewIsNew
    <2> QED
      BY <2>2, <2>3
  <1> QED
    BY <1>7, <1>8, <1>9 DEF Order

\* A job goes from the front of the channel into the hands: the line stays.
LEMMA TakeRefines ==
    ASSUME Order, Inv', NEW g \in Generations, Take(g) \/ TakeLate(g)
    PROVE  Order' /\ Abstract
  <1> DEFINE c == Head(channel[g])
             rest == Tail(channel[g])
  <1>1. /\ thread[g] \in {"waiting", "idle"}
        /\ thread' = [thread EXCEPT ![g] = "running"]
        /\ channel[g] # <<>> /\ channel[g] \in Seq(Callers)
        /\ job' = [job EXCEPT ![g] = c]
        /\ channel' = [channel EXCEPT ![g] = rest]
        /\ UNCHANGED <<entry, open, done, told>>
    BY DEF Take, TakeLate, TakeFrom, At, Order, Inv, TypeOK
  <1>2. /\ c \in Callers /\ rest \in Seq(Callers)
        /\ Elements(channel[g]) = {c} \cup Elements(rest)
        /\ Distinct(rest) /\ c \notin Elements(rest)
        /\ channel[g] = <<c>> \o rest
    BY <1>1, ElementsOfHeadAndTail, DistinctTail, Front DEF Order, Places
  <1>3. /\ channel'[g] = rest /\ job'[g] = c /\ thread'[g] = "running"
        /\ \A h \in Generations \ {g} :
              channel'[h] = channel[h] /\ job'[h] = job[h] /\ thread'[h] = thread[h]
    BY <1>1 DEF Order, Inv, TypeOK
  <1> HIDE DEF c, rest
  <1>4. told[c] = "sent" /\ c \notin Elements(done) /\ c # NoJob
        /\ \A h \in Generations : h # g => c \notin Elements(channel[h])
    BY <1>2, DbWriterAssumption DEF Order, Places
  <1>5. Line' = Line
    <2>1. Line = HandOf(job[g], done) \o channel[g]
      BY <1>1, LineNow DEF Order, Inv, Serving
    <2>2. HandOf(job[g], done) = <<>>
      BY <1>1 DEF Order, Inv, Busy, HandOf
    <2>3. Line = channel[g]
      BY <1>1, <2>1, <2>2, ConcatEmptySeq
    <2>4. Line' = HandOf(job'[g], done') \o channel'[g]
      BY <1>3, LineThen DEF Inv, Serving
    <2>5. HandOf(job'[g], done') = <<c>>
      BY <1>1, <1>3, <1>4 DEF HandOf
    <2> QED
      BY <1>2, <1>3, <2>3, <2>4, <2>5
  <1>6. Places'
    <2>1. \A h \in Generations : Elements(channel'[h]) \subseteq Elements(channel[h])
      BY <1>2, <1>3
    <2>2. \A h \in Generations :
             /\ thread'[h] \in {"none", "gone"} => channel'[h] = <<>>
             /\ Distinct(channel'[h])
             /\ \A b \in Elements(channel'[h]) :
                   told'[b] = "sent" /\ b \notin Elements(done')
      <3>1. \A h \in Generations : \A b \in Elements(channel'[h]) :
               told'[b] = "sent" /\ b \notin Elements(done')
        BY <1>1, <2>1 DEF Order, Places
      <3>2. \A h \in Generations \ {g} :
               /\ thread'[h] \in {"none", "gone"} => channel'[h] = <<>>
               /\ Distinct(channel'[h])
        BY <1>3 DEF Order, Places
      <3> QED
        BY <1>2, <1>3, <3>1, <3>2
    <2>3. \A h, i \in Generations : job'[h] \notin Elements(channel'[i])
      BY <1>2, <1>3, <1>4, <2>1 DEF Order, Places
    <2>4. \A h, i \in Generations :
             h # i => Elements(channel'[h]) \cap Elements(channel'[i]) = {}
      BY <2>1 DEF Order, Places
    <2> QED
      BY <2>2, <2>3, <2>4 DEF Places
  <1>7. Hands'
    BY <1>1, <1>3, <1>4 DEF Order, Inv, Clean, Hands
  <1>8. NewIsNew'
    BY <1>1 DEF Order, NewIsNew
  <1> QED
    BY <1>1, <1>5, <1>6, <1>7, <1>8 DEF Order, Abstract, Queue!vars

LEMMA WriteRefines ==
    ASSUME Order, Inv', NEW g \in Generations, Write(g) PROVE Order' /\ Abstract
  <1>1. /\ thread[g] = "running" /\ job[g] \notin Elements(done)
        /\ job[g] \notin Elements(open[g])
        /\ open' = [open EXCEPT ![g] = Append(@, job[g])]
        /\ UNCHANGED <<entry, thread, channel, job, done, told>>
    BY DEF Write
  <1>2. Line' = Line
    BY <1>1, LineStays DEF Order, Inv, Serving
  <1>3. open[g] = <<>>
    <2>1. job[g] \in Elements(<<job[g]>>)
      BY DEF Elements
    <2> QED
      BY <1>1, <2>1 DEF Order, Hands
  <1>4. open'[g] = <<job[g]>> /\ \A h \in Generations \ {g} : open'[h] = open[h]
    BY <1>1, <1>3 DEF Order, Inv, TypeOK
  <1>5. Places' /\ NewIsNew'
    BY <1>1 DEF Order, Places, NewIsNew
  <1>6. Hands'
    BY <1>1, <1>4 DEF Order, Hands
  <1> QED
    BY <1>1, <1>2, <1>5, <1>6 DEF Order, Abstract, Queue!vars

\* The write in hand, and nothing else, is applied.
LEMMA CommitRefines ==
    ASSUME Order, Inv', NEW g \in Generations, Commit(g) PROVE Order' /\ Abstract
  <1>1. /\ thread[g] = "running" /\ job[g] \in Elements(open[g])
        /\ done' = done \o open[g] /\ open' = [open EXCEPT ![g] = <<>>]
        /\ UNCHANGED <<entry, thread, channel, job, told>>
    BY DEF Commit
  <1>2. open[g] = <<job[g]>> /\ job[g] \notin Elements(done)
        /\ job[g] \in Callers /\ job[g] # NoJob /\ told[job[g]] = "sent"
        /\ done \in Seq(Callers) /\ channel[g] \in Seq(Callers)
    BY <1>1, ElementsEmpty, DbWriterAssumption DEF Order, Inv, TypeOK, Busy, Hands
  <1>3. done' = Append(done, job[g])
    BY <1>1, <1>2
  <1>4. Elements(done') = Elements(done) \cup {job[g]}
    BY <1>2, <1>3, ElementsAppend
  <1>5. Line = <<job[g]>> \o channel[g]
    <2>1. Line = HandOf(job[g], done) \o channel[g]
      BY <1>1, LineNow DEF Order, Inv, Serving
    <2> QED
      BY <1>2, <2>1 DEF HandOf
  <1>6. Line' = channel[g]
    <2>1. Line' = HandOf(job'[g], done') \o channel'[g]
      BY <1>1, LineThen DEF Inv, Serving
    <2>2. HandOf(job'[g], done') = <<>>
      BY <1>1, <1>4 DEF HandOf
    <2> QED
      BY <1>1, <1>2, <2>1, <2>2, ConcatEmptySeq
  <1>7. Line # <<>> /\ Head(Line) = job[g] /\ Line' = Tail(Line)
    BY <1>2, <1>5, <1>6, InFront
  <1>8. Places'
    <2>1. \A h \in Generations : \A b \in Elements(channel[h]) :
             told[b] = "sent" /\ b \notin Elements(done')
      BY <1>4 DEF Order, Places
    <2> QED
      BY <1>1, <2>1 DEF Order, Places
  <1>9. Hands'
    <2>1. \A h \in Generations \ {g} : thread[h] # "running" /\ open'[h] = open[h]
      BY <1>1 DEF Order, Inv, TypeOK, Registration, Serving
    <2>2. open'[g] = <<>>
      BY <1>1 DEF Order, Inv, TypeOK
    <2> QED
      BY <1>1, <1>2, <2>1, <2>2 DEF Hands
  <1>10. NewIsNew'
    BY <1>1, <1>2, <1>4 DEF Order, NewIsNew
  <1> QED
    BY <1>1, <1>3, <1>7, <1>8, <1>9, <1>10
    DEF Order, Abstract, Queue!Next, Queue!Apply

\* "ok" confirms what is applied; an error takes the write out of the line.
LEMMA ReturnRefines ==
    ASSUME Order, Inv', NEW g \in Generations, NEW answer \in {"ok", "error"},
           Return(g, answer)
    PROVE  Order' /\ Abstract
  <1> DEFINE c == job[g]
  <1>1. /\ thread[g] = "running" /\ thread' = [thread EXCEPT ![g] = "ended"]
        /\ answer = "ok" => c \in Elements(done)
        /\ told' = [told EXCEPT ![c] = answer]
        /\ job' = [job EXCEPT ![g] = NoJob]
        /\ UNCHANGED <<entry, channel, open, done>>
    BY DEF Return, Answer, At
  <1>2. /\ c \in Callers /\ c # NoJob /\ told[c] = "sent" /\ channel[g] \in Seq(Callers)
        /\ \A h \in Generations : c \notin Elements(channel[h])
    BY <1>1, DbWriterAssumption DEF Order, Inv, TypeOK, Busy, Hands, Places
  <1>3. Line = HandOf(c, done) \o channel[g]
    BY <1>1, LineNow DEF Order, Inv, Serving
  <1>4. Line' = channel[g]
    <2>1. job'[g] = NoJob /\ Serving(g)'
      BY <1>1 DEF Order, Inv, TypeOK, Serving
    <2>2. Line' = HandOf(job'[g], done') \o channel'[g]
      BY <2>1, LineThen DEF Inv
    <2>3. HandOf(job'[g], done') = <<>>
      BY <2>1 DEF HandOf
    <2> QED
      BY <1>1, <1>2, <2>2, <2>3, ConcatEmptySeq
  <1>5. Queue!Elements(done) = Elements(done) /\ Queue!Elements(Line') = Elements(Line')
    BY DEF Elements, Queue!Elements
  <1>6. Abstract
    <2>1. CASE c \in Elements(done)
      <3>1. Line = channel[g]
        BY <1>2, <1>3, <2>1, ConcatEmptySeq DEF HandOf
      <3>2. Line # <<>> => Head(Line) # c
        BY <1>2, <3>1, ElementsOfHeadAndTail
      <3>3. CASE answer = "ok"
        BY <1>1, <1>2, <1>4, <1>5, <2>1, <3>1, <3>3
        DEF Abstract, Queue!Next, Queue!Confirm
      <3>4. CASE answer = "error"
        <4>1. Queue!Fail(c)
          BY <1>1, <1>2, <1>4, <1>5, <3>1, <3>2, <3>4 DEF Queue!Fail
        <4> QED
          BY <1>2, <4>1 DEF Abstract, Queue!Next
      <3> QED
        BY <3>3, <3>4
    <2>2. CASE c \notin Elements(done)
      <3>1. Line = <<c>> \o channel[g]
        BY <1>2, <1>3, <2>2 DEF HandOf
      <3>2. Line # <<>> /\ Head(Line) = c /\ Tail(Line) = channel[g]
        BY <1>2, <3>1, InFront
      <3>3. Queue!Fail(c)
        BY <1>1, <1>2, <1>4, <1>5, <2>2, <3>2 DEF Queue!Fail
      <3> QED
        BY <1>2, <3>3 DEF Abstract, Queue!Next
    <2> QED
      BY <2>1, <2>2
  <1>7. /\ \A b \in Callers \ {c} : told'[b] = told[b]
        /\ told'[c] \notin {"new", "sent"}
        /\ \A h \in Generations \ {g} :
              thread'[h] = thread[h] /\ job'[h] = job[h] /\ thread[h] # "running"
        /\ thread'[g] = "ended" /\ job'[g] = NoJob
    BY <1>1, <1>2 DEF Order, Inv, TypeOK, Registration, Serving
  <1>8. Places'
    <2>1. \A h \in Generations : \A b \in Elements(channel[h]) :
             b # NoJob /\ told'[b] = told[b]
      BY <1>2, <1>7, Channels, DbWriterAssumption DEF Order, Inv
    <2>2. \A h \in Generations :
             /\ thread'[h] \in {"none", "gone"} => channel'[h] = <<>>
             /\ Distinct(channel'[h])
             /\ \A b \in Elements(channel'[h]) :
                   told'[b] = "sent" /\ b \notin Elements(done')
      BY <1>1, <1>7, <2>1 DEF Order, Places
    <2>3. \A h, i \in Generations : job'[h] \notin Elements(channel'[i])
      BY <1>1, <1>7, <2>1 DEF Order, Places
    <2> QED
      BY <1>1, <2>2, <2>3 DEF Order, Places
  <1>9. Hands' /\ NewIsNew'
    BY <1>1, <1>7 DEF Order, Hands, NewIsNew
  <1> QED
    BY <1>6, <1>8, <1>9 DEF Order

\* A write inside a write is applied beside the line.
LEMMA NestedRefines ==
    ASSUME Order, Inv', NEW g \in Generations, NEW c \in Callers, Nested(g, c)
    PROVE  Order' /\ Abstract
  <1>1. /\ thread[g] = "running" /\ told[c] = "new"
        /\ \/ /\ open[g] = <<>> /\ done' = Append(done, c)
              /\ told' = [told EXCEPT ![c] = "ok"]
           \/ told' = [told EXCEPT ![c] = "error"] /\ done' = done
        /\ UNCHANGED <<entry, thread, channel, job, open>>
    BY DEF Nested
  <1>2. /\ \A h \in Generations : c \notin Elements(channel[h])
        /\ job[g] # c /\ job[g] \in Callers
        /\ \A h \in Generations \ {g} : thread[h] # "running" /\ job[h] = NoJob
    BY <1>1 DEF Order, Inv, Places, Hands, Busy, Registration, Serving
  <1>3. Elements(done') \subseteq Elements(done) \cup {c}
        /\ Elements(done) \subseteq Elements(done')
    <2>1. Elements(Append(done, c)) = Elements(done) \cup {c}
      BY ElementsAppend DEF Order, Inv, TypeOK
    <2> QED
      BY <1>1, <2>1
  <1>4. Line' = Line
    <2>1. Line = HandOf(job[g], done) \o channel[g]
      BY <1>1, LineNow DEF Order, Inv, Serving
    <2>2. Line' = HandOf(job'[g], done') \o channel'[g]
      BY <1>1, LineThen DEF Inv, Serving
    <2>3. HandOf(job'[g], done') = HandOf(job[g], done)
      BY <1>1, <1>2, <1>3 DEF HandOf
    <2> QED
      BY <1>1, <2>1, <2>2, <2>3
  <1>5. /\ \A b \in Callers \ {c} : told'[b] = told[b]
        /\ told'[c] \notin {"new", "sent"}
    BY <1>1 DEF Order, Inv, TypeOK
  <1>6. Places'
    <2>1. \A h \in Generations : \A b \in Elements(channel[h]) :
             b \in Callers \ {c}
      BY <1>2, Channels DEF Order, Inv
    <2> QED
      BY <1>1, <1>3, <1>5, <2>1 DEF Order, Places
  <1>7. Hands'
    BY <1>1, <1>2, <1>3, <1>5 DEF Order, Hands
  <1>8. NewIsNew'
    BY <1>1, <1>3, <1>5 DEF Order, NewIsNew
  <1>9. Abstract
    BY <1>1, <1>4 DEF Abstract, Queue!Next, Queue!Inside, Queue!Refuse
  <1> QED
    BY <1>6, <1>7, <1>8, <1>9 DEF Order

-----------------------------------------------------------------------------
LEMMA StepRefines == Order /\ Inv' /\ [Next]_vars => Order' /\ Abstract
  <1> SUFFICES ASSUME Order, Inv', [Next]_vars PROVE Order' /\ Abstract
    OBVIOUS
  <1>1. CASE UNCHANGED vars
    <2>1. Line' = Line
      BY <1>1, LineStays DEF vars, Serving, Order, Inv
    <2> QED
      BY <1>1, <2>1
      DEF vars, Order, Places, Hands, NewIsNew, Abstract, Queue!vars
  <1>2. ASSUME NEW c \in Callers, Submit(c) PROVE Order' /\ Abstract
    BY <1>2, SendRefines, StartRefines, CannotStartRefines DEF Submit
  <1>3. ASSUME NEW g \in Generations, Step(g) PROVE Order' /\ Abstract
    BY <1>3, MovesRefine, NotOpenedRefines, DropRefines, TakeRefines, LeaveRefines,
       ReturnRefines
    DEF Step
  <1>4. ASSUME NEW g \in Generations, Write(g) \/ Commit(g) PROVE Order' /\ Abstract
    BY <1>4, WriteRefines, CommitRefines
  <1>5. ASSUME NEW g \in Generations, NEW c \in Callers, Nested(g, c)
        PROVE  Order' /\ Abstract
    BY <1>5, NestedRefines
  <1> QED
    BY <1>1, <1>2, <1>3, <1>4, <1>5 DEF Next

LEMMA InitRefines == Init => Queue!Init
  <1> SUFFICES ASSUME Init PROVE Queue!Init
    OBVIOUS
  <1>1. Line = <<>>
    BY NoLine DEF Init, Serving
  <1> QED
    BY <1>1 DEF Init, Queue!Init

\* What submit, run and forget make of threads, channels, generations and
\* connections is the queue WriteQueue promises: whole writes, at most once, in
\* the order of arrival, confirmed only when applied and never applied after an
\* error, however many writers fail, panic or leave.
THEOREM WriterIsAQueue == Spec => Implements
  <1>1. Order => Inv
    BY DEF Order
  <1>2. Order /\ [Next]_vars => Order' /\ [Queue!Next]_(Queue!vars)
    BY <1>1, InvStep, StepRefines DEF Abstract
  <1> QED
    BY <1>2, OrderInit, InitRefines, PTL DEF Spec, Implements, Queue!Spec

-----------------------------------------------------------------------------
(* FileChanges                                                             *)

\* The tools of the turn and its undo never meet, no row is reverted before the
\* turn is over, and a process that stays is marked.
Apart ==
    /\ ~active => Working = {}
    /\ \A t \in Tools : call[t].pc = "left" => incomplete
    /\ active => /\ ~broken
                 /\ \A u \in Undoers : undo[u].pc = "new"
                 /\ \A f \in Known : ~row[f].reverted

\* The files in the log none of whose changes got lost.
Ours == Known \cap Logged

\* What an undo read of their rows is what the rows say, but for the flag that
\* undos set; what it has to do lies in the rows, and it stands at a file.
Alike(f, old) ==
    /\ (row[f] = NoRow) = (old = NoRow)
    /\ row[f] # NoRow => row[f].before = old.before /\ row[f].after = old.after

Walks(u) ==
    /\ undo[u].pc = "new" => undo[u].todo = {} /\ undo[u].applied = {}
    /\ Undoing(u) =>
          /\ \A f \in Logged : Alike(f, undo[u].rows[f])
          /\ \A f \in undo[u].todo \cup undo[u].applied :
                undo[u].rows[f] \in Rows /\ (f \in Logged => f \in Known)
    /\ undo[u].pc \in {"replace", "mark"} => undo[u].todo # {}
    /\ undo[u].pc \in {"putback", "unmark"} => undo[u].applied # {}

Walking == \A u \in Undoers : Walks(u)

Alone == broken \/ \A u, v \in Undoers : Undoing(u) /\ Undoing(v) => u = v

\* What the log says a file holds.
Told(f) ==
    IF row[f] = NoRow THEN Original
    ELSE IF row[f].reverted THEN row[f].before ELSE row[f].after

Smooth ==
    /\ ~incomplete /\ ~broken
    /\ \A u \in Undoers :
          undo[u].pc \in {"new", "check", "replace", "mark", "undone"}

AtWork(f)  == \E t \in Working : f \in call[t].files
Held(f) ==
    \E u \in Undoers : undo[u].pc = "mark" /\ f = NextFile(undo[u].todo)

\* While nothing has failed: the files nobody works on hold what the log says,
\* unless the user wrote; an image shows the same, and a file that an undo has
\* just put back holds what it was.
Honest ==
    /\ ~incomplete =>
          /\ \A f \in Ours : row[f].before \in {Original, Foreign}
          /\ \A t \in Working : call[t].captured =>
                \A f \in call[t].files \cap Logged :
                   call[t].image[f] \in {Foreign, Told(f)}
    /\ Smooth => \A f \in Logged :
          /\ ~AtWork(f) /\ ~Held(f) => disk[f] \in {Foreign, Told(f)}
          /\ ~AtWork(f) /\ Held(f) => disk[f] \in {Foreign, row[f].before}

\* An undo that goes forward has reverted what it has applied and nothing
\* else; one that goes back has told, or still has in hand, what is reverted.
\* Or all of ours were reverted before, and it is about a file that a lost call
\* recorded late.
Turned == {f \in Ours : row[f].reverted}

Forward(todo, applied) ==
    \/ Turned = applied \cap Logged /\ Ours = (todo \cap Logged) \cup Turned
    \/ Turned = Ours /\ (todo \cup applied) \cap Logged = {}
Backward(trouble, applied) ==
    \/ trouble
    \/ Turned \subseteq applied
    \/ Turned = Ours /\ applied \cap Logged = {}

Whole ==
    ~incomplete /\ ~broken =>
        /\ UndoIsWhole
        /\ \A u \in Undoers :
              /\ undo[u].pc \in {"check", "replace", "mark"} =>
                    Forward(undo[u].todo, undo[u].applied)
              /\ undo[u].pc \in {"rollback", "putback", "unmark"} =>
                    Backward(undo[u].trouble, undo[u].applied)

\* A file of ours whose edit the turn wrote over has a row in conflict, or the tool
\* that did so is not done, or the file holds another edit that the log does
\* not tell of: no undo gets to it.
Kept(f) ==
    /\ row[f].after # Foreign
    /\ \A t \in Working :
          f \in call[t].files /\ call[t].captured => call[t].image[f] = Foreign
    /\ ~AtWork(f) => disk[f] = Foreign

Edited ==
    /\ \A f \in blended \cap Logged :
          /\ row[f] # NoRow /\ ~row[f].reverted
          /\ incomplete \/ row[f].conflicted \/ Kept(f)
    /\ \A u \in Undoers :
          /\ (undo[u].todo \cup undo[u].applied) \cap blended \cap Logged = {}
          /\ undo[u].pc = "replace" =>
                undo[u].seen = undo[u].rows[NextFile(undo[u].todo)].after

IInv == /\ FTypeOK /\ Apart /\ Walking /\ Alone
        /\ Honest /\ Whole /\ Edited

CallType ==
    [pc : {"new", "before", "after", "done", "left", "lost"},
     files : SUBSET Files,
     image : [Files -> Bytes], captured : BOOLEAN, background : BOOLEAN]
UndoType ==
    [pc : {"new", "check", "replace", "mark", "rollback", "putback",
           "unmark", "undone", "failed"},
     todo : SUBSET Files, applied : SUBSET Files,
     rows : [Files -> Rows \cup {NoRow}],
     guard : BOOLEAN, trouble : BOOLEAN, seen : Bytes]

-----------------------------------------------------------------------------
LEMMA IInvInit == FInit => IInv
  <1> SUFFICES ASSUME FInit PROVE IInv
    OBVIOUS
  <1>1. FTypeOK
    <2>1. Original \in Bytes /\ [f \in Files |-> Original] \in [Files -> Bytes]
          /\ [f \in Files |-> NoRow] \in [Files -> Rows \cup {NoRow}]
      BY FileChangesAssumption DEF Bytes
    <2>2. NewCall \in CallType /\ NewUndo \in UndoType
      BY <2>1 DEF NewCall, NewUndo, CallType, UndoType
    <2>3. call \in [Tools -> CallType] /\ undo \in [Undoers -> UndoType]
      BY <2>2 DEF FInit
    <2>4. Working = {}
      BY DEF FInit, Working, NewCall
    <2>5. 0 \in 0..MaxEdits
      BY FileChangesAssumption
    <2> QED
      BY <2>1, <2>3, <2>4, <2>5 DEF FInit, FTypeOK, CallType, UndoType
  <1>2. Working = {} /\ Known = {} /\ Ours = {} /\ Turned = {}
    BY DEF FInit, Working, NewCall, Known, Turned, Ours
  <1>3. \A u \in Undoers : ~Undoing(u) /\ undo[u].pc = "new"
                           /\ undo[u].applied = {} /\ undo[u].todo = {}
    BY DEF FInit, Undoing, NewUndo
  <1>4. Apart /\ Walking /\ Alone
    BY <1>2, <1>3 DEF Apart, Walking, Walks, Alone, FInit, NewCall
  <1>5. Honest
    <2>1. \A f \in Files : disk[f] = Told(f) /\ ~Held(f)
      BY <1>3 DEF FInit, Told, Held
    <2> QED
      BY <1>2, <2>1 DEF Honest, Logged
  <1>6. Whole /\ Edited
    BY <1>2, <1>3 DEF Whole, UndoIsWhole, Open, Edited, FInit
  <1> QED
    BY <1>1, <1>4, <1>5, <1>6 DEF IInv

-----------------------------------------------------------------------------
(* Tools of the turn, and the user *)

LEMMA ActiveIs ==
    ASSUME IInv, active
    PROVE  /\ \A u \in Undoers : undo[u].pc = "new" /\ ~Undoing(u)
           /\ \A f \in Files : ~Held(f)
           /\ \A f \in Known : ~row[f].reverted
  BY DEF IInv, Apart, Undoing, Held

\* One call changes, the others stay.
LEMMA CallGoes ==
    ASSUME FTypeOK, NEW t \in Tools, NEW this \in CallType,
           call' = [call EXCEPT ![t] = this]
    PROVE  /\ call' \in [Tools -> CallType]
           /\ call'[t] = this
           /\ \A s \in Tools : s # t => call'[s] = call[s]
  BY DEF FTypeOK, CallType

\* The files whose changes are all recorded stay, unless a call gets lost.
LEMMA LoggedStays ==
    ASSUME NEW t \in Tools, \A s \in Tools : s # t => call'[s] = call[s],
           call[t].pc # "lost", call'[t].pc # "lost"
    PROVE  Logged' = Logged
  <1>1. Lost' = Lost /\ t \notin Lost /\ \A s \in Lost : call'[s] = call[s]
    BY DEF Lost
  <1> QED
    BY <1>1 DEF Logged

LEMMA LoggedIs == Logged \subseteq Files
  BY DEF Logged

LEMMA LoggedSame == UNCHANGED call => Logged' = Logged
  BY DEF Logged, Lost

LEMMA BeginIs ==
    ASSUME FTypeOK, NEW t \in Tools, NEW files \in FileSets, Begin(t, files)
    PROVE  /\ call' \in [Tools -> CallType]
           /\ call[t].pc = "new" /\ call'[t].pc = "before"
           /\ call'[t].files = files
           /\ call'[t].captured => \A f \in files : call'[t].image[f] = disk[f]
           /\ \A s \in Tools : s # t => call'[s] = call[s]
           /\ \A s \in Working : call[s].files \cap files = {}
           /\ Working' = Working \cup {t}
  <1>1. PICK captured \in BOOLEAN :
          call' = [call EXCEPT ![t] =
              [@ EXCEPT !.pc = "before", !.files = files, !.captured = captured,
                        !.image = [f \in Files |->
                            IF captured /\ f \in files THEN disk[f] ELSE Original]]]
    BY DEF Begin
  <1> DEFINE image == [f \in Files |->
                            IF captured /\ f \in files THEN disk[f] ELSE Original]
             this == [call[t] EXCEPT !.pc = "before", !.files = files,
                                     !.captured = captured, !.image = image]
  <1>2. image \in [Files -> Bytes]
    BY FileChangesAssumption DEF FTypeOK, Bytes
  <1>3. files \subseteq Files
    BY DEF FileSets
  <1>4. /\ this \in CallType /\ this.pc = "before" /\ this.files = files
        /\ this.captured = captured /\ this.image = image
    <2>1. call[t] \in CallType
      BY DEF FTypeOK, CallType
    <2> HIDE DEF image
    <2> QED
      BY <1>2, <1>3, <2>1 DEF CallType
  <1>5. call' = [call EXCEPT ![t] = this]
    BY <1>1
  <1> HIDE DEF this
  <1>6. /\ call' \in [Tools -> CallType] /\ call'[t] = this
        /\ \A s \in Tools : s # t => call'[s] = call[s]
    BY <1>4, <1>5, CallGoes
  <1>7. call[t].pc = "new" /\ \A s \in Working : call[s].files \cap files = {}
    BY DEF Begin, Guarded
  <1>8. Working' = Working \cup {t}
    BY <1>4, <1>6 DEF Working
  <1>9. call'[t].captured => \A f \in files : call'[t].image[f] = disk[f]
    BY <1>3, <1>4, <1>6
  <1> QED
    BY <1>4, <1>6, <1>7, <1>8, <1>9

LEMMA IInvBegin ==
    ASSUME IInv, NEW t \in Tools, NEW files \in FileSets, Begin(t, files)
    PROVE  IInv'
  <1> USE DEF IInv
  <1>1. /\ UNCHANGED <<disk, row, incomplete, active, undo, edits, blended, broken>>
        /\ active /\ files \subseteq Files
    BY DEF Begin, FileSets
  <1>0. Logged' = Logged /\ Logged \subseteq Files
    BY BeginIs, LoggedStays DEF Logged
  <1>2. /\ Known' = Known /\ Ours' = Ours /\ Turned' = Turned /\ Open' = Open
        /\ \A u \in Undoers : Undoing(u)' = Undoing(u) /\ Walks(u)' = Walks(u)
        /\ \A f \in Files : Told(f)' = Told(f) /\ ~Held(f) /\ ~Held(f)'
    BY <1>0, <1>1, ActiveIs
       DEF Known, Ours, Turned, Open, Undoing, Walks, Alike, Told, Held
  <1>3. FTypeOK'
    <2>1. call' \in [Tools -> CallType]
      BY BeginIs
    <2>2. \A r, s \in Working' :
            r # s => call'[r].files \cap call'[s].files = {}
      BY BeginIs DEF FTypeOK, Working
    <2> QED
      BY <1>1, <2>1, <2>2 DEF FTypeOK, CallType
  <1>4. Apart' /\ Walking' /\ Alone'
    <2>1. \A s \in Tools : call'[s].pc = "left" => call[s].pc = "left"
      BY BeginIs
    <2> QED
      BY <1>1, <1>2, <2>1 DEF Apart, Walking, Alone
  <1>5. /\ \A f \in Files : f \notin files => AtWork(f)' = AtWork(f)
        /\ \A f \in files : ~AtWork(f) /\ AtWork(f)'
    <2>1. t \notin Working
      BY BeginIs DEF Working
    <2>2. \A s \in Working : s # t /\ call'[s].files = call[s].files
      BY <2>1, BeginIs DEF Working
    <2>3. Working' = Working \cup {t} /\ call'[t].files = files
          /\ \A s \in Working : call[s].files \cap files = {}
      BY BeginIs
    <2>4. ASSUME NEW f \in Files
          PROVE  AtWork(f)' <=> AtWork(f) \/ f \in files
      BY <2>2, <2>3 DEF AtWork
    <2>5. \A f \in files : ~AtWork(f)
      BY <2>3 DEF AtWork
    <2> QED
      BY <1>1, <2>4, <2>5 DEF AtWork
  <1>6. Honest'
    <2>1. Smooth' = Smooth /\ (~incomplete => Smooth)
      BY <1>1, ActiveIs DEF Smooth, Apart
    <2>2. ~incomplete =>
             \A f \in files \cap Logged : disk[f] \in {Foreign, Told(f)}
      BY <1>1, <1>2, <1>5, <2>1 DEF Honest
    <2>3. ASSUME ~incomplete, NEW s \in Working', call'[s].captured,
                 NEW f \in call'[s].files \cap Logged
          PROVE  call'[s].image[f] \in {Foreign, Told(f)'}
      <3>1. CASE s = t
        BY <1>0, <1>1, <1>2, <2>2, <2>3, <3>1, BeginIs
      <3>2. CASE s # t
        <4>1. s \in Working /\ call'[s] = call[s] /\ f \in Files
          BY <2>3, <3>2, BeginIs DEF Working, FTypeOK
        <4> QED
          BY <1>2, <2>3, <4>1 DEF Honest
      <3> QED
        BY <3>1, <3>2
    <2>4. ~incomplete => \A f \in Ours : row[f].before \in {Original, Foreign}
      BY DEF Honest
    <2>5. Smooth => \A f \in Logged : ~AtWork(f)' => disk[f] \in {Foreign, Told(f)}
      BY <1>0, <1>1, <1>2, <1>5 DEF Honest
    <2> QED
      BY <1>0, <1>1, <1>2, <2>1, <2>3, <2>4, <2>5 DEF Honest
  <1>7. Whole'
    BY <1>0, <1>1, <1>2 DEF Whole, UndoIsWhole, Quiet, Forward, Backward
  <1>8. Edited'
    <2>1. ASSUME NEW f \in blended, Kept(f) PROVE Kept(f)'
      <3>1. f \in Files /\ (f \in files => disk[f] = Foreign)
        BY <1>5, <2>1 DEF Kept, FTypeOK
      <3>2. ASSUME NEW s \in Working', f \in call'[s].files, call'[s].captured
            PROVE  call'[s].image[f] = Foreign
        <4>1. CASE s = t
          BY <3>1, <3>2, <4>1, BeginIs
        <4>2. CASE s # t
          BY <2>1, <3>2, <4>2, BeginIs DEF Kept, Working
        <4> QED
          BY <4>1, <4>2
      <3>3. ~AtWork(f)' => disk[f] = Foreign
        BY <1>5, <2>1, <3>1 DEF Kept
      <3> QED
        BY <1>1, <2>1, <3>2, <3>3 DEF Kept
    <2> QED
      BY <1>0, <1>1, <2>1 DEF Edited
  <1> QED
    BY <1>3, <1>4, <1>6, <1>7, <1>8


LEMMA WorkIs ==
    ASSUME FTypeOK, NEW t \in Tools, Work(t)
    PROVE  /\ call' \in [Tools -> CallType] /\ t \in Working
           /\ call[t].pc = "before"
           /\ call'[t].files = call[t].files
           /\ call'[t].image = call[t].image
           /\ call'[t].captured = call[t].captured
           /\ call'[t].pc = "after"
           /\ \A s \in Tools : s # t => call'[s] = call[s]
           /\ Working' = Working
           /\ disk' \in [Files -> Bytes]
           /\ \A f \in Files : f \notin call[t].files => disk'[f] = disk[f]
           /\ \A f \in blended' \ blended :
                 /\ f \in Known /\ f \in call[t].files
                 /\ call[t].image[f] = Foreign /\ row[f].after # Foreign
           /\ blended \subseteq blended' /\ blended' \subseteq Files
  <1>1. PICK background \in BOOLEAN :
          call' = [call EXCEPT ![t] = [@ EXCEPT !.pc = "after",
                                         !.background = background]]
    BY DEF Work
  <1>2. PICK some \in SUBSET call[t].files, bytes \in Contents :
          /\ disk' = [f \in Files |-> IF f \in some THEN bytes ELSE disk[f]]
          /\ blended' = blended \cup
                 {f \in some \cap Known :
                     disk[f] = Foreign /\ call[t].image[f] = Foreign
                     /\ row[f].after # Foreign}
    BY DEF Work
  <1> DEFINE this == [call[t] EXCEPT !.pc = "after", !.background = background]
  <1>3. call[t] \in CallType /\ call[t].pc = "before" /\ t \in Working
    BY DEF FTypeOK, CallType, Work, Working
  <1>4. /\ this \in CallType /\ this.pc = "after" /\ this.files = call[t].files
        /\ this.image = call[t].image /\ this.captured = call[t].captured
    BY <1>3 DEF CallType
  <1>5. call' = [call EXCEPT ![t] = this]
    BY <1>1
  <1> HIDE DEF this
  <1>6. /\ call' \in [Tools -> CallType] /\ call'[t] = this
        /\ \A s \in Tools : s # t => call'[s] = call[s]
    BY <1>4, <1>5, CallGoes
  <1>7. Working' = Working
    BY <1>3, <1>4, <1>6 DEF Working
  <1>8. call[t].files \subseteq Files
    BY <1>3 DEF CallType
  <1>9. /\ disk' \in [Files -> Bytes]
        /\ \A f \in Files : f \notin call[t].files => disk'[f] = disk[f]
    BY <1>2 DEF FTypeOK, Bytes
  <1>10. /\ \A f \in blended' \ blended :
                 /\ f \in Known /\ f \in call[t].files
                 /\ call[t].image[f] = Foreign /\ row[f].after # Foreign
         /\ blended \subseteq blended' /\ blended' \subseteq Files
    BY <1>2, <1>8 DEF FTypeOK
  <1> QED
    BY <1>3, <1>4, <1>6, <1>7, <1>9, <1>10

LEMMA IInvWork == ASSUME IInv, NEW t \in Tools, Work(t) PROVE IInv'
  <1> USE DEF IInv
  <1>1. UNCHANGED <<row, incomplete, active, undo, edits, broken>> /\ active
    <2>1. Working # {}
      BY WorkIs
    <2> QED
      BY <2>1 DEF Apart, Work
  <1>0. Logged' = Logged /\ Logged \subseteq Files
    BY WorkIs, LoggedStays DEF Logged
  <1>2. /\ Known' = Known /\ Ours' = Ours /\ Turned' = Turned /\ Open' = Open
        /\ \A u \in Undoers : Undoing(u)' = Undoing(u) /\ Walks(u)' = Walks(u)
        /\ \A f \in Files : Told(f)' = Told(f) /\ ~Held(f) /\ ~Held(f)'
    BY <1>0, <1>1, ActiveIs
       DEF Known, Ours, Turned, Open, Undoing, Walks, Alike, Told, Held
  <1>3. \A s \in Tools : /\ call'[s].files = call[s].files
                         /\ call'[s].image = call[s].image
                         /\ call'[s].captured = call[s].captured
    BY WorkIs
  <1>4. Working' = Working /\ \A f \in Files : AtWork(f)' = AtWork(f)
    BY <1>3, WorkIs DEF AtWork, Working
  <1>5. FTypeOK'
    <2>1. \A r, s \in Working' :
            r # s => call'[r].files \cap call'[s].files = {}
      BY <1>3, <1>4 DEF FTypeOK, Working
    <2> QED
      BY <1>1, <2>1, WorkIs DEF FTypeOK, CallType
  <1>6. Apart' /\ Walking' /\ Alone'
    <2>1. \A s \in Tools : call'[s].pc = "left" => call[s].pc = "left"
      BY WorkIs
    <2> QED
      BY <1>1, <1>2, <1>4, <2>1 DEF Apart, Walking, Alone
  <1>7. Honest'
    <2>1. Smooth' = Smooth
      BY <1>1 DEF Smooth
    <2>2. \A f \in Files : ~AtWork(f) => disk'[f] = disk[f]
      BY WorkIs DEF AtWork
    <2>3. ~incomplete => \A s \in Working' : call'[s].captured =>
             \A f \in call'[s].files \cap Logged :
                call'[s].image[f] \in {Foreign, Told(f)'}
      <3> SUFFICES ASSUME ~incomplete, NEW s \in Working', call'[s].captured,
                          NEW f \in call'[s].files \cap Logged
                   PROVE  call'[s].image[f] \in {Foreign, Told(f)'}
        OBVIOUS
      <3>1. s \in Working /\ s \in Tools /\ f \in Files /\ f \in call[s].files
        BY <1>3, <1>4 DEF Working, FTypeOK
      <3> QED
        BY <1>2, <1>3, <3>1 DEF Honest
    <2>4. ~incomplete => \A f \in Ours : row[f].before \in {Original, Foreign}
      BY DEF Honest
    <2>5. Smooth => \A f \in Logged : ~AtWork(f)' => disk'[f] \in {Foreign, Told(f)}
      BY <1>0, <1>1, <1>2, <1>4, <2>2 DEF Honest
    <2> QED
      BY <1>0, <1>1, <1>2, <2>1, <2>3, <2>4, <2>5 DEF Honest
  <1>8. Whole'
    BY <1>0, <1>1, <1>2 DEF Whole, UndoIsWhole, Quiet, Forward, Backward
  <1>9. Edited'
    <2>1. ASSUME NEW f \in blended, Kept(f) PROVE Kept(f)'
      <3>1. f \in Files
        BY DEF FTypeOK
      <3>2. ~AtWork(f)' => disk'[f] = Foreign
        BY <1>4, <2>1, <3>1, WorkIs DEF Kept, AtWork
      <3> QED
        BY <1>1, <1>3, <1>4, <2>1, <3>2 DEF Kept, Working
    <2>2. ASSUME NEW f \in blended' \ blended PROVE Kept(f)'
      <3>1. /\ f \in Known /\ f \in Files /\ f \in call[t].files
            /\ call[t].image[f] = Foreign /\ row[f].after # Foreign
            /\ t \in Working
        BY <2>2, WorkIs DEF Known
      <3>2. \A s \in Working : f \in call[s].files => s = t
        BY <3>1 DEF FTypeOK
      <3>3. AtWork(f)'
        BY <1>4, <3>1 DEF AtWork
      <3> QED
        BY <1>1, <1>3, <1>4, <3>1, <3>2, <3>3 DEF Kept, Working
    <2>3. \A f \in blended' \ blended : row[f] # NoRow /\ ~row[f].reverted
      BY <1>1, WorkIs, ActiveIs DEF Known
    <2>4. \A u \in Undoers : undo[u].todo \cap blended' = {}
                             /\ undo[u].applied \cap blended' = {}
      BY <1>1, ActiveIs DEF Walking, Walks
    <2> QED
      BY <1>0, <1>1, <2>1, <2>2, <2>3, <2>4 DEF Edited
  <1> QED
    BY <1>5, <1>6, <1>7, <1>8, <1>9


\* What a captured call leaves in the log.
LEMMA RecordedIs ==
    ASSUME FTypeOK, NEW f \in Files, NEW old \in Bytes, NEW new \in Bytes
    PROVE  LET now == Recorded(f, old, new) IN
           /\ now \in Rows \cup {NoRow}
           /\ old = new => now = row[f]
           /\ old # new /\ First(f, old) = new => now = NoRow
           /\ old # new /\ First(f, old) # new =>
                 /\ now # NoRow /\ now.before = First(f, old)
                 /\ now.after = new /\ ~now.reverted
                 /\ now.conflicted = Conflict(f, old)
  <1>1. First(f, old) \in Bytes /\ Conflict(f, old) \in BOOLEAN
    BY DEF First, Conflict, FTypeOK, Rows
  <1> DEFINE new_row == [before |-> First(f, old), after |-> new,
                         conflicted |-> Conflict(f, old), reverted |-> FALSE]
  <1>2. new_row \in Rows /\ new_row # NoRow
    <2>1. \A before, after \in Bytes, conflicted \in BOOLEAN :
             [before |-> before, after |-> after, conflicted |-> conflicted,
              reverted |-> FALSE] \in Rows
      BY DEF Rows
    <2>2. new_row \in Rows
      BY <1>1, <2>1, Zenon
    <2> QED
      BY <2>2, NoRowAssumption
  <1>3. row[f] \in Rows \cup {NoRow}
    BY DEF FTypeOK
  <1> QED
    BY <1>2, <1>3 DEF Recorded

LEMMA FinishIs ==
    ASSUME FTypeOK, NEW t \in Tools, Finish(t)
    PROVE  /\ call' \in [Tools -> CallType] /\ t \in Working
           /\ \A s \in Tools : s # t => call'[s] = call[s]
           /\ Working' = Working \ {t}
           /\ call[t].pc = "after" /\ call'[t].pc \in {"done", "left"}
           /\ call'[t].pc = "left" => incomplete'
           /\ UNCHANGED <<disk, active, undo, edits, broken>>
           /\ \/ /\ call[t].captured
                 /\ row' = [f \in Files |->
                        IF f \in call[t].files
                        THEN Recorded(f, call[t].image[f], disk[f]) ELSE row[f]]
                 /\ incomplete' \in BOOLEAN /\ (incomplete => incomplete')
                 /\ blended' = {f \in blended : row'[f] # NoRow}
              \/ incomplete' = TRUE /\ UNCHANGED <<row, blended>>
  <1> DEFINE this == IF call[t].background THEN [call[t] EXCEPT !.pc = "left"]
                     ELSE [NewCall EXCEPT !.pc = "done"]
  <1>1. call' = [call EXCEPT ![t] = this] /\ call[t].pc = "after"
    BY DEF Finish
  <1>2. /\ this \in CallType /\ this.pc \in {"done", "left"}
        /\ this.pc = "left" => call[t].background
    <2>1. call[t] \in CallType
      BY DEF FTypeOK, CallType
    <2> QED
      BY <2>1, FileChangesAssumption DEF CallType, NewCall, Bytes
  <1> HIDE DEF this
  <1>3. /\ call' \in [Tools -> CallType] /\ call'[t] = this
        /\ \A s \in Tools : s # t => call'[s] = call[s]
    BY <1>1, <1>2, CallGoes
  <1>4. t \in Working /\ Working' = Working \ {t}
    BY <1>1, <1>2, <1>3 DEF Working
  <1>5. call[t].background \in BOOLEAN
    BY DEF FTypeOK
  <1>6. incomplete \in BOOLEAN
    BY DEF FTypeOK
  <1>7. \/ /\ call[t].captured
           /\ row' = [f \in Files |->
                  IF f \in call[t].files
                  THEN Recorded(f, call[t].image[f], disk[f]) ELSE row[f]]
           /\ incomplete' \in {incomplete \/ call[t].background, TRUE}
           /\ blended' = {f \in blended : row'[f] # NoRow}
        \/ incomplete' = TRUE /\ UNCHANGED <<row, blended>>
    BY DEF Finish, Record, Marks
  <1>8. incomplete' \in BOOLEAN /\ (incomplete => incomplete')
        /\ (call[t].background => incomplete')
    BY <1>5, <1>6, <1>7
  <1>9. UNCHANGED <<disk, active, undo, edits, broken>>
    BY DEF Finish
  <1> QED
    BY <1>1, <1>2, <1>3, <1>4, <1>7, <1>8, <1>9

LEMMA IInvFinish == ASSUME IInv, NEW t \in Tools, Finish(t) PROVE IInv'
  <1> USE DEF IInv
  <1>0. Logged' = Logged /\ Logged \subseteq Files
    BY FinishIs, LoggedStays DEF Logged
  <1>1. active /\ UNCHANGED <<disk, active, undo, edits, broken>>
    <2>1. Working # {}
      BY FinishIs
    <2> QED
      BY <2>1, FinishIs DEF Apart
  <1>2. call[t] \in CallType /\ t \in Working /\ call[t].files \subseteq Files
        /\ disk \in [Files -> Bytes] /\ call[t].image \in [Files -> Bytes]
    BY FinishIs DEF FTypeOK, CallType
  <1>3. \A u \in Undoers : /\ undo[u].pc = "new" /\ undo'[u].pc = "new"
                           /\ ~Undoing(u) /\ ~Undoing(u)'
                           /\ undo[u].todo = {} /\ undo[u].applied = {}
    BY <1>1, ActiveIs DEF Undoing, Walking, Walks
  <1>4. \A f \in Files : ~Held(f) /\ ~Held(f)'
    BY <1>3 DEF Held
  <1>5. \A f \in Files : f \notin call[t].files => row'[f] = row[f]
    BY FinishIs
  \* The rows of the tool's own files.
  <1>6. ASSUME NEW f \in Files
        PROVE  /\ row'[f] \in Rows \cup {NoRow}
               /\ row'[f] # NoRow => ~row'[f].reverted
    <2>1. row[f] \in Rows \cup {NoRow} /\ (row[f] # NoRow => ~row[f].reverted)
      BY <1>1, ActiveIs DEF FTypeOK, Known
    <2>2. CASE row'[f] = row[f]
      BY <2>1, <2>2
    <2>3. CASE f \in call[t].files
               /\ row'[f] = Recorded(f, call[t].image[f], disk[f])
      <3>1. call[t].image[f] \in Bytes /\ disk[f] \in Bytes
        BY <1>2
      <3> QED
        BY <2>1, <2>3, <3>1, RecordedIs
    <2> QED
      BY <2>2, <2>3, FinishIs
  <1>7. row' \in [Files -> Rows \cup {NoRow}]
    <2>1. row' = [f \in Files |-> row'[f]]
      BY FinishIs DEF FTypeOK
    <2> QED
      BY <1>6, <2>1
  <1>8. FTypeOK'
    <2>1. \A r, s \in Working' :
            r # s => call'[r].files \cap call'[s].files = {}
      <3>1. \A s \in Working' : s \in Working /\ call'[s] = call[s]
        BY FinishIs DEF Working
      <3> QED
        BY <3>1 DEF FTypeOK
    <2>2. incomplete' \in BOOLEAN /\ blended' \subseteq Files
      BY FinishIs DEF FTypeOK
    <2>3. call' \in [Tools -> CallType]
      BY FinishIs
    <2> QED
      BY <1>1, <1>7, <2>1, <2>2, <2>3 DEF FTypeOK, CallType
  <1>9. Apart' /\ Walking' /\ Alone'
    <2>1. \A s \in Tools : call'[s].pc = "left" => incomplete'
      BY FinishIs DEF Apart
    <2> QED
      BY <1>1, <1>3, <1>6, <2>1, FinishIs DEF Apart, Walking, Walks, Alone, Known
  <1>10. \A f \in Files : f \in call[t].files => AtWork(f) /\ ~AtWork(f)'
    BY <1>2, FinishIs DEF AtWork, FTypeOK, Working
  <1>11. \A f \in Files : f \notin call[t].files => AtWork(f)' = AtWork(f)
    BY FinishIs DEF AtWork, Working
  <1>12. \A s \in Working' : s \in Working /\ s # t /\ call'[s] = call[s]
                             /\ call[s].files \cap call[t].files = {}
    BY <1>2, FinishIs DEF FTypeOK, Working
  <1>13. Turned = {} /\ Turned' = {} /\ Open = Known /\ Open' = Known'
    BY <1>1, <1>6, ActiveIs DEF Turned, Open, Ours, Known
  <1>14. Whole'
    BY <1>3, <1>13 DEF Whole, UndoIsWhole, Forward, Backward
  \* A complete log goes on telling what the tool left.
  <1>15. ASSUME ~incomplete', NEW f \in call[t].files \cap Logged
         PROVE  /\ row'[f] # NoRow => row'[f].before \in {Original, Foreign}
                /\ disk[f] \in {Foreign, Told(f)'}
    <2>1. /\ ~incomplete /\ call[t].captured
          /\ row'[f] = Recorded(f, call[t].image[f], disk[f])
      BY <1>2, <1>15, FinishIs
    <2>2. /\ f \in Files /\ disk[f] \in Bytes /\ call[t].image[f] \in Bytes
          /\ call[t].image[f] \in {Foreign, Told(f)}
          /\ row[f] # NoRow => row[f].before \in {Original, Foreign}
      BY <1>2, <2>1 DEF Honest, Ours, Known
    <2>3. row[f] # NoRow => ~row[f].reverted
      BY <1>1, <2>2, ActiveIs DEF Known
    <2>4. First(f, call[t].image[f]) \in {Original, Foreign}
      BY <2>2 DEF First, Told
    <2>5. CASE call[t].image[f] = disk[f]
      <3>1. row'[f] = row[f]
        BY <2>1, <2>2, <2>5, RecordedIs
      <3> QED
        BY <2>2, <2>5, <3>1 DEF Told
    <2>6. CASE call[t].image[f] # disk[f] /\ First(f, call[t].image[f]) = disk[f]
      <3>1. row'[f] = NoRow
        BY <2>1, <2>2, <2>6, RecordedIs
      <3> QED
        BY <2>4, <2>6, <3>1 DEF Told
    <2>7. CASE call[t].image[f] # disk[f] /\ First(f, call[t].image[f]) # disk[f]
      <3>1. /\ row'[f] # NoRow /\ row'[f].before = First(f, call[t].image[f])
            /\ row'[f].after = disk[f] /\ ~row'[f].reverted
        BY <2>1, <2>2, <2>7, RecordedIs
      <3> QED
        BY <2>4, <3>1 DEF Told
    <2> QED
      BY <2>5, <2>6, <2>7
  <1>16. \A f \in Files : f \notin call[t].files => Told(f)' = Told(f)
    BY <1>5 DEF Told
  <1>17. Honest'
    <2>1. ~incomplete' => ~incomplete
      BY FinishIs DEF FTypeOK
    <2>2. ~incomplete' => \A f \in Ours' : row'[f].before \in {Original, Foreign}
      BY <1>0, <1>5, <1>15, <2>1 DEF Honest, Ours, Known
    <2>3. ASSUME ~incomplete', NEW s \in Working', call'[s].captured,
                 NEW f \in call'[s].files \cap Logged
          PROVE  call'[s].image[f] \in {Foreign, Told(f)'}
      <3>1. /\ s \in Working /\ call'[s] = call[s] /\ f \in Files
            /\ f \notin call[t].files
        BY <1>12, <2>3 DEF Working, FTypeOK
      <3> QED
        BY <1>16, <2>1, <2>3, <3>1 DEF Honest
    <2>4. Smooth' => Smooth
      BY <1>1, <2>1 DEF Smooth
    <2>5. ASSUME Smooth', NEW f \in Logged, ~AtWork(f)'
          PROVE  disk[f] \in {Foreign, Told(f)'}
      <3>1. CASE f \in call[t].files
        BY <1>15, <2>5, <3>1 DEF Smooth
      <3>2. CASE f \notin call[t].files
        BY <1>0, <1>4, <1>11, <1>16, <2>4, <2>5, <3>2 DEF Honest
      <3> QED
        BY <3>1, <3>2
    <2> QED
      BY <1>0, <1>1, <1>4, <2>2, <2>3, <2>5 DEF Honest
  <1>18. Edited'
    <2>1. ASSUME NEW f \in blended' \cap Logged, ~incomplete', ~row'[f].conflicted
          PROVE  Kept(f)'
      <3>1. /\ f \in blended /\ f \in Logged /\ f \in Files /\ call[t].captured
            /\ row'[f] # NoRow /\ ~incomplete
        <4>1. /\ call[t].captured /\ (incomplete => incomplete')
              /\ blended' = {g \in blended : row'[g] # NoRow}
          BY <2>1, FinishIs, Zenon
        <4>2. blended \subseteq Files
          BY DEF FTypeOK
        <4> QED
          BY <2>1, <4>1, <4>2, Zenon
      <3>2. CASE f \notin call[t].files
        <4>1. row'[f] = row[f] /\ AtWork(f)' = AtWork(f) /\ Kept(f)
          BY <1>5, <1>11, <2>1, <3>1, <3>2 DEF Edited
        <4> QED
          BY <1>1, <1>12, <4>1 DEF Kept
      <3>3. CASE f \in call[t].files /\ row[f].conflicted
        <4>1. /\ row'[f] = Recorded(f, call[t].image[f], disk[f])
              /\ call[t].image[f] \in Bytes /\ disk[f] \in Bytes /\ row[f] # NoRow
          BY <1>2, <2>1, <3>1, <3>3, FinishIs DEF Edited
        <4>2. Conflict(f, call[t].image[f])
          BY <3>3, <4>1 DEF Conflict
        <4> QED
          BY <2>1, <3>1, <3>3, <4>1, <4>2, RecordedIs
      <3>4. CASE f \in call[t].files /\ ~row[f].conflicted
        <4>1. /\ row'[f] = Recorded(f, call[t].image[f], disk[f])
              /\ call[t].image[f] = Foreign /\ row[f].after # Foreign
              /\ call[t].image[f] \in Bytes /\ disk[f] \in Bytes /\ row[f] # NoRow
          BY <1>2, <2>1, <3>1, <3>4, FinishIs DEF Edited, Kept
        <4>2. Conflict(f, call[t].image[f])
          BY <4>1 DEF Conflict
        <4>3. disk[f] = Foreign /\ row'[f] = row[f]
          BY <2>1, <3>1, <4>1, <4>2, RecordedIs
        <4>4. ~(\E s \in Working' : f \in call'[s].files)
          BY <1>12, <3>4
        <4> QED
          BY <1>1, <4>1, <4>3, <4>4 DEF Kept
      <3> QED
        BY <3>2, <3>3, <3>4
    <2>2. \A f \in blended' \cap Logged : row'[f] # NoRow /\ ~row'[f].reverted
      <3>1. \/ blended' = {f \in blended : row'[f] # NoRow}
            \/ row' = row /\ blended' = blended
        BY FinishIs, Zenon
      <3>2. \A f \in blended' \cap Logged : f \in Files /\ row'[f] # NoRow
        BY <3>1, LoggedIs DEF Edited
      <3> QED
        BY <1>6, <3>2
    <2>3. \A u \in Undoers : /\ (undo'[u].todo \cup undo'[u].applied) = {}
                             /\ undo'[u].pc = "new"
      BY <1>1, <1>3
    <2>4. \A f \in blended' \cap Logged :
             incomplete' \/ row'[f].conflicted \/ Kept(f)'
      BY <2>1, Zenon
    <2> QED
      BY <1>0, <2>2, <2>3, <2>4 DEF Edited
  <1> QED
    BY <1>8, <1>9, <1>14, <1>17, <1>18



\* A call gets lost: what the log says of its files is not looked at any more.
LEMMA IInvLose == ASSUME IInv, NEW t \in Tools, Lose(t) PROVE IInv'
  <1> USE DEF IInv
  <1>1. /\ UNCHANGED <<disk, row, incomplete, active, undo, edits, blended, broken>>
        /\ t \in Working /\ call' = [call EXCEPT ![t] = [@ EXCEPT !.pc = "lost"]]
    BY DEF Lose
  <1>2. /\ call' \in [Tools -> CallType] /\ call'[t].pc = "lost"
        /\ call'[t].files = call[t].files
        /\ \A s \in Tools : s # t => call'[s] = call[s]
    <2> DEFINE this == [call[t] EXCEPT !.pc = "lost"]
    <2>1. this \in CallType /\ this.pc = "lost" /\ this.files = call[t].files
      BY <1>1 DEF FTypeOK, CallType, Working
    <2>2. call' = [call EXCEPT ![t] = this]
      BY <1>1
    <2> HIDE DEF this
    <2>3. /\ call' \in [Tools -> CallType] /\ call'[t] = this
          /\ \A s \in Tools : s # t => call'[s] = call[s]
      BY <2>1, <2>2, CallGoes
    <2> QED
      BY <2>1, <2>3
  <1>3. /\ Working' = Working \ {t} /\ active
        /\ \A s \in Working' : s \in Working /\ call'[s] = call[s]
    BY <1>1, <1>2 DEF Working, Apart
  <1>4. /\ Logged' = Logged \ call[t].files /\ Logged \subseteq Files
        /\ \A f \in Logged' : AtWork(f)' = AtWork(f)
    <2>1. Lost' = Lost \cup {t} /\ call'[t].files = call[t].files
          /\ \A s \in Lost : call'[s].files = call[s].files
      BY <1>1, <1>2 DEF Lost, Working, FTypeOK
    <2>2. Logged' = Logged \ call[t].files
      BY <2>1 DEF Logged
    <2> QED
      BY <1>1, <1>3, <2>2 DEF AtWork, Logged
  <1>5. /\ Known' = Known /\ Ours' \subseteq Ours /\ Open' = Open
        /\ \A u \in Undoers : ~Undoing(u)' /\ ~Undoing(u) /\ undo[u].pc = "new"
        /\ \A f \in Files : Told(f)' = Told(f) /\ ~Held(f) /\ ~Held(f)'
    BY <1>1, <1>3, <1>4, ActiveIs DEF Known, Ours, Open, Undoing, Told, Held
  <1>6. FTypeOK'
    BY <1>1, <1>2, <1>3 DEF FTypeOK, CallType
  <1>7. Apart' /\ Walking' /\ Alone'
    <2>1. \A s \in Tools : call'[s].pc = "left" => call[s].pc = "left"
      BY <1>2
    <2> QED
      BY <1>1, <1>3, <1>5, <2>1 DEF Apart, Walking, Walks, Alone
  <1>8. Honest'
    <2>1. Smooth' = Smooth
      BY <1>1 DEF Smooth
    <2>2. ~incomplete => \A s \in Working' : call'[s].captured =>
             \A f \in call'[s].files \cap Logged' :
                call'[s].image[f] \in {Foreign, Told(f)'}
      BY <1>3, <1>4, <1>5 DEF Honest
    <2>3. Smooth => \A f \in Logged' : ~AtWork(f)' => disk[f] \in {Foreign, Told(f)}
      BY <1>4, <1>5 DEF Honest
    <2> QED
      BY <1>1, <1>4, <1>5, <2>1, <2>2, <2>3 DEF Honest
  <1>9. Whole'
    <2>1. Open = Known
      BY <1>3, ActiveIs DEF Open
    <2> QED
      BY <1>1, <1>5, <2>1 DEF Whole, UndoIsWhole, Forward, Backward
  <1>10. Edited'
    <2>1. ASSUME NEW f \in Logged', Kept(f) PROVE Kept(f)'
      BY <1>1, <1>3, <1>4, <2>1 DEF Kept
    <2> QED
      BY <1>1, <1>4, <2>1 DEF Edited
  <1> QED
    BY <1>6, <1>7, <1>8, <1>9, <1>10

\* What a lost call does late, it does to files that are not looked at; a
\* process that stays has the turn marked.
LEMMA IInvWriteLate == ASSUME IInv, NEW t \in Tools, WriteLate(t) PROVE IInv'
  <1> USE DEF IInv
  <1>1. /\ UNCHANGED <<row, incomplete, active, call, undo, blended, broken>>
        /\ call[t].pc \in {"left", "lost"} /\ edits < MaxEdits /\ edits' = edits + 1
        /\ \E some \in SUBSET call[t].files, bytes \in Contents :
              disk' = [f \in Files |-> IF f \in some THEN bytes ELSE disk[f]]
    BY DEF WriteLate
  <1>2. /\ disk' \in [Files -> Bytes] /\ edits' \in 0..MaxEdits
        /\ \A f \in Files : f \notin call[t].files => disk'[f] = disk[f]
    BY <1>1, FileChangesAssumption DEF FTypeOK, Bytes
  <1>3. ~incomplete => \A f \in Logged : disk'[f] = disk[f]
    BY <1>1, <1>2 DEF Apart, Logged, Lost
  <1>4. /\ Known' = Known /\ Turned' = Turned /\ Open' = Open /\ Working' = Working
        /\ Logged' = Logged /\ Ours' = Ours
        /\ \A u \in Undoers : Undoing(u)' = Undoing(u) /\ Walks(u)' = Walks(u)
        /\ \A g \in Files : /\ Told(g)' = Told(g) /\ Held(g)' = Held(g)
                            /\ AtWork(g)' = AtWork(g)
    BY <1>1 DEF Known, Turned, Open, Undoing, Walks, Alike, Told, Held, AtWork,
                Working, Logged, Lost, Ours
  <1>5. FTypeOK'
    BY <1>1, <1>2, <1>4 DEF FTypeOK
  <1>6. Apart' /\ Walking' /\ Alone'
    BY <1>1, <1>4 DEF Apart, Walking, Alone
  <1>7. Honest'
    <2>1. Smooth' = Smooth /\ (Smooth => ~incomplete)
      BY <1>1 DEF Smooth
    <2>2. ~incomplete =>
          /\ \A g \in Ours' : row'[g].before \in {Original, Foreign}
          /\ \A s \in Working' : call'[s].captured =>
                \A g \in call'[s].files \cap Logged' :
                   call'[s].image[g] \in {Foreign, Told(g)'}
      BY <1>1, <1>4 DEF Honest, Logged
    <2>3. Smooth => \A g \in Logged' :
          /\ ~AtWork(g)' /\ ~Held(g)' => disk'[g] \in {Foreign, Told(g)'}
          /\ ~AtWork(g)' /\ Held(g)' => disk'[g] \in {Foreign, row'[g].before}
      BY <1>1, <1>3, <1>4, <2>1 DEF Honest, Logged
    <2> QED
      BY <1>1, <2>1, <2>2, <2>3 DEF Honest
  <1>8. Whole'
    BY <1>1, <1>4 DEF Whole, UndoIsWhole, Quiet, Forward, Backward
  <1>9. Edited'
    <2>1. ASSUME NEW g \in blended \cap Logged, Kept(g), ~incomplete PROVE Kept(g)'
      BY <1>1, <1>3, <1>4, <2>1 DEF Kept, FTypeOK
    <2> QED
      BY <1>1, <1>4, <2>1 DEF Edited
  <1> QED
    BY <1>5, <1>6, <1>7, <1>8, <1>9

LEMMA IInvRecordLate == ASSUME IInv, NEW t \in Tools, RecordLate(t) PROVE IInv'
  <1> USE DEF IInv
  <1>1. /\ UNCHANGED <<disk, incomplete, active, undo, edits, broken>>
        /\ call[t].pc = "lost"
        /\ call' = [call EXCEPT ![t] = [@ EXCEPT !.captured = FALSE]]
        /\ row' = [f \in Files |->
               IF f \in call[t].files THEN Recorded(f, call[t].image[f], disk[f])
               ELSE row[f]]
        /\ blended' = {f \in blended : row'[f] # NoRow}
    BY DEF RecordLate, Record
  <1>2. /\ call' \in [Tools -> CallType] /\ call'[t].pc = "lost"
        /\ call'[t].files = call[t].files
        /\ \A s \in Tools : s # t => call'[s] = call[s]
    <2> DEFINE this == [call[t] EXCEPT !.captured = FALSE]
    <2>1. /\ this \in CallType /\ this.pc = "lost"
          /\ this.files = call[t].files
      BY <1>1 DEF FTypeOK, CallType
    <2>2. call' = [call EXCEPT ![t] = this]
      BY <1>1
    <2> HIDE DEF this
    <2>3. /\ call' \in [Tools -> CallType] /\ call'[t] = this
          /\ \A s \in Tools : s # t => call'[s] = call[s]
      BY <2>1, <2>2, CallGoes
    <2> QED
      BY <2>1, <2>3
  <1>3. /\ Working' = Working /\ Lost' = Lost
        /\ \A s \in Working : call'[s] = call[s]
        /\ \A s \in Tools : call'[s].files = call[s].files
    BY <1>1, <1>2 DEF Working, Lost
  <1>4. Logged' = Logged /\ Logged \subseteq Files /\ t \in Lost
    BY <1>1, <1>3 DEF Logged, Lost
  <1>5. \A f \in Logged : row'[f] = row[f] /\ (f \in Known' <=> f \in Known)
    BY <1>1, <1>4 DEF Logged, Known
  <1>6. ASSUME NEW f \in Files
        PROVE  /\ row'[f] \in Rows \cup {NoRow}
               /\ row'[f] # NoRow /\ row'[f] # row[f] => ~row'[f].reverted
    <2>1. /\ row[f] \in Rows \cup {NoRow}
          /\ call[t].image[f] \in Bytes /\ disk[f] \in Bytes
      BY DEF FTypeOK
    <2>2. row'[f] \in {row[f], Recorded(f, call[t].image[f], disk[f])}
      BY <1>1
    <2> QED
      BY <2>1, <2>2, RecordedIs
  <1>7. row' \in [Files -> Rows \cup {NoRow}]
    <2>1. row' = [f \in Files |-> row'[f]]
      BY <1>1 DEF FTypeOK
    <2> QED
      BY <1>6, <2>1
  <1>8. /\ Ours' = Ours /\ Turned' = Turned
        /\ Open' \cap Logged = Open \cap Logged
        /\ \A u \in Undoers : Undoing(u)' = Undoing(u)
        /\ \A f \in Logged : Told(f)' = Told(f)
        /\ \A f \in Files : Held(f)' = Held(f) /\ AtWork(f)' = AtWork(f)
    <2>1. Ours' = Ours
      BY <1>4, <1>5 DEF Ours
    <2>2. Turned' = Turned
      BY <1>5, <2>1 DEF Turned, Ours
    <2>3. Open' \cap Logged = Open \cap Logged
      BY <1>5 DEF Open
    <2>4. \A u \in Undoers : Undoing(u)' = Undoing(u)
      BY <1>1 DEF Undoing
    <2>5. \A f \in Logged : Told(f)' = Told(f)
      BY <1>5 DEF Told
    <2>6. \A f \in Files : Held(f)' = Held(f) /\ AtWork(f)' = AtWork(f)
      BY <1>1, <1>3 DEF Held, AtWork
    <2> QED
      BY <2>1, <2>2, <2>3, <2>4, <2>5, <2>6
  <1>9. FTypeOK'
    <2>1. \A r, s \in Working' :
            r # s => call'[r].files \cap call'[s].files = {}
      BY <1>3 DEF FTypeOK
    <2> QED
      BY <1>1, <1>2, <1>7, <2>1 DEF FTypeOK, CallType
  <1>10. Apart'
    <2>1. \A s \in Tools : call'[s].pc = "left" => call[s].pc = "left"
      BY <1>2
    <2>2. active => \A f \in Known' : ~row'[f].reverted
      BY <1>6 DEF Apart, Known
    <2> QED
      BY <1>1, <1>3, <2>1, <2>2 DEF Apart
  <1>11. Walking' /\ Alone'
    <2>1. \A f \in Logged, old \in Rows \cup {NoRow} : Alike(f, old)' = Alike(f, old)
      BY <1>5 DEF Alike
    <2>2. \A u \in Undoers : undo[u].rows \in [Files -> Rows \cup {NoRow}]
      BY DEF FTypeOK
    <2> QED
      BY <1>1, <1>4, <1>5, <1>8, <2>1, <2>2 DEF Walking, Walks, Alone
  <1>12. Honest'
    <2>1. Smooth' = Smooth
      BY <1>1 DEF Smooth
    <2>2. ~incomplete => \A f \in Ours' : row'[f].before \in {Original, Foreign}
      BY <1>5, <1>8 DEF Honest, Ours
    <2>3. ~incomplete => \A s \in Working' : call'[s].captured =>
             \A f \in call'[s].files \cap Logged :
                call'[s].image[f] \in {Foreign, Told(f)'}
      BY <1>3, <1>8 DEF Honest
    <2>4. Smooth => \A f \in Logged :
          /\ ~AtWork(f)' /\ ~Held(f)' => disk[f] \in {Foreign, Told(f)'}
          /\ ~AtWork(f)' /\ Held(f)' => disk[f] \in {Foreign, row'[f].before}
      BY <1>4, <1>5, <1>8 DEF Honest
    <2> QED
      BY <1>1, <1>4, <2>1, <2>2, <2>3, <2>4 DEF Honest
  <1>13. Whole'
    BY <1>1, <1>4, <1>8 DEF Whole, UndoIsWhole, Quiet, Ours, Forward, Backward
  <1>14. Edited'
    <2>1. ASSUME NEW f \in Logged, Kept(f) PROVE Kept(f)'
      BY <1>1, <1>3, <1>4, <1>5, <1>8, <2>1 DEF Kept
    <2>2. blended' \subseteq blended
      BY <1>1
    <2> QED
      BY <1>1, <1>4, <1>5, <2>1, <2>2 DEF Edited
  <1> QED
    BY <1>9, <1>10, <1>11, <1>12, <1>13, <1>14

LEMMA IInvEndTurn == ASSUME IInv, EndTurn PROVE IInv'
  <1> USE DEF IInv
  <1>1. /\ UNCHANGED <<disk, row, incomplete, call, undo, edits, blended, broken>>
        /\ active /\ active' = FALSE /\ Working = {}
    BY DEF EndTurn
  <1>2. /\ Known' = Known /\ Turned' = Turned /\ Open' = Open /\ Working' = {}
        /\ Logged' = Logged /\ Ours' = Ours
        /\ \A u \in Undoers : Undoing(u)' = Undoing(u) /\ Walks(u)' = Walks(u)
        /\ \A f \in Files : /\ Told(f)' = Told(f) /\ Held(f)' = Held(f)
                            /\ AtWork(f)' = AtWork(f) /\ (Kept(f) => Kept(f)')
    BY <1>1 DEF Known, Turned, Open, Undoing, Walks, Alike, Told, Held, AtWork,
                Working, Kept, Logged, Lost, Ours
  <1>3. FTypeOK'
    BY <1>1, <1>2 DEF FTypeOK
  <1>4. Apart' /\ Walking' /\ Alone'
    BY <1>1, <1>2 DEF Apart, Walking, Alone
  <1>5. Honest'
    BY <1>1, <1>2, LoggedIs DEF Honest, Smooth
  <1>6. Whole'
    BY <1>1, <1>2 DEF Whole, UndoIsWhole, Quiet, Forward, Backward
  <1>7. Edited'
    <2>1. \A f \in blended : Kept(f) => Kept(f)'
      BY <1>2 DEF FTypeOK
    <2> QED
      BY <1>1, <1>2, <2>1 DEF Edited
  <1> QED
    BY <1>3, <1>4, <1>5, <1>6, <1>7

LEMMA IInvEdit == ASSUME IInv, NEW f \in Files, Edit(f) PROVE IInv'
  <1> USE DEF IInv
  <1>1. /\ UNCHANGED <<row, incomplete, active, call, undo, blended, broken>>
        /\ disk' = [disk EXCEPT ![f] = Foreign] /\ edits' = edits + 1
        /\ edits < MaxEdits
    BY DEF Edit
  <1>2. /\ Known' = Known /\ Turned' = Turned /\ Open' = Open /\ Working' = Working
        /\ Logged' = Logged /\ Ours' = Ours /\ Logged \subseteq Files
        /\ \A u \in Undoers : Undoing(u)' = Undoing(u) /\ Walks(u)' = Walks(u)
        /\ \A g \in Files : /\ Told(g)' = Told(g) /\ Held(g)' = Held(g)
                            /\ AtWork(g)' = AtWork(g)
    BY <1>1 DEF Known, Turned, Open, Undoing, Walks, Alike, Told, Held, AtWork,
                Working, Logged, Lost, Ours
  <1>3. \A g \in Files : disk'[g] \in {disk[g], Foreign}
    BY <1>1 DEF FTypeOK
  <1>4. FTypeOK'
    <2>1. disk' \in [Files -> Bytes] /\ edits' \in 0..MaxEdits
      BY <1>1, FileChangesAssumption DEF FTypeOK, Bytes
    <2> QED
      BY <1>1, <1>2, <2>1 DEF FTypeOK
  <1>5. Apart' /\ Walking' /\ Alone'
    BY <1>1, <1>2 DEF Apart, Walking, Alone
  <1>6. Honest'
    <2>1. Smooth' = Smooth
      BY <1>1 DEF Smooth
    <2>2. ~incomplete =>
          /\ \A g \in Ours' : row'[g].before \in {Original, Foreign}
          /\ \A t \in Working' : call'[t].captured =>
                \A g \in call'[t].files \cap Logged' :
                   call'[t].image[g] \in {Foreign, Told(g)'}
      BY <1>1, <1>2 DEF Honest, FTypeOK, Working
    <2>3. Smooth => \A g \in Logged' :
          /\ ~AtWork(g)' /\ ~Held(g)' => disk'[g] \in {Foreign, Told(g)'}
          /\ ~AtWork(g)' /\ Held(g)' => disk'[g] \in {Foreign, row'[g].before}
      BY <1>1, <1>2, <1>3 DEF Honest
    <2> QED
      BY <1>1, <2>1, <2>2, <2>3 DEF Honest
  <1>7. Whole'
    BY <1>1, <1>2 DEF Whole, UndoIsWhole, Quiet, Forward, Backward
  <1>8. Edited'
    <2>1. ASSUME NEW g \in blended, Kept(g) PROVE Kept(g)'
      BY <1>1, <1>2, <1>3, <2>1 DEF Kept, FTypeOK
    <2> QED
      BY <1>1, <1>2, <2>1 DEF Edited
  <1> QED
    BY <1>4, <1>5, <1>6, <1>7, <1>8

-----------------------------------------------------------------------------
(* The files of an undo, first to last and back: a set of numbers up to    *)
(* MaxFile has a least and a greatest, by the well-founded order on the    *)
(* naturals.                                                               *)

LEMMA NextIs ==
    ASSUME NEW files, files \subseteq Files, files # {}
    PROVE  NextFile(files) \in files
  <1>1. files \subseteq Nat
    BY FileChangesAssumption DEF Files
  <1>2. PICK f \in files : \A g \in files : <<g, f>> \notin OpToRel(<, Nat)
    BY <1>1, NatLessThanWellFounded, WFMin, Zenon
  <1>3. \A i, j \in Nat : i < j => <<i, j>> \in OpToRel(<, Nat)
    BY DEF OpToRel
  <1>4. \A i, j \in Nat : ~ (i < j) => j <= i
    OBVIOUS
  <1>5. \A g \in files : f <= g
    BY <1>1, <1>2, <1>3, <1>4
  <1> QED
    BY <1>5 DEF NextFile

LEMMA LastIs ==
    ASSUME NEW files, files \subseteq Files, files # {}
    PROVE  LastFile(files) \in files
  <1> DEFINE gaps == {MaxFile - f : f \in files}
  <1>1. gaps \subseteq Nat /\ gaps # {}
    <2>1. \A f \in Files : MaxFile - f \in Nat
      BY FileChangesAssumption DEF Files
    <2> QED
      BY <2>1
  <1>2. PICK n \in gaps : \A m \in gaps : <<m, n>> \notin OpToRel(<, Nat)
    BY <1>1, NatLessThanWellFounded, WFMin, Zenon
  <1>3. \A i, j \in Nat : i < j => <<i, j>> \in OpToRel(<, Nat)
    BY DEF OpToRel
  <1>4. \A i, j \in Nat : ~ (i < j) => j <= i
    OBVIOUS
  <1>5. \A m \in gaps : n <= m
    BY <1>1, <1>2, <1>3, <1>4
  <1>6. PICK f \in files : n = MaxFile - f
    BY <1>2
  <1>7. ASSUME NEW g \in files PROVE f >= g
    <2>1. n <= MaxFile - g
      BY <1>5
    <2> QED
      BY <1>6, <2>1, FileChangesAssumption DEF Files
  <1> QED
    BY <1>7 DEF LastFile

-----------------------------------------------------------------------------
(* Steps of an undo *)

\* What holds of the record of an undo that is under way or over.
Fit(this) ==
    /\ this \in UndoType /\ this.pc # "new"
    /\ this.pc \notin {"undone", "failed"} =>
          /\ \A f \in Logged : Alike(f, this.rows[f])
          /\ \A f \in this.todo \cup this.applied :
                this.rows[f] \in Rows /\ (f \in Logged => f \in Known)
    /\ this.pc \in {"replace", "mark"} => this.todo # {}
    /\ this.pc \in {"putback", "unmark"} => this.applied # {}
    /\ (this.todo \cup this.applied) \cap blended \cap Logged = {}
    /\ this.pc = "replace" => this.seen = this.rows[NextFile(this.todo)].after

\* A step of an undo changes no more of a row than its flag, and nothing of a
\* file of ours with an edit that the turn wrote over.
Turns(u, this) ==
    /\ ~active /\ Fit(this) /\ Becomes(u, this)
    /\ UNCHANGED <<call, active, edits, blended>>
    /\ disk' \in [Files -> Bytes] /\ row' \in [Files -> Rows \cup {NoRow}]
    /\ \A f \in Files :
          /\ (row'[f] = NoRow) = (row[f] = NoRow)
          /\ row[f] # NoRow => /\ row'[f].before = row[f].before
                               /\ row'[f].after = row[f].after
                               /\ row'[f].conflicted = row[f].conflicted
    /\ \A f \in blended \cap Logged : disk'[f] = disk[f] /\ row'[f] = row[f]
    /\ incomplete' \in BOOLEAN /\ (incomplete => incomplete')
    /\ broken' \in BOOLEAN /\ (broken => broken')
    /\ broken' \/ Undoing(u) \/ \A v \in Undoers : ~Undoing(v)

LEMMA UndoIs ==
    ASSUME IInv, NEW u \in Undoers, NEW this, Turns(u, this)
    PROVE  /\ undo' \in [Undoers -> UndoType] /\ undo'[u] = this
           /\ \A v \in Undoers : v # u => undo'[v] = undo[v]
           /\ Working = {} /\ Working' = {} /\ Known' = Known
           /\ Logged' = Logged /\ Ours' = Ours /\ Logged \subseteq Files
           /\ \A f \in Files : ~AtWork(f) /\ ~AtWork(f)'
           /\ ~broken' => \A v \in Undoers : v # u => ~Undoing(v)
  <1>1. this \in UndoType /\ undo \in [Undoers -> UndoType]
    BY DEF IInv, FTypeOK, UndoType, Turns, Fit
  <1>2. /\ undo' \in [Undoers -> UndoType] /\ undo'[u] = this
        /\ \A v \in Undoers : v # u => undo'[v] = undo[v]
    BY <1>1 DEF Turns, Becomes
  <1>3. /\ Working = {} /\ Working' = {} /\ Known' = Known
        /\ Logged' = Logged /\ Ours' = Ours /\ Logged \subseteq Files
    BY DEF IInv, Apart, Working, Known, Turns, Logged, Lost, Ours
  <1>4. \A f \in Files : ~AtWork(f) /\ ~AtWork(f)'
    BY <1>3 DEF AtWork
  <1>5. ~broken' => \A v \in Undoers : v # u => ~Undoing(v)
    BY DEF IInv, Alone, Turns
  <1> QED
    BY <1>2, <1>3, <1>4, <1>5

LEMMA TurnsKeeps ==
    ASSUME IInv, NEW u \in Undoers, NEW this, Turns(u, this)
    PROVE  FTypeOK' /\ Apart' /\ Walking' /\ Alone' /\ Edited'
  <1>1. FTypeOK'
    BY UndoIs DEF IInv, FTypeOK, UndoType, Turns
  <1>2. Apart'
    BY UndoIs DEF Apart, Turns, IInv
  <1>3. ASSUME NEW v \in Undoers PROVE Walks(v)'
    <2>1. \A f \in Files : \A old : Alike(f, old) => Alike(f, old)'
      BY DEF Alike, Turns
    <2>2. CASE v = u
      BY <2>1, <2>2, UndoIs DEF Walks, Turns, Fit, Undoing
    <2>3. CASE v # u
      <3>1. undo'[v] = undo[v] /\ Walks(v)
        BY <2>3, UndoIs DEF IInv, Walking
      <3> QED
        BY <2>1, <3>1, UndoIs DEF Walks, Undoing
    <2> QED
      BY <2>2, <2>3
  <1>4. Alone'
    BY UndoIs DEF Alone, Undoing
  <1>5. Edited'
    <2>1. ASSUME NEW f \in blended \cap Logged PROVE Kept(f) => Kept(f)'
      BY <2>1, UndoIs DEF Kept, Turns, IInv, FTypeOK
    <2>2. \A f \in blended \cap Logged :
             /\ row'[f] # NoRow /\ ~row'[f].reverted
             /\ incomplete' \/ row'[f].conflicted \/ Kept(f)'
      BY <2>1 DEF IInv, Edited, Turns
    <2>3. ASSUME NEW v \in Undoers
          PROVE  /\ (undo'[v].todo \cup undo'[v].applied) \cap blended \cap Logged = {}
                 /\ undo'[v].pc = "replace" =>
                       undo'[v].seen = undo'[v].rows[NextFile(undo'[v].todo)].after
      <3>1. CASE v = u
        BY <3>1, UndoIs DEF Turns, Fit
      <3>2. CASE v # u
        BY <3>2, UndoIs DEF IInv, Edited
      <3> QED
        BY <3>1, <3>2
    <2> QED
      BY <2>2, <2>3, UndoIs DEF Edited, Turns
  <1> QED
    BY <1>1, <1>2, <1>3, <1>4, <1>5 DEF Walking

\* An undo that goes forward leaves the files as the log says they are.
Puts(u, this) ==
    this.pc \in {"check", "replace", "mark", "undone"} /\ ~broken' /\ ~incomplete' =>
        /\ undo[u].pc \in {"new", "check", "replace", "mark"}
        /\ Smooth => \A f \in Logged :
              IF this.pc = "mark" /\ f = NextFile(this.todo)
              THEN disk'[f] \in {Foreign, row'[f].before}
              ELSE disk'[f] \in {Foreign, Told(f)'}

LEMMA TurnsHonest ==
    ASSUME IInv, NEW u \in Undoers, NEW this, Turns(u, this), Puts(u, this)
    PROVE  Honest'
  <1>1. ~incomplete' => /\ \A f \in Ours' : row'[f].before \in {Original, Foreign}
    <2>1. ~incomplete' => ~incomplete
      BY DEF Turns
    <2> QED
      BY <2>1, UndoIs DEF IInv, Honest, Turns, Known, Ours
  <1>2. ASSUME Smooth'
        PROVE  \A f \in Logged :
                 /\ ~Held(f)' => disk'[f] \in {Foreign, Told(f)'}
                 /\ Held(f)' => disk'[f] \in {Foreign, row'[f].before}
    <2>1. ~incomplete' /\ ~broken' /\ ~incomplete /\ ~broken
      BY <1>2 DEF Smooth, Turns
    <2>2. this.pc \in {"check", "replace", "mark", "undone"}
      BY <1>2, UndoIs DEF Smooth, Turns, Fit
    <2>3. Smooth
      BY <1>2, <2>1, <2>2, UndoIs DEF Smooth, Puts
    <2>4. \A f \in Files : Held(f)' <=> this.pc = "mark" /\ f = NextFile(this.todo)
      BY <2>1, UndoIs DEF Held, Undoing
    <2>5. Logged \subseteq Files
      BY UndoIs
    <2> QED
      BY <2>1, <2>2, <2>3, <2>4, <2>5, LoggedIs DEF Puts
  <1> QED
    BY <1>1, <1>2, UndoIs DEF Honest

\* What is reverted is what the undo has to answer for.
Squares(this) ==
    ~broken' /\ ~incomplete' =>
        /\ this.pc \in {"check", "replace", "mark"} =>
              Forward(this.todo, this.applied)'
        /\ this.pc \in {"rollback", "putback", "unmark"} =>
              Backward(this.trouble, this.applied)'
        /\ this.pc \in {"undone", "failed"} => Open' \cap Logged \in {{}, Ours'}

LEMMA TurnsWhole ==
    ASSUME IInv, NEW u \in Undoers, NEW this, Turns(u, this), Squares(this)
    PROVE  Whole'
  <1> SUFFICES ASSUME ~incomplete', ~broken' PROVE Whole'
    BY DEF Whole
  <1>1. \A v \in Undoers : v # u => undo'[v].pc \in {"new", "undone", "failed"}
    BY UndoIs DEF Undoing
  <1>2. UndoIsWhole'
    <2> SUFFICES ASSUME Quiet' PROVE Open' \cap Logged \in {{}, Ours'}
      BY UndoIs DEF UndoIsWhole, Ours
    <2>1. this.pc \in {"new", "undone", "failed"}
      BY UndoIs DEF Quiet, Undoing
    <2> QED
      BY <2>1 DEF Squares, Turns, Fit
  <1> QED
    BY <1>1, <1>2, UndoIs DEF Whole, Squares, Forward, Backward

LEMMA TurnsInv ==
    ASSUME IInv, NEW u \in Undoers, NEW this, Turns(u, this), Puts(u, this),
           Squares(this)
    PROVE  IInv'
  BY TurnsKeeps, TurnsHonest, TurnsWhole DEF IInv


LEMMA UndoingIs ==
    ASSUME IInv, NEW u \in Undoers, Undoing(u)
    PROVE  /\ ~active /\ Working = {} /\ undo[u] \in UndoType
           /\ \A f \in Logged : Alike(f, undo[u].rows[f])
           /\ \A f \in undo[u].todo \cup undo[u].applied :
                 undo[u].rows[f] \in Rows /\ (f \in Logged => f \in Known)
           /\ (undo[u].todo \cup undo[u].applied) \cap blended \cap Logged = {}
           /\ Known \subseteq Files /\ Logged \subseteq Files
           /\ \A f \in Known : row[f] \in Rows
           /\ \A f \in Files : ~AtWork(f)
  <1>1. ~active /\ Working = {} /\ undo[u] \in UndoType
    BY DEF IInv, Apart, Undoing, FTypeOK, UndoType
  <1>2. /\ \A f \in Logged : Alike(f, undo[u].rows[f])
        /\ \A f \in undo[u].todo \cup undo[u].applied :
              undo[u].rows[f] \in Rows /\ (f \in Logged => f \in Known)
    BY DEF IInv, Walking, Walks
  <1>3. /\ \A f \in Known : f \in Files /\ row[f] \in Rows
        /\ Logged \subseteq Files
    BY DEF Known, Logged, IInv, FTypeOK
  <1>4. (undo[u].todo \cup undo[u].applied) \cap blended \cap Logged = {}
    BY DEF IInv, Edited
  <1> QED
    BY <1>1, <1>2, <1>3, <1>4 DEF AtWork

\* Undos that go forward: the one under way stands at the one file whose row it
\* has yet to mark.
LEMMA TellsIs ==
    ASSUME IInv, NEW u \in Undoers, Undoing(u), Smooth, NEW g \in Logged
    PROVE  IF undo[u].pc = "mark" /\ g = NextFile(undo[u].todo)
           THEN disk[g] \in {Foreign, row[g].before}
           ELSE disk[g] \in {Foreign, Told(g)}
  <1>1. g \in Files /\ ~AtWork(g)
    BY UndoingIs
  <1>2. Held(g) <=> undo[u].pc = "mark" /\ g = NextFile(undo[u].todo)
    <2>1. \A v \in Undoers : Undoing(v) => v = u
      BY DEF IInv, Alone, Smooth
    <2> QED
      BY <2>1 DEF Held, Undoing
  <1>3. Honest
    BY DEF IInv
  <1> QED
    BY <1>1, <1>2, <1>3 DEF Honest

\* A step that touches neither files nor rows.
LEMMA StillIs ==
    ASSUME IInv, NEW u \in Undoers, Undoing(u), NEW this, Fit(this),
           Becomes(u, this),
           UNCHANGED <<disk, row, incomplete, active, call, edits, blended, broken>>
    PROVE  /\ Turns(u, this)
           /\ Turned' = Turned /\ Ours' = Ours /\ Open' = Open
           /\ \A f \in Files : Told(f)' = Told(f)
  <1>1. Turns(u, this)
    BY UndoingIs DEF Turns, IInv, FTypeOK
  <1> QED
    BY <1>1 DEF Turned, Ours, Known, Open, Told, Logged, Lost

LEMMA IInvCheck == ASSUME IInv, NEW u \in Undoers, Check(u) PROVE IInv'
  <1>1. PICK f : f = NextFile(undo[u].todo)
    OBVIOUS
  <1>2. /\ undo[u].pc = "check" /\ undo[u].todo # {} /\ Undoing(u)
        /\ Becomes(u, [undo[u] EXCEPT !.seen = disk[f], !.pc =
               IF Holds(f, undo[u].rows[f].after) THEN "replace" ELSE "rollback"])
        /\ UNCHANGED <<disk, row, incomplete, active, call, edits, blended,
                       broken>>
    BY <1>1 DEF Check, Undoing
  <1>3. f \in undo[u].todo /\ f \in Files /\ disk[f] \in Bytes
    BY <1>1, <1>2, NextIs, UndoingIs DEF IInv, FTypeOK
  <1>4. PICK this : this = [undo[u] EXCEPT !.seen = disk[f], !.pc =
               IF Holds(f, undo[u].rows[f].after) THEN "replace" ELSE "rollback"]
    OBVIOUS
  <1>5. /\ this \in UndoType
        /\ this.todo = undo[u].todo /\ this.applied = undo[u].applied
        /\ this.rows = undo[u].rows /\ this.seen = disk[f]
        /\ this.pc \in {"replace", "rollback"}
        /\ this.pc = "replace" => disk[f] = this.rows[f].after
    BY <1>2, <1>3, <1>4, UndoingIs DEF UndoType, Holds
  <1>6. Fit(this)
    BY <1>1, <1>2, <1>5, UndoingIs DEF Fit
  <1>7. /\ Turns(u, this)
        /\ Turned' = Turned /\ Ours' = Ours /\ Open' = Open
        /\ \A g \in Files : Told(g)' = Told(g)
    BY <1>2, <1>4, <1>6, StillIs
  <1>8. Smooth => \A g \in Logged : disk[g] \in {Foreign, Told(g)}
    BY <1>2, TellsIs
  <1>9. Puts(u, this)
    BY <1>2, <1>5, <1>7, <1>8, LoggedIs DEF Puts
  <1>10. Squares(this)
    BY <1>2, <1>5, <1>7, LoggedSame
       DEF Squares, IInv, Whole, Forward, Backward
  <1> QED
    BY <1>7, <1>9, <1>10, TurnsInv

LEMMA IInvReplace == ASSUME IInv, NEW u \in Undoers, Replace(u) PROVE IInv'
  <1>1. PICK f : f = NextFile(undo[u].todo)
    OBVIOUS
  <1>2. /\ undo[u].pc = "replace" /\ undo[u].todo # {} /\ Undoing(u)
        /\ UNCHANGED <<row, incomplete, active, call, edits, blended, broken>>
    BY DEF Replace, Undoing, IInv, Walking, Walks
  <1>3. /\ f \in undo[u].todo /\ f \in Files
        /\ f \in Logged => /\ f \notin blended
                           /\ undo[u].rows[f].before = row[f].before
        /\ undo[u].rows[f].before \in Bytes /\ disk \in [Files -> Bytes]
    <2>1. f \in undo[u].todo /\ f \in Files
      BY <1>1, <1>2, NextIs, UndoingIs DEF UndoType
    <2>2. undo[u].rows[f] \in Rows /\ (f \in Logged => f \in Known /\ f \notin blended)
      BY <1>2, <2>1, UndoingIs
    <2>3. f \in Logged => undo[u].rows[f].before = row[f].before
      BY <1>2, <2>2, UndoingIs DEF Alike, Known
    <2> QED
      BY <2>1, <2>2, <2>3 DEF IInv, FTypeOK, Rows
  <1>4. CASE /\ disk' = [disk EXCEPT ![f] = undo[u].rows[f].before]
             /\ Becomes(u, [undo[u] EXCEPT !.pc = "mark"])
    <2>1. PICK this : this = [undo[u] EXCEPT !.pc = "mark"]
      OBVIOUS
    <2>2. /\ this \in UndoType /\ this.pc = "mark"
          /\ this.todo = undo[u].todo /\ this.applied = undo[u].applied
          /\ this.rows = undo[u].rows
      BY <1>2, <2>1, UndoingIs DEF UndoType
    <2>3. Fit(this)
      BY <1>2, <2>2, UndoingIs DEF Fit
    <2>4. disk' \in [Files -> Bytes] /\ (f \in Logged => disk'[f] = row[f].before)
          /\ \A g \in Files : g # f => disk'[g] = disk[g]
      BY <1>3, <1>4
    <2>5. /\ Turned' = Turned /\ Ours' = Ours
          /\ \A g \in Files : Told(g)' = Told(g)
      BY <1>2 DEF Turned, Ours, Known, Told, Logged, Lost
    <2>6. Turns(u, this)
      BY <1>2, <1>3, <1>4, <2>1, <2>3, <2>4, UndoingIs DEF Turns, IInv, FTypeOK
    <2>7. Smooth => \A g \in Logged : disk[g] \in {Foreign, Told(g)}
      BY <1>2, TellsIs
    <2>8. Puts(u, this)
      BY <1>1, <1>2, <2>2, <2>4, <2>5, <2>7, LoggedIs DEF Puts
    <2>9. Squares(this)
      BY <1>2, <2>2, <2>5, LoggedSame
       DEF Squares, IInv, Whole, Forward, Backward
    <2> QED
      BY <2>6, <2>8, <2>9, TurnsInv
  <1>5. CASE Becomes(u, [undo[u] EXCEPT !.pc = "rollback"]) /\ UNCHANGED disk
    <2>1. PICK this : this = [undo[u] EXCEPT !.pc = "rollback"]
      OBVIOUS
    <2>2. /\ this \in UndoType /\ this.pc = "rollback"
          /\ this.todo = undo[u].todo /\ this.applied = undo[u].applied
          /\ this.rows = undo[u].rows
      BY <1>2, <2>1, UndoingIs DEF UndoType
    <2>3. Fit(this)
      BY <1>2, <2>2, UndoingIs DEF Fit
    <2>4. Turns(u, this) /\ Turned' = Turned /\ Ours' = Ours
      BY <1>2, <1>5, <2>1, <2>3, StillIs
    <2>5. Puts(u, this)
      BY <2>2, LoggedIs DEF Puts
    <2>6. Squares(this)
      BY <1>2, <2>2, <2>4, LoggedSame
       DEF Squares, IInv, Whole, Forward, Backward
    <2> QED
      BY <2>4, <2>5, <2>6, TurnsInv
  <1> QED
    BY <1>1, <1>4, <1>5 DEF Replace


LEMMA RevertedIs ==
    ASSUME IInv, NEW f \in Files, NEW flag \in BOOLEAN, row' = Reverted(f, flag),
           UNCHANGED call
    PROVE  /\ row' \in [Files -> Rows \cup {NoRow}]
           /\ f \in Known => /\ row'[f].before = row[f].before
                             /\ row'[f].after = row[f].after
                             /\ row'[f].conflicted = row[f].conflicted
                             /\ row'[f].reverted = flag
           /\ \A g \in Files : g # f => row'[g] = row[g]
           /\ \A g \in Files : (row'[g] = NoRow) = (row[g] = NoRow)
           /\ Ours' = Ours
           /\ f \in Ours => Turned' = IF flag THEN Turned \cup {f} ELSE Turned \ {f}
           /\ f \notin Ours => Turned' = Turned
  <1>0. Logged' = Logged /\ row \in [Files -> Rows \cup {NoRow}] /\ Ours \subseteq Files
    BY DEF Logged, Lost, IInv, FTypeOK, Ours
  <1>1. CASE f \in Known
    <2>1. row[f] \in Rows
      BY <1>0, <1>1 DEF Known
    <2>2. PICK new : new = [row[f] EXCEPT !.reverted = flag]
      OBVIOUS
    <2>3. row' = [row EXCEPT ![f] = new]
      BY <1>1, <2>2 DEF Reverted, Known
    <2>4. /\ new \in Rows /\ new.before = row[f].before /\ new.after = row[f].after
          /\ new.conflicted = row[f].conflicted /\ new.reverted = flag
      BY <2>1, <2>2 DEF Rows
    <2>5. row' \in [Files -> Rows \cup {NoRow}] /\ row'[f] = new
          /\ \A g \in Files : g # f => row'[g] = row[g]
      BY <1>0, <2>3, <2>4
    <2>6. new # NoRow /\ row[f] # NoRow
      BY <1>1, <2>4, NoRowAssumption DEF Known
    <2>7. Known' = Known /\ Ours' = Ours
      BY <1>0, <2>5, <2>6 DEF Known, Ours
    <2>8. \A g \in Ours : g # f => row'[g].reverted = row[g].reverted
      BY <1>0, <2>5
    <2>9. f \in Ours => Turned' = IF flag THEN Turned \cup {f} ELSE Turned \ {f}
      BY <2>4, <2>5, <2>7, <2>8 DEF Turned
    <2>10. f \notin Ours => Turned' = Turned
      BY <2>7, <2>8 DEF Turned
    <2> QED
      BY <2>4, <2>5, <2>6, <2>7, <2>9, <2>10
  <1>2. CASE f \notin Known
    <2>1. row' = row
      BY <1>2 DEF Reverted, Known
    <2> QED
      BY <1>0, <1>2, <2>1 DEF Known, Ours, Turned
  <1> QED
    BY <1>1, <1>2

LEMMA IInvMark == ASSUME IInv, NEW u \in Undoers, Mark(u) PROVE IInv'
  <1>1. PICK f : f = NextFile(undo[u].todo)
    OBVIOUS
  <1>2. /\ undo[u].pc = "mark" /\ undo[u].todo # {} /\ Undoing(u)
        /\ UNCHANGED <<disk, incomplete, active, call, edits, blended, broken>>
    BY DEF Mark, Undoing, IInv, Walking, Walks
  <1>3. /\ f \in undo[u].todo /\ f \in Files /\ undo[u].rows[f] \in Rows
        /\ f \in Logged => f \in Known /\ f \in Ours /\ f \notin blended
    <2>1. f \in undo[u].todo /\ f \in Files
      BY <1>1, <1>2, NextIs, UndoingIs DEF UndoType
    <2> QED
      BY <1>2, <2>1, UndoingIs DEF Ours
  <1>4. CASE /\ row' = Reverted(f, TRUE)
             /\ Becomes(u, [undo[u] EXCEPT !.pc = "check", !.todo = @ \ {f},
                                           !.applied = @ \cup {f}])
    <2>1. PICK this : this = [undo[u] EXCEPT !.pc = "check", !.todo = @ \ {f},
                                             !.applied = @ \cup {f}]
      OBVIOUS
    <2>2. /\ this \in UndoType /\ this.pc = "check"
          /\ this.todo = undo[u].todo \ {f}
          /\ this.applied = undo[u].applied \cup {f}
          /\ this.rows = undo[u].rows
      BY <1>2, <1>3, <2>1, UndoingIs DEF UndoType
    <2>3. Fit(this)
      BY <1>2, <1>3, <2>2, UndoingIs DEF Fit
    <2>4. /\ row' \in [Files -> Rows \cup {NoRow}]
          /\ f \in Known => /\ row'[f].before = row[f].before
                            /\ row'[f].after = row[f].after
                            /\ row'[f].conflicted = row[f].conflicted
                            /\ row'[f].reverted = TRUE
          /\ \A g \in Files : g # f => row'[g] = row[g]
          /\ \A g \in Files : (row'[g] = NoRow) = (row[g] = NoRow)
          /\ Ours' = Ours
      BY <1>2, <1>3, <1>4, RevertedIs
    <2>5. Turned' = Turned \cup ({f} \cap Logged)
      <3>1. CASE f \in Logged
        BY <1>2, <1>3, <1>4, <3>1, RevertedIs
      <3>2. CASE f \notin Logged
        BY <1>2, <1>3, <1>4, <3>2, RevertedIs DEF Ours
      <3> QED
        BY <3>1, <3>2
    <2>6. Turns(u, this)
      <3>1. \A g \in Files : row[g] # NoRow =>
               /\ row'[g].before = row[g].before /\ row'[g].after = row[g].after
               /\ row'[g].conflicted = row[g].conflicted
        BY <1>3, <2>4 DEF Known
      <3>2. \A g \in blended \cap Logged : row'[g] = row[g]
        BY <1>3, <2>4, UndoingIs DEF Logged
      <3> QED
        BY <1>2, <1>4, <2>1, <2>3, <2>4, <3>1, <3>2, UndoingIs
           DEF Turns, IInv, FTypeOK
    <2>7. /\ f \in Logged => Told(f)' = row[f].before
          /\ \A g \in Files : g # f => Told(g)' = Told(g)
      BY <1>3, <2>4 DEF Told, Known
    <2>8. Smooth => \A g \in Logged :
             IF g = f THEN disk[g] \in {Foreign, row[f].before}
             ELSE disk[g] \in {Foreign, Told(g)}
      BY <1>1, <1>2, TellsIs
    <2>9. Puts(u, this)
      BY <1>2, <2>2, <2>7, <2>8, LoggedIs DEF Puts
    <2>10. Squares(this)
      <3>1. ~broken /\ ~incomplete =>
               Forward(undo[u].todo, undo[u].applied)
        BY <1>2 DEF IInv, Whole
      <3>2. Logged' = Logged
        BY <1>2, LoggedSame
      <3> QED
        BY <1>2, <1>3, <2>2, <2>4, <2>5, <3>1, <3>2 DEF Squares, Forward
    <2> QED
      BY <2>6, <2>9, <2>10, TurnsInv
  <1>5. CASE /\ Becomes(u, [undo[u] EXCEPT !.pc = "rollback",
                                           !.applied = @ \cup {f}])
             /\ UNCHANGED row
    <2>1. PICK this : this = [undo[u] EXCEPT !.pc = "rollback",
                                             !.applied = @ \cup {f}]
      OBVIOUS
    <2>2. /\ this \in UndoType /\ this.pc = "rollback"
          /\ this.todo = undo[u].todo
          /\ this.applied = undo[u].applied \cup {f}
          /\ this.rows = undo[u].rows
      BY <1>2, <1>3, <2>1, UndoingIs DEF UndoType
    <2>3. Fit(this)
      BY <1>2, <1>3, <2>2, UndoingIs DEF Fit
    <2>4. Turns(u, this) /\ Turned' = Turned
      BY <1>2, <1>5, <2>1, <2>3, StillIs
    <2>5. Puts(u, this)
      BY <2>2, LoggedIs DEF Puts
    <2>6. Squares(this)
      BY <1>2, <1>3, <2>2, <2>4, UndoIs
       DEF Squares, IInv, Whole, Forward, Backward
    <2> QED
      BY <2>4, <2>5, <2>6, TurnsInv
  <1> QED
    BY <1>1, <1>4, <1>5 DEF Mark

LEMMA IInvCheckBack == ASSUME IInv, NEW u \in Undoers, CheckBack(u) PROVE IInv'
  <1>1. PICK f : f = LastFile(undo[u].applied)
    OBVIOUS
  <1>2. /\ undo[u].pc = "rollback" /\ undo[u].applied # {} /\ Undoing(u)
        /\ UNCHANGED <<disk, row, incomplete, active, call, edits, blended, broken>>
    BY DEF CheckBack, Undoing
  <1>3. PICK this :
          /\ Becomes(u, this)
          /\ \/ this = [undo[u] EXCEPT !.pc = "putback"]
             \/ this = [undo[u] EXCEPT !.applied = @ \ {f}, !.trouble = TRUE]
    BY <1>1 DEF CheckBack
  <1>4. /\ this \in UndoType /\ this.pc \in {"putback", "rollback"}
        /\ this.todo = undo[u].todo /\ this.applied \subseteq undo[u].applied
        /\ this.rows = undo[u].rows
        /\ this.trouble \/ this.applied = undo[u].applied
        /\ undo[u].trouble => this.trouble
        /\ this.pc = "putback" => this.applied = undo[u].applied
    <2>1. undo[u] \in UndoType
      BY <1>2, UndoingIs
    <2>2. CASE this = [undo[u] EXCEPT !.pc = "putback"]
      BY <2>1, <2>2 DEF UndoType
    <2>3. CASE this = [undo[u] EXCEPT !.applied = @ \ {f}, !.trouble = TRUE]
      BY <1>2, <2>1, <2>3 DEF UndoType
    <2> QED
      BY <1>3, <2>2, <2>3
  <1>5. Fit(this)
    BY <1>2, <1>4, UndoingIs DEF Fit
  <1>6. Turns(u, this) /\ Turned' = Turned
    BY <1>2, <1>3, <1>5, StillIs
  <1>7. Puts(u, this)
    BY <1>4, LoggedIs DEF Puts
  <1>8. Squares(this)
    BY <1>2, <1>4, <1>6, UndoIs
       DEF Squares, IInv, Whole, Forward, Backward
  <1> QED
    BY <1>6, <1>7, <1>8, TurnsInv

LEMMA IInvPutBack == ASSUME IInv, NEW u \in Undoers, PutBack(u) PROVE IInv'
  <1>1. PICK f : f = LastFile(undo[u].applied)
    OBVIOUS
  <1>2. /\ undo[u].pc = "putback" /\ undo[u].applied # {} /\ Undoing(u)
        /\ UNCHANGED <<row, incomplete, active, call, edits, blended, broken>>
    BY DEF PutBack, Undoing, IInv, Walking, Walks
  <1>3. /\ f \in undo[u].applied /\ f \in Files /\ (f \in Logged => f \notin blended)
        /\ undo[u].rows[f].after \in Bytes /\ disk \in [Files -> Bytes]
    <2>1. f \in undo[u].applied /\ f \in Files
      BY <1>1, <1>2, LastIs, UndoingIs DEF UndoType
    <2>2. undo[u].rows[f] \in Rows /\ (f \in Logged => f \notin blended)
      BY <1>2, <2>1, UndoingIs
    <2> QED
      BY <2>1, <2>2 DEF IInv, FTypeOK, Rows
  <1>4. PICK this :
          /\ Becomes(u, this)
          /\ \/ /\ this = [undo[u] EXCEPT !.pc = "unmark"]
                /\ disk' = [disk EXCEPT ![f] = undo[u].rows[f].after]
             \/ /\ this = [undo[u] EXCEPT !.pc = "rollback", !.trouble = TRUE,
                                          !.applied = @ \ {f}]
                /\ UNCHANGED disk
    BY <1>1 DEF PutBack
  <1>5. /\ this \in UndoType /\ this.pc \in {"unmark", "rollback"}
        /\ this.todo = undo[u].todo /\ this.applied \subseteq undo[u].applied
        /\ this.rows = undo[u].rows
        /\ this.trouble \/ this.applied = undo[u].applied
        /\ undo[u].trouble => this.trouble
        /\ this.pc = "unmark" => this.applied = undo[u].applied
    <2>1. undo[u] \in UndoType
      BY <1>2, UndoingIs
    <2>2. CASE this = [undo[u] EXCEPT !.pc = "unmark"]
      BY <2>1, <2>2 DEF UndoType
    <2>3. CASE this = [undo[u] EXCEPT !.pc = "rollback", !.trouble = TRUE,
                                      !.applied = @ \ {f}]
      BY <2>1, <2>3 DEF UndoType
    <2> QED
      BY <1>4, <2>2, <2>3
  <1>6. Fit(this)
    BY <1>2, <1>5, UndoingIs DEF Fit
  <1>7. disk' \in [Files -> Bytes] /\ \A g \in Files : g # f => disk'[g] = disk[g]
    BY <1>3, <1>4
  <1>8. Turned' = Turned
    BY <1>2 DEF Turned, Ours, Known, Logged, Lost
  <1>9. Turns(u, this)
    BY <1>2, <1>3, <1>4, <1>6, <1>7, UndoingIs DEF Turns, IInv, FTypeOK
  <1>10. Puts(u, this)
    BY <1>5, LoggedIs DEF Puts
  <1>11. Squares(this)
    BY <1>2, <1>5, <1>8, <1>9, UndoIs
       DEF Squares, IInv, Whole, Forward, Backward
  <1> QED
    BY <1>9, <1>10, <1>11, TurnsInv

LEMMA IInvUnmark == ASSUME IInv, NEW u \in Undoers, Unmark(u) PROVE IInv'
  <1>1. PICK f : f = LastFile(undo[u].applied)
    OBVIOUS
  <1>2. /\ undo[u].pc = "unmark" /\ undo[u].applied # {} /\ Undoing(u)
        /\ row' = Reverted(f, FALSE)
        /\ UNCHANGED <<disk, incomplete, active, call, edits, blended, broken>>
    BY <1>1 DEF Unmark, Undoing, IInv, Walking, Walks
  <1>3. /\ f \in undo[u].applied /\ f \in Files
        /\ f \in Logged => f \in Known /\ f \in Ours /\ f \notin blended
    <2>1. f \in undo[u].applied /\ f \in Files
      BY <1>1, <1>2, LastIs, UndoingIs DEF UndoType
    <2> QED
      BY <1>2, <2>1, UndoingIs DEF Ours
  <1>4. PICK this : this = [undo[u] EXCEPT !.pc = "rollback", !.applied = @ \ {f}]
    OBVIOUS
  <1>5. /\ Becomes(u, this)
        /\ this \in UndoType /\ this.pc = "rollback"
        /\ this.todo = undo[u].todo /\ this.applied = undo[u].applied \ {f}
        /\ this.rows = undo[u].rows /\ this.trouble = undo[u].trouble
    BY <1>1, <1>2, <1>4, UndoingIs DEF UndoType, Unmark
  <1>6. Fit(this)
    BY <1>2, <1>5, UndoingIs DEF Fit
  <1>7. /\ row' \in [Files -> Rows \cup {NoRow}]
        /\ f \in Known => /\ row'[f].before = row[f].before
                          /\ row'[f].after = row[f].after
                          /\ row'[f].conflicted = row[f].conflicted
        /\ \A g \in Files : g # f => row'[g] = row[g]
        /\ \A g \in Files : (row'[g] = NoRow) = (row[g] = NoRow)
    BY <1>2, <1>3, RevertedIs
  <1>8. Turned' = Turned \ {f}
    <2>1. CASE f \in Ours
      BY <1>2, <1>3, <2>1, RevertedIs
    <2>2. CASE f \notin Ours
      BY <1>2, <1>3, <2>2, RevertedIs DEF Turned
    <2> QED
      BY <2>1, <2>2
  <1>9. Turns(u, this)
    <2>1. \A g \in Files : row[g] # NoRow =>
             /\ row'[g].before = row[g].before /\ row'[g].after = row[g].after
             /\ row'[g].conflicted = row[g].conflicted
      BY <1>3, <1>7 DEF Known
    <2>2. \A g \in blended \cap Logged : row'[g] = row[g]
      BY <1>3, <1>7, UndoingIs DEF Logged
    <2> QED
      BY <1>2, <1>5, <1>6, <1>7, <2>1, <2>2, UndoingIs DEF Turns, IInv, FTypeOK
  <1>10. Puts(u, this)
    BY <1>5, LoggedIs DEF Puts
  <1>11. Squares(this)
    <2>1. Turned \subseteq Logged
      BY DEF Turned, Ours
    <2>2. Backward(undo[u].trouble, undo[u].applied) => Backward(this.trouble, this.applied)'
      BY <1>5, <1>8, <1>9, <2>1, <1>3, UndoIs DEF Backward
    <2> QED
      BY <1>2, <1>5, <2>2 DEF Squares, IInv, Whole
  <1> QED
    BY <1>9, <1>10, <1>11, TurnsInv

LEMMA OverIs ==
    ASSUME NEW pc \in {"undone", "failed"}
    PROVE  Fit(Over(pc)) /\ Over(pc).pc = pc
  <1>1. /\ Over(pc) \in UndoType /\ Over(pc).pc = pc
        /\ Over(pc).todo = {} /\ Over(pc).applied = {}
    BY FileChangesAssumption DEF Over, NewUndo, UndoType, Bytes
  <1> QED
    BY <1>1 DEF Fit

LEMMA IInvUndone == ASSUME IInv, NEW u \in Undoers, Undone(u) PROVE IInv'
  <1>1. PICK this : this = Over("undone")
    OBVIOUS
  <1>2. /\ undo[u].pc = "check" /\ undo[u].todo = {} /\ Undoing(u)
        /\ Becomes(u, this) /\ Fit(this) /\ this.pc = "undone"
        /\ UNCHANGED <<disk, row, incomplete, active, call, edits, blended, broken>>
    BY <1>1, OverIs DEF Undone, Undoing
  <1>3. /\ Turns(u, this)
        /\ Turned' = Turned /\ Ours' = Ours /\ Open' = Open
        /\ \A g \in Files : Told(g)' = Told(g)
    BY <1>2, StillIs
  <1>4. Smooth => \A g \in Logged : disk[g] \in {Foreign, Told(g)}
    BY <1>2, TellsIs
  <1>5. Puts(u, this)
    BY <1>2, <1>3, <1>4, LoggedIs DEF Puts
  <1>6. ~broken /\ ~incomplete => Open \cap Logged = {}
    BY <1>2 DEF IInv, Whole, Open, Turned, Ours, Forward, Backward
  <1>7. Squares(this)
    BY <1>2, <1>3, <1>6 DEF Squares
  <1> QED
    BY <1>3, <1>5, <1>7, TurnsInv

LEMMA IInvGiveUp == ASSUME IInv, NEW u \in Undoers, GiveUp(u) PROVE IInv'
  <1>1. PICK this : this = Over("failed")
    OBVIOUS
  <1>2. /\ undo[u].pc = "rollback" /\ undo[u].applied = {} /\ Undoing(u)
        /\ Becomes(u, this) /\ Fit(this) /\ this.pc = "failed"
        /\ incomplete' = (incomplete \/ undo[u].trouble)
        /\ UNCHANGED <<disk, row, active, call, edits, blended, broken>>
    BY <1>1, OverIs DEF GiveUp, Undoing, TroubleTold
  <1>3. undo[u].trouble \in BOOLEAN /\ incomplete \in BOOLEAN
    BY DEF IInv, FTypeOK
  <1>4. incomplete' \in BOOLEAN /\ (incomplete => incomplete')
    BY <1>2, <1>3
  <1>5. Turns(u, this)
    BY <1>2, <1>4, UndoingIs DEF Turns, IInv, FTypeOK
  <1>6. Puts(u, this)
    BY <1>2, LoggedIs DEF Puts
  <1>7. ~broken /\ ~incomplete' => Turned = {} \/ Turned = Ours
    BY <1>2, <1>3 DEF IInv, Whole, Forward, Backward
  <1>8. /\ Open' \cap Logged = Ours' \ Turned' /\ Turned' = Turned /\ Ours' = Ours
        /\ Turned \subseteq Ours
    BY <1>2, LoggedSame DEF Open, Known, Turned, Ours
  <1>9. Squares(this)
    BY <1>2, <1>7, <1>8 DEF Squares
  <1> QED
    BY <1>5, <1>6, <1>9, TurnsInv

LEMMA IInvCutOff == ASSUME IInv, NEW u \in Undoers, CutOff(u) PROVE IInv'
  <1>1. PICK this : this = Over("failed")
    OBVIOUS
  <1>2. /\ Undoing(u) /\ Becomes(u, this) /\ Fit(this) /\ this.pc = "failed"
        /\ broken' = TRUE
        /\ UNCHANGED <<disk, row, incomplete, active, call, edits, blended>>
    BY <1>1, OverIs DEF CutOff
  <1>3. Turns(u, this)
    BY <1>2, UndoingIs DEF Turns, IInv, FTypeOK
  <1> QED
    BY <1>2, <1>3, TurnsInv DEF Puts, Squares

LEMMA IInvAbandon == ASSUME IInv, NEW u \in Undoers, Abandon(u) PROVE IInv'
  <1>1. PICK this : this = [undo[u] EXCEPT !.guard = FALSE]
    OBVIOUS
  <1>2. /\ Undoing(u) /\ Becomes(u, this)
        /\ UNCHANGED <<disk, row, incomplete, active, call, edits, blended, broken>>
    BY <1>1 DEF Abandon
  <1>3. /\ this \in UndoType /\ this.pc = undo[u].pc
        /\ this.todo = undo[u].todo /\ this.applied = undo[u].applied
        /\ this.rows = undo[u].rows /\ this.trouble = undo[u].trouble
        /\ this.seen = undo[u].seen
    BY <1>1, <1>2, UndoingIs DEF UndoType
  <1>4. Fit(this)
    BY <1>2, <1>3, UndoingIs DEF Fit, Undoing, IInv, Walking, Walks, Edited
  <1>5. /\ Turns(u, this)
        /\ Turned' = Turned /\ Ours' = Ours /\ Open' = Open
        /\ \A g \in Files : Told(g)' = Told(g)
    BY <1>2, <1>4, StillIs
  <1>6. Puts(u, this)
    <2>1. Smooth => \A f \in Logged :
              IF this.pc = "mark" /\ f = NextFile(this.todo)
              THEN disk[f] \in {Foreign, row[f].before}
              ELSE disk[f] \in {Foreign, Told(f)}
      BY <1>2, <1>3, TellsIs
    <2> QED
      BY <1>2, <1>3, <1>5, <2>1, LoggedIs DEF Puts, Undoing
  <1>7. Squares(this)
    BY <1>2, <1>3, <1>5, LoggedSame
       DEF Squares, IInv, Whole, Forward, Backward, Undoing
  <1> QED
    BY <1>5, <1>6, <1>7, TurnsInv

LEMMA IInvStartUndo == ASSUME IInv, NEW u \in Undoers, StartUndo(u) PROVE IInv'
  <1>1. PICK this : this = [undo[u] EXCEPT !.pc = "check", !.todo = Open,
                                           !.rows = row, !.guard = TRUE]
    OBVIOUS
  <1>2. /\ undo[u].pc = "new" /\ ~active /\ Available /\ Open # {}
        /\ Working = {} /\ \A f \in Open : disk[f] = row[f].after
        /\ Becomes(u, this)
        /\ broken' = (broken \/ \E v \in Undoers : Undoing(v))
        /\ UNCHANGED <<disk, row, incomplete, active, call, edits, blended>>
    BY <1>1 DEF StartUndo
  <1>3. undo[u] \in UndoType /\ row \in [Files -> Rows \cup {NoRow}]
        /\ Open \subseteq Known /\ Known \subseteq Files
        /\ undo[u].applied = {}
    BY <1>2 DEF IInv, FTypeOK, UndoType, Open, Known, Walking, Walks
  <1>4. /\ this \in UndoType /\ this.pc = "check" /\ this.todo = Open
        /\ this.applied = {} /\ this.rows = row
    BY <1>1, <1>3 DEF UndoType
  <1>5. Open \cap blended \cap Logged = {}
    <2> SUFFICES ASSUME NEW f \in Open, f \in blended, f \in Logged PROVE FALSE
      OBVIOUS
    <2>1. Kept(f)
      BY <1>2, <1>3 DEF IInv, Edited, Available
    <2>2. ~AtWork(f)
      BY <1>2 DEF AtWork
    <2> QED
      BY <1>2, <2>1, <2>2 DEF Kept
  <1>6. Fit(this)
    <2>1. \A f \in Open : row[f] \in Rows
      BY <1>3 DEF Open, Known
    <2> QED
      BY <1>3, <1>4, <1>5, <2>1 DEF Fit, Alike
  <1>7. /\ broken' \in BOOLEAN /\ (broken => broken')
        /\ broken' \/ \A v \in Undoers : ~Undoing(v)
    BY <1>2 DEF IInv, FTypeOK
  <1>8. Turns(u, this)
    BY <1>2, <1>6, <1>7 DEF Turns, IInv, FTypeOK
  <1>9. /\ Turned' = Turned /\ Ours' = Ours
        /\ \A g \in Files : Told(g)' = Told(g)
    BY <1>2 DEF Turned, Ours, Known, Told, Logged, Lost
  <1>10. Puts(u, this)
    <2>1. ~broken' /\ Smooth => \A g \in Logged : disk[g] \in {Foreign, Told(g)}
      <3>1. ~broken' => \A f \in Files : ~Held(f)
        BY <1>7 DEF Held, Undoing
      <3>2. \A f \in Logged : f \in Files /\ ~AtWork(f)
        BY <1>2 DEF AtWork, Logged
      <3>3. Honest
        BY DEF IInv
      <3> QED
        BY <3>1, <3>2, <3>3 DEF Honest
    <2> QED
      BY <1>2, <1>4, <1>9, <2>1, LoggedIs DEF Puts
  <1>11. Squares(this)
    <2>1. ~broken' /\ ~incomplete => Open \cap Logged \in {{}, Ours}
      BY <1>2, <1>7 DEF IInv, Whole, UndoIsWhole, Quiet, Ours
    <2>2. /\ Turned = Ours \ (Open \cap Logged)
          /\ Ours = (Open \cap Logged) \cup Turned
      BY DEF Turned, Open, Ours
    <2>3. ~broken' /\ ~incomplete => Turned = {} \/ Turned = Ours
      BY <2>1, <2>2
    <2>4. Logged' = Logged
      BY <1>2 DEF Logged, Lost
    <2>5. ~broken' /\ ~incomplete => Forward(this.todo, this.applied)'
      BY <1>4, <1>9, <2>1, <2>2, <2>3, <2>4 DEF Forward
    <2> QED
      BY <1>2, <1>4, <2>5 DEF Squares
  <1> QED
    BY <1>8, <1>10, <1>11, TurnsInv

-----------------------------------------------------------------------------
LEMMA IInvStep == IInv /\ [FNext]_fvars => IInv'
  <1> SUFFICES ASSUME IInv, [FNext]_fvars PROVE IInv'
    OBVIOUS
  <1>1. CASE UNCHANGED fvars
    <2>1. UNCHANGED <<Working, Logged, Known, Ours, Turned, Open, Quiet>>
      BY <1>1 DEF fvars, Working, Logged, Lost, Known, Ours, Turned, Open, Quiet, Undoing
    <2>2. FTypeOK' /\ Apart' /\ Alone'
      BY <1>1, <2>1 DEF fvars, IInv, FTypeOK, Apart, Alone, Undoing
    <2>3. Walking'
      BY <1>1, <2>1 DEF fvars, IInv, Walking, Walks, Alike, Undoing
    <2>4. Honest'
      BY <1>1, <2>1 DEF fvars, IInv, Honest, Smooth, Told, AtWork, Held
    <2>5. Whole' /\ Edited'
      BY <1>1, <2>1 DEF fvars, IInv, Whole, Forward, Backward, UndoIsWhole,
                        Edited, Kept, AtWork
    <2> QED
      BY <2>2, <2>3, <2>4, <2>5 DEF IInv
  <1>2. CASE \E t \in Tools :
          \/ Work(t) \/ Finish(t) \/ Lose(t) \/ WriteLate(t) \/ RecordLate(t)
          \/ \E files \in FileSets : Begin(t, files)
    BY <1>2, IInvWork, IInvFinish, IInvBegin, IInvLose, IInvWriteLate, IInvRecordLate
  <1>3. CASE EndTurn \/ \E f \in Files : Edit(f)
    BY <1>3, IInvEndTurn, IInvEdit
  <1>4. CASE \E u \in Undoers :
          \/ StartUndo(u) \/ Check(u) \/ Replace(u) \/ Mark(u)
          \/ CheckBack(u) \/ PutBack(u) \/ Unmark(u) \/ Undone(u) \/ GiveUp(u)
          \/ CutOff(u) \/ Abandon(u)
    BY <1>4, IInvStartUndo, IInvCheck, IInvReplace, IInvMark, IInvCheckBack,
       IInvPutBack, IInvUnmark, IInvUndone, IInvGiveUp, IInvCutOff, IInvAbandon
  <1> QED
    BY <1>1, <1>2, <1>3, <1>4 DEF FNext

LEMMA Invariant == FSpec => []IInv
  BY IInvInit, IInvStep, PTL DEF FSpec

\* The variables of FileChanges keep their types, and no two working tools of
\* a turn have a file in common (mutation_guard of workspace_changes.rs).
THEOREM TypesOfFiles == FSpec => []FTypeOK
  <1>1. IInv => FTypeOK
    BY DEF IInv
  <1> QED
    BY <1>1, Invariant, PTL

\* While nothing is under way and nothing failed, the log of a complete turn
\* (record of workspace_changes.rs) says what the turn did to every file the
\* user did not write, also when its tools ran side by side; but for the files
\* of a call that was dropped, or could neither be recorded nor marked.
THEOREM LogsAreRight == FSpec => []LogIsRight
  <1>1. IInv => LogIsRight
    <2> SUFFICES ASSUME IInv, Working = {}, Quiet, ~incomplete, ~broken,
                        \A u \in Undoers : undo[u].pc # "failed",
                        NEW f \in Logged
                 PROVE  /\ row[f] # NoRow => row[f].before \in {Original, Foreign}
                        /\ disk[f] \in {Foreign, Told(f)}
      BY DEF LogIsRight, Told
    <2>1. \A u \in Undoers : undo[u].pc \in {"new", "undone"}
      BY DEF Quiet, Undoing
    <2>2. Smooth /\ ~AtWork(f) /\ ~Held(f)
      BY <2>1 DEF Smooth, AtWork, Held
    <2> QED
      BY <2>2 DEF IInv, Honest, Ours, Known, Logged
  <1> QED
    BY <1>1, Invariant, PTL

\* An undo that ends, having failed at any file and rolled back the others,
\* leaves the turn reverted as a whole or not at all, or has it marked
\* incomplete (undo_turn of workspace_changes.rs), if it was not cut off and
\* but for the files of calls whose change was not recorded in time.
THEOREM UndosAreWhole == FSpec => []UndoIsWhole
  <1>1. IInv => UndoIsWhole
    BY DEF IInv, Whole, UndoIsWhole
  <1> QED
    BY <1>1, Invariant, PTL

\* An undo never replaces a file where the turn wrote over an edit of the
\* user's, if what it wrote there was recorded, nor one that was edited after the turn, up to the moment between
\* its last look and the replacement.
THEOREM EditsAreKept == FSpec => []EditsSurvive
  <1>1. IInv => EditsSurvive
    <2> SUFFICES ASSUME IInv, NEW u \in Undoers, undo[u].pc = "replace"
                 PROVE  /\ NextFile(undo[u].todo) \in Logged =>
                              NextFile(undo[u].todo) \notin blended
                        /\ undo[u].seen =
                              undo[u].rows[NextFile(undo[u].todo)].after
      BY DEF EditsSurvive
    <2>1. undo[u].todo # {} /\ undo[u].todo \subseteq Files
      BY DEF IInv, Walking, Walks, FTypeOK
    <2> QED
      BY <2>1, NextIs DEF IInv, Edited
  <1> QED
    BY <1>1, Invariant, PTL

=============================================================================
