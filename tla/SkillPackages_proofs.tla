------------------------ MODULE SkillPackages_proofs ------------------------
(***************************************************************************)
(* Proofs about SkillPackages for any packages, tools, manifests, requests *)
(* and bounds: registry, scopes and tool catalog agree between operations, *)
(* active skills were read of the mounted manifest, and the settings tell  *)
(* what the process has.                                                   *)
(***************************************************************************)
EXTENDS SkillPackages, FiniteSetTheorems, SequenceTheorems, TLAPS

\* Registry e, scopes s and handlers h tell the same, package by package.
Agree(e, s, h) ==
    /\ \A n \in s : e[n.id].scope = n.scope
    /\ \A p \in Packages : e[p].scope # 0 =>
           /\ e[p].manifest # None
           /\ \E n \in s : n.id = p /\ n.scope = e[p].scope
           /\ \A t \in e[p].manifest.tools : h[t] = e[p].scope
    /\ \A t \in Tools : h[t] # 0 =>
           \E p \in Packages : e[p].scope # 0 /\ t \in e[p].manifest.tools
    /\ \A n \in s : \A r \in n.requires : \E k \in s : k.scope = r

\* No number is used twice.
Numbers ==
    /\ \A n \in scopes : 0 < n.scope /\ n.scope < next
    /\ \A n, k \in scopes : n.scope = k.scope => n = k
    /\ \A p \in Packages : entries[p].scope < next

Lock ==
    /\ \A u, v \in Actors : todo[u] \in Steps /\ todo[v] \in Steps => u = v
    /\ ~up => \A u \in Actors : todo[u] \in {"none", "done"}
    /\ up => loading = None

\* What an actor has in hand.
Asked(u) ==
    /\ todo[u] \in Steps \cup {"fetch", "lock"} => op[u].id \in Packages
    /\ todo[u] \in {"fetch", "lock"} =>
           op[u].kind \in {"connect", "user", "restore", "reconnect", "turn_on"}
    /\ todo[u] \in {"lock", "replace", "register", "list"} => op[u].new \in AnyManifest
    /\ todo[u] \in {"unlist", "unregister"} /\ op[u].kind \in Renews => op[u].new \in AnyManifest
    /\ op[u].kind \in Renews \cup {"remove", "disable"} => op[u].old.manifest \in AnyManifest

\* The entry as it was before, or will be after, the half of the change.
Coming(u) == [entries EXCEPT ![op[u].id] = [manifest |-> op[u].new, scope |-> next - 1]]
Leaving(u, s) == [entries EXCEPT ![op[u].id] = [manifest |-> @.manifest, scope |-> s]]

\* What has been mounted for the settings is unmounted if they cannot be written.
TakesBack(u) == op[u].kind \in Creates \/ (op[u].kind = "enable" /\ op[u].old.scope = 0)

\* What the registry is like at each step of a change.
Midway(u) ==
    LET p == op[u].id IN
    /\ todo[u] = "unlist" => Mounted(p) /\ ~Needed(p)
    /\ todo[u] = "unregister" =>
           /\ ~Mounted(p)
           /\ \E s \in Nat \ {0} : /\ Agree(Leaving(u, s), scopes, handlers)
                                   /\ \A n \in scopes : s \notin n.requires
    /\ todo[u] = "list" =>
           /\ ~Mounted(p) /\ next > 1
           /\ Agree(Coming(u), scopes, handlers)
           /\ \A n \in scopes : next - 1 \notin n.requires
    /\ todo[u] \in {"replace", "drop"} => ~Mounted(p)
    /\ todo[u] = "save" /\ op[u].kind = "remove" => ~Mounted(p)
    /\ todo[u] = "save" /\ TakesBack(u) => Mounted(p) /\ ~Needed(p)

Settled == \A u \in Actors : todo[u] \notin {"list", "unregister"}

\* What was read has a number of this process, and no other manifest gets that number.
Reads ==
    /\ ~up => reading.at = "none" /\ \A p \in Packages : known[p] = None
    /\ reading.at # "none" =>
           /\ reading.id \in Packages
           /\ 0 < reading.scope /\ reading.scope < next
           /\ reading.manifest # None /\ entries[reading.id].scope = reading.scope =>
                  entries[reading.id].manifest = reading.manifest
    /\ \A p \in Packages : known[p] # None =>
           /\ active[p] < next
           /\ entries[p].scope = active[p] /\ active[p] # 0 => entries[p].manifest = known[p]
    /\ \A u \in Actors : todo[u] = "list" =>
           /\ reading.at # "none" /\ reading.id = op[u].id => reading.scope # next - 1
           /\ known[op[u].id] # None => active[op[u].id] # next - 1

Registry ==
    /\ \A u \in Actors : Asked(u) /\ Midway(u)
    /\ Settled => Agree(entries, scopes, handlers)

IInv == TypeOK /\ Numbers /\ Lock /\ Registry /\ Reads

-----------------------------------------------------------------------------
(* Manifests and values *)

LEMMA ManifestsAre ==
    /\ \A m \in AnyManifest : m.tools \subseteq Tools /\ m.inject \subseteq Packages
    /\ None \notin AnyManifest /\ Gone \notin AnyManifest /\ None # Gone
    /\ None \notin Packages /\ Remotes \subseteq Packages /\ Skills \subseteq Packages
    /\ Startup \in Actors /\ Requests \subseteq Actors /\ Startup \notin Requests
  BY PackagesAssumption DEF AnyManifest, Actors

LEMMA NothingTypes ==
    /\ Absent \in Entries /\ NoOp \in Ops /\ NotReading \in Reading
    /\ NoEntries \in [Packages -> Entries] /\ NoHandlers \in [Tools -> Nat]
  <1>1. Absent \in Entries
    BY DEF Absent, Entries
  <1>2. NoOp \in Ops
    BY <1>1 DEF NoOp, Ops, Kinds
  <1> QED
    BY <1>1, <1>2 DEF NotReading, Reading, NoEntries, NoHandlers

LEMMA StepsAndWaits == Steps \cap Waits = {}
  BY DEF Steps, Waits

\* Nothing agrees with nothing.
LEMMA NothingAgrees == Agree(NoEntries, {}, NoHandlers)
  BY DEF Agree, NoEntries, NoHandlers, Absent

-----------------------------------------------------------------------------
(* What changes of one package do to the agreement of all *)

\* An entry that is not enabled may be replaced by another that is not.
LEMMA ListedAnew ==
    ASSUME NEW e, e \in [Packages -> Entries], NEW s, NEW h, Agree(e, s, h),
           \A n \in s : n.id \in Packages /\ n.scope # 0,
           NEW p \in Packages, e[p].scope = 0, NEW m,
           NEW f, f = [e EXCEPT ![p] = [manifest |-> m, scope |-> 0]]
    PROVE  Agree(f, s, h)
  <1>1. \A q \in Packages : f[q].scope = e[q].scope /\ (q # p => f[q] = e[q])
    OBVIOUS
  <1> QED
    BY <1>1 DEF Agree

\* A mount, of a package p that has no scope, under the manifest m and the number x.
MountOf(p, m, x, e, s, h, f, s2, h2) ==
    /\ e \in [Packages -> Entries] /\ h \in [Tools -> Nat]
    /\ \A n \in s : n.id \in Packages /\ n.id # p
    /\ p \in Packages /\ m \in AnyManifest /\ x \in Nat \ {0}
    /\ \A q \in Packages \ {p} : e[q].manifest # None => e[q].manifest.tools \cap m.tools = {}
    /\ \A t \in m.tools : h[t] = 0
    /\ f = [e EXCEPT ![p] = [manifest |-> m, scope |-> x]]
    /\ \E r : /\ \A i \in r : \E k \in s : k.scope = i
              /\ s2 = s \cup {[scope |-> x, id |-> p, requires |-> r]}
    /\ h2 = [t \in Tools |-> IF t \in m.tools THEN x ELSE h[t]]

LEMMA MountAgrees ==
    ASSUME NEW p, NEW m, NEW x, NEW e, NEW s, NEW h, NEW f, NEW s2, NEW h2,
           Agree(e, s, h), MountOf(p, m, x, e, s, h, f, s2, h2)
    PROVE  Agree(f, s2, h2)
  <1> /\ e \in [Packages -> Entries] /\ h \in [Tools -> Nat]
      /\ \A n \in s : n.id \in Packages /\ n.id # p
      /\ p \in Packages /\ m \in AnyManifest /\ x \in Nat \ {0}
      /\ \A q \in Packages \ {p} : e[q].manifest # None => e[q].manifest.tools \cap m.tools = {}
      /\ \A t \in m.tools : h[t] = 0
      /\ f = [e EXCEPT ![p] = [manifest |-> m, scope |-> x]]
      /\ h2 = [t \in Tools |-> IF t \in m.tools THEN x ELSE h[t]]
    BY DEF MountOf
  <1>0. PICK r : /\ \A i \in r : \E k \in s : k.scope = i
                 /\ s2 = s \cup {[scope |-> x, id |-> p, requires |-> r]}
    BY DEF MountOf
  <1> USE <1>0
  <1>1. e[p].scope = 0
    BY DEF Agree
  <1>2. f[p] = [manifest |-> m, scope |-> x] /\ \A q \in Packages \ {p} : f[q] = e[q]
    OBVIOUS
  <1>3. m.tools \subseteq Tools /\ m # None
    BY ManifestsAre
  <1>4. \A n \in s2 : f[n.id].scope = n.scope
    BY <1>2 DEF Agree
  <1>5. ASSUME NEW q \in Packages, f[q].scope # 0
        PROVE  /\ f[q].manifest # None
               /\ \E n \in s2 : n.id = q /\ n.scope = f[q].scope
               /\ \A t \in f[q].manifest.tools : h2[t] = f[q].scope
    <2>1. CASE q = p
      <3>1. \A t \in m.tools : h2[t] = x
        BY <1>3
      <3>2. [scope |-> x, id |-> p, requires |-> r] \in s2
        OBVIOUS
      <3> QED
        BY <2>1, <3>1, <3>2, <1>2, <1>3
    <2>2. CASE q # p
      <3>1. /\ e[q].scope # 0 /\ e[q].manifest # None
            /\ e[q].manifest \in AnyManifest
        BY <2>2, <1>2, <1>5 DEF Agree, Entries
      <3>2. e[q].manifest.tools \subseteq Tools /\ e[q].manifest.tools \cap m.tools = {}
        BY <3>1, <2>2, ManifestsAre
      <3> QED
        BY <3>1, <3>2, <2>2, <1>2 DEF Agree
    <2> QED
      BY <2>1, <2>2
  <1>6. ASSUME NEW t \in Tools, h2[t] # 0
        PROVE  \E q \in Packages : f[q].scope # 0 /\ t \in f[q].manifest.tools
    <2>1. CASE t \in m.tools
      BY <2>1, <1>2
    <2>2. CASE t \notin m.tools
      <3>1. PICK q \in Packages : e[q].scope # 0 /\ t \in e[q].manifest.tools
        BY <2>2, <1>6 DEF Agree
      <3> QED
        BY <3>1, <1>1, <1>2
    <2> QED
      BY <2>1, <2>2
  <1>7. \A n \in s2 : \A i \in n.requires : \E k \in s2 : k.scope = i
    BY DEF Agree
  <1> QED
    BY <1>4, <1>5, <1>6, <1>7 DEF Agree

\* An unmount takes away scope and handlers of a package that nothing requires.
UnmountOf(p, x, g, e, s, h, s2, h2) ==
    /\ e \in [Packages -> Entries] /\ h \in [Tools -> Nat]
    /\ \A n \in s : n.id \in Packages /\ n.scope # 0
    /\ \A n, k \in s : n.scope = k.scope => n = k
    /\ p \in Packages /\ x \in Nat \ {0} /\ e[p].scope = 0
    /\ g[p] = [manifest |-> e[p].manifest, scope |-> x]
    /\ \A q \in Packages \ {p} : g[q] = e[q]
    /\ \A n \in s : x \notin n.requires
    /\ s2 = {n \in s : n.id # p}
    /\ h2 = [t \in Tools |-> IF t \in e[p].manifest.tools THEN 0 ELSE h[t]]

LEMMA UnmountAgrees ==
    ASSUME NEW p, NEW x, NEW g, NEW e, NEW s, NEW h, NEW s2, NEW h2,
           Agree(g, s, h), UnmountOf(p, x, g, e, s, h, s2, h2)
    PROVE  Agree(e, s2, h2)
  <1> USE DEF UnmountOf
  <1>1. /\ g[p].scope = x /\ g[p].manifest = e[p].manifest
        /\ \A q \in Packages \ {p} : g[q] = e[q]
    OBVIOUS
  <1>2. Agree(g, s, h)
    OBVIOUS
  <1>3. \A n \in s2 : e[n.id].scope = n.scope
    BY <1>1, <1>2 DEF Agree
  <1>4. PICK n0 \in s : n0.id = p /\ n0.scope = x
    BY <1>1, <1>2 DEF Agree
  <1>5. ASSUME NEW q \in Packages, e[q].scope # 0
        PROVE  /\ e[q].manifest # None
               /\ \E n \in s2 : n.id = q /\ n.scope = e[q].scope
               /\ \A t \in e[q].manifest.tools : h2[t] = e[q].scope
    <2>1. q # p /\ g[q] = e[q]
      BY <1>1, <1>5
    <2>2. PICK n1 \in s : n1.id = q /\ n1.scope = e[q].scope
      BY <1>2, <1>5, <2>1 DEF Agree
    <2>3. e[q].scope # x
      BY <2>1, <2>2, <1>4
    <2>4. e[q].manifest \in AnyManifest /\ e[q].manifest # None
      BY <1>2, <1>5, <2>1 DEF Agree, Entries
    <2>5. \A t \in e[q].manifest.tools : h[t] = e[q].scope /\ t \in Tools
      BY <1>2, <1>5, <2>1, <2>4, ManifestsAre DEF Agree
    <2>6. \A t \in e[p].manifest.tools : h[t] = x
      BY <1>1, <1>2 DEF Agree
    <2>7. \A t \in e[q].manifest.tools : h2[t] = e[q].scope
      BY <2>3, <2>5, <2>6
    <2> QED
      BY <2>1, <2>2, <2>4, <2>7
  <1>6. ASSUME NEW t \in Tools, h2[t] # 0
        PROVE  \E q \in Packages : e[q].scope # 0 /\ t \in e[q].manifest.tools
    <2>1. t \notin e[p].manifest.tools /\ h[t] # 0
      BY <1>6
    <2>2. PICK q \in Packages : g[q].scope # 0 /\ t \in g[q].manifest.tools
      BY <2>1, <1>2 DEF Agree
    <2> QED
      BY <2>1, <2>2, <1>1
  <1>7. \A n \in s2 : \A i \in n.requires : \E k \in s2 : k.scope = i
    <2> SUFFICES ASSUME NEW n \in s2, NEW i \in n.requires PROVE \E k \in s2 : k.scope = i
      OBVIOUS
    <2>1. PICK k \in s : k.scope = i
      BY <1>2 DEF Agree
    <2>2. i # x
      OBVIOUS
    <2>3. k.id # p
      BY <1>1, <1>2, <2>1, <2>2 DEF Agree
    <2> QED
      BY <2>1, <2>3
  <1> QED
    BY <1>3, <1>5, <1>6, <1>7 DEF Agree

-----------------------------------------------------------------------------
(* One actor goes on *)

Moved(u) ==
    /\ todo' \in [Actors -> Waits \cup Steps] /\ op' \in [Actors -> Ops]
    /\ \A v \in Actors \ {u} : todo'[v] = todo[v] /\ op'[v] = op[v]

LEMMA GoMoves ==
    ASSUME TypeOK, NEW u \in Actors, NEW kind \in Kinds, NEW p \in Packages,
           NEW new \in AnyManifest \cup {None, Gone}, NEW step \in Waits \cup Steps,
           Go(u, kind, p, new, step)
    PROVE  /\ Moved(u) /\ todo'[u] = step
           /\ op'[u] = [kind |-> kind, id |-> p, new |-> new, old |-> entries[p], undo |-> FALSE]
  <1>1. entries[p] \in Entries
    BY DEF TypeOK
  <1>2. [kind |-> kind, id |-> p, new |-> new, old |-> entries[p], undo |-> FALSE] \in Ops
    BY <1>1 DEF Ops
  <1> QED
    BY <1>2 DEF TypeOK, Go, Moved

LEMMA EndMoves ==
    ASSUME TypeOK, NEW u \in Actors, End(u)
    PROVE  Moved(u) /\ todo'[u] \in {"none", "done"} /\ op'[u] = NoOp
  BY NothingTypes DEF TypeOK, End, Moved, Waits

LEMMA ThenMoves ==
    ASSUME TypeOK, NEW u \in Actors, NEW step \in Waits \cup Steps, Then(u, step)
    PROVE  Moved(u) /\ todo'[u] = step /\ op'[u] = op[u]
  <1>1. step # "end"
    BY DEF Waits, Steps
  <1> QED
    BY <1>1 DEF TypeOK, Then, Moved

LEMMA RetryMoves ==
    ASSUME TypeOK, NEW u \in Actors, NEW step \in Waits \cup Steps,
           NEW m \in AnyManifest \cup {None, Gone}, Retry(u, step, m)
    PROVE  /\ Moved(u) /\ todo'[u] = step
           /\ op'[u] = [op[u] EXCEPT !.undo = TRUE, !.new = m]
  <1>1. op[u] \in Ops
    BY DEF TypeOK
  <1>2. [op[u] EXCEPT !.undo = TRUE, !.new = m] \in Ops
    BY <1>1 DEF Ops
  <1>3. op' = [op EXCEPT ![u] = [op[u] EXCEPT !.undo = TRUE, !.new = m]]
    BY <1>1 DEF Retry, Ops, TypeOK
  <1> QED
    BY <1>2, <1>3 DEF TypeOK, Retry, Moved

\* Whoever has ended holds nothing.
LEMMA EndedAsksNothing ==
    ASSUME NEW u \in Actors, todo'[u] \in {"none", "done"}, op'[u] = NoOp
    PROVE  Asked(u)' /\ Midway(u)'
  <1>1. todo'[u] \notin Steps \cup {"fetch", "lock"}
    BY DEF Steps
  <1> QED
    BY <1>1 DEF Asked, Midway, NoOp, Renews

LEMMA MidwayAtRest ==
    ASSUME NEW u \in Actors, todo'[u] \notin Steps
    PROVE  Midway(u)'
  BY DEF Midway, Steps

\* An actor without the lock has in hand what it had.
LEMMA OthersAsk ==
    ASSUME NEW v \in Actors, Asked(v), todo'[v] = todo[v], op'[v] = op[v]
    PROVE  Asked(v)'
  BY DEF Asked

LEMMA FreeOrMine ==
    ASSUME TypeOK, Lock, NEW u \in Actors, todo[u] \in Steps \/ Free
    PROVE  \A v \in Actors \ {u} : todo[v] \notin Steps
  BY StepsAndWaits DEF TypeOK, Lock, Free

LEMMA LockKept ==
    ASSUME TypeOK, Lock, NEW u \in Actors, Moved(u), UNCHANGED <<up, loading>>,
           todo'[u] \in Steps => todo[u] \in Steps \/ Free,
           ~up => todo'[u] \in {"none", "done"}
    PROVE  Lock'
  <1>1. \A v, w \in Actors : todo'[v] \in Steps /\ todo'[w] \in Steps => v = w
    <2>1. CASE todo'[u] \in Steps
      BY <2>1, FreeOrMine DEF Moved
    <2>2. CASE todo'[u] \notin Steps
      BY <2>2 DEF Lock, Moved
    <2> QED
      BY <2>1, <2>2
  <1>2. ~up => \A v \in Actors : todo'[v] \in {"none", "done"}
    BY DEF Lock, Moved
  <1> QED
    BY <1>1, <1>2 DEF Lock

\* A step that leaves the host alone.
LEMMA Handed ==
    ASSUME IInv, NEW u \in Actors, Moved(u), UNCHANGED <<files, host, talk, up, loading>>,
           todo'[u] \in Steps => todo[u] \in Steps \/ Free,
           ~up => todo'[u] \in {"none", "done"},
           todo[u] \notin {"list", "unregister"}, todo'[u] \notin {"list", "unregister"},
           Asked(u)', Midway(u)'
    PROVE  IInv'
  <1> USE DEF host, talk
  <1>1. TypeOK'
    BY DEF IInv, TypeOK, Moved, files
  <1>2. Numbers'
    BY DEF IInv, Numbers
  <1>3. Lock'
    BY LockKept DEF IInv
  <1>4. \A v \in Actors : Asked(v)' /\ Midway(v)'
    <2> SUFFICES ASSUME NEW v \in Actors, v # u PROVE Asked(v)' /\ Midway(v)'
      OBVIOUS
    <2>1. Asked(v) /\ Midway(v) /\ todo'[v] = todo[v] /\ op'[v] = op[v]
      BY DEF IInv, Registry, Moved
    <2>2. Asked(v)'
      BY <2>1, OthersAsk
    <2>3. Coming(v)' = Coming(v) /\ \A x \in Nat : Leaving(v, x)' = Leaving(v, x)
      BY <2>1 DEF Coming, Leaving
    <2>4. Midway(v)'
      BY <2>1, <2>3 DEF Midway, Mounted, Needed, TakesBack
    <2> QED
      BY <2>2, <2>4
  <1>5. Settled' => Settled
    BY DEF Settled, Moved
  <1>6. Registry'
    BY <1>4, <1>5 DEF IInv, Registry
  <1>7. Reads'
    <2>1. \A v \in Actors : todo'[v] = "list" => v # u /\ todo[v] = "list" /\ op'[v] = op[v]
      BY DEF Moved
    <2> QED
      BY <2>1 DEF IInv, Reads
  <1> QED
    BY <1>1, <1>2, <1>3, <1>6, <1>7 DEF IInv

\* A change of the host, by the holder of the lock.
LEMMA Changed ==
    ASSUME IInv, NEW u \in Actors, todo[u] \in Steps, up, Moved(u),
           UNCHANGED <<files, talk, up, loading>>,
           entries' \in [Packages -> Entries], handlers' \in [Tools -> Nat],
           scopes' \subseteq [scope : Nat, id : Packages, requires : SUBSET Nat],
           next' \in Nat \ {0}, next <= next',
           Numbers', Asked(u)', Midway(u)',
           todo'[u] \notin {"list", "unregister"} => Agree(entries, scopes, handlers)',
           \A p \in Packages :
               \/ entries'[p] = entries[p] \/ entries'[p].scope = 0
               \/ todo[u] = "list" /\ p = op[u].id /\ entries'[p].scope = next - 1,
           todo'[u] = "list" => next' - 1 = next
    PROVE  IInv'
  <1> USE DEF talk
  <1>1. TypeOK'
    BY DEF IInv, TypeOK, Moved, files
  <1>2. Lock'
    BY LockKept DEF IInv
  <1>3. \A v \in Actors \ {u} : todo'[v] \notin Steps
    BY FreeOrMine DEF IInv, Moved
  <1>4. \A v \in Actors : Asked(v)' /\ Midway(v)'
    <2> SUFFICES ASSUME NEW v \in Actors, v # u PROVE Asked(v)' /\ Midway(v)'
      OBVIOUS
    <2>1. Asked(v) /\ todo'[v] = todo[v] /\ op'[v] = op[v]
      BY DEF IInv, Registry, Moved
    <2> QED
      BY <2>1, <1>3, OthersAsk, MidwayAtRest
  <1>5. Registry'
    BY <1>4 DEF Registry, Settled
  <1>6. Reads'
    <2>1. ASSUME reading.at # "none", reading.manifest # None,
                 entries'[reading.id].scope = reading.scope
          PROVE  entries'[reading.id].manifest = reading.manifest
      BY <2>1 DEF IInv, Reads
    <2>2. ASSUME NEW p \in Packages, known[p] # None, entries'[p].scope = active[p], active[p] # 0
          PROVE  entries'[p].manifest = known[p]
      BY <2>2 DEF IInv, Reads
    <2>3. \A v \in Actors : todo'[v] = "list" => v = u
      BY <1>3 DEF Steps
    <2>4. next \in Nat /\ next' \in Nat /\ active \in [Packages -> Nat] /\ reading.scope \in Nat
      BY DEF IInv, TypeOK, Reading
    <2>5. ASSUME todo'[u] = "list"
          PROVE  /\ reading.at # "none" => reading.scope # next' - 1
                 /\ known[op'[u].id] # None => active[op'[u].id] # next' - 1
      <3>1. op'[u].id \in Packages
        BY <2>5 DEF Asked, Steps
      <3>2. next' - 1 = next
        BY <2>5
      <3>3. reading.at # "none" => reading.scope < next
        BY DEF IInv, Reads
      <3>4. known[op'[u].id] # None => active[op'[u].id] < next
        BY <3>1 DEF IInv, Reads
      <3>5. active[op'[u].id] \in Nat
        BY <2>4, <3>1
      <3>6. reading.at # "none" => reading.scope # next' - 1
        <4>1. reading.scope \in Nat /\ next \in Nat
          BY <2>4
        <4>2. reading.scope < next => reading.scope # next
          BY <4>1
        <4> QED
          BY <3>2, <3>3, <4>2
      <3>7. known[op'[u].id] # None => active[op'[u].id] # next' - 1
        <4>1. PICK x \in Nat : x = active[op'[u].id]
          BY <3>5, Zenon
        <4>2. next \in Nat
          BY <2>4
        <4>3. x < next => x # next
          BY <4>2
        <4> QED
          BY <3>2, <3>4, <4>1, <4>3
      <3> QED
        BY <3>6, <3>7
    <2>6. reading.at # "none" => /\ reading.id \in Packages
                                 /\ 0 < reading.scope /\ reading.scope < next'
      BY <2>4 DEF IInv, Reads
    <2>7. \A p \in Packages : known[p] # None => active[p] < next'
      BY <2>4 DEF IInv, Reads
    <2> QED
      BY <2>1, <2>2, <2>3, <2>5, <2>6, <2>7 DEF Reads
  <1> QED
    BY <1>1, <1>2, <1>5, <1>6 DEF IInv

\* While somebody is at a step that is not between the halves of a change, or nobody
\* has the lock, the registry agrees.
LEMMA AgreesNow ==
    ASSUME IInv, NEW u \in Actors, todo[u] \in Steps \/ Free, todo[u] \notin {"list", "unregister"}
    PROVE  Agree(entries, scopes, handlers)
  <1>1. Settled
    BY FreeOrMine DEF IInv, Settled, Steps
  <1> QED
    BY <1>1 DEF IInv, Registry

LEMMA TypesNow ==
    ASSUME IInv
    PROVE  /\ entries \in [Packages -> Entries] /\ handlers \in [Tools -> Nat]
           /\ next \in Nat \ {0}
           /\ scopes \subseteq [scope : Nat, id : Packages, requires : SUBSET Nat]
           /\ \A p \in Packages : /\ entries[p].manifest \in AnyManifest \cup {None}
                                  /\ entries[p].scope \in Nat
           /\ \A n \in scopes : /\ n.id \in Packages /\ n.scope \in Nat \ {0} /\ n.scope < next
                                /\ n.requires \subseteq Nat
           /\ \A u \in Actors : /\ todo[u] \in Waits \cup Steps /\ op[u] \in Ops
                                /\ op[u].new \in AnyManifest \cup {None, Gone}
                                /\ op[u].old.manifest \in AnyManifest \cup {None}
                                /\ op[u].kind \in Kinds
  <1>1. TypeOK /\ Numbers
    BY DEF IInv
  <1> QED
    BY <1>1 DEF TypeOK, Entries, Ops, Numbers

LEMMA NobodyAtWork ==
    ASSUME Lock, ~up
    PROVE  /\ \A u \in Actors : todo[u] \in {"none", "done"} /\ todo[u] \notin Steps
           /\ Settled
  BY DEF Lock, Settled, Steps

-----------------------------------------------------------------------------
(* The process *)

LEMMA InitHolds ==
    ASSUME Init
    PROVE  IInv
  <1>1. /\ disk \in [Packages -> AnyManifest \cup {None, Gone}]
        /\ skill \in [Packages -> AnyManifest]
    BY DEF Init, AnyManifest
  <1>2. TypeOK
    <2>1. /\ todo \in [Actors -> Waits \cup Steps] /\ op \in [Actors -> Ops]
          /\ entries \in [Packages -> Entries] /\ handlers \in [Tools -> Nat]
      BY NothingTypes DEF Init, Waits
    <2>2. /\ active \in [Packages -> Nat] /\ known \in [Packages -> AnyManifest \cup {None}]
          /\ reading \in Reading
      BY NothingTypes DEF Init
    <2>3. scopes = {} /\ next \in Nat \ {0}
      BY DEF Init
    <2>4. up \in BOOLEAN
      BY DEF Init
    <2> QED
      BY <1>1, <2>1, <2>2, <2>3, <2>4 DEF TypeOK
  <1>3. Numbers /\ Lock
    BY DEF Init, Numbers, Lock, NoEntries, Absent, Steps
  <1>4. \A u \in Actors : Asked(u) /\ Midway(u)
    BY DEF Init, Asked, Midway, NoOp, Steps, Renews
  <1>5. Registry
    BY <1>4, NothingAgrees DEF Init, Registry
  <1>6. Reads
    BY DEF Init, Reads, NotReading
  <1> QED
    BY <1>2, <1>3, <1>5, <1>6 DEF IInv

\* A step that touches neither actors nor host.
LEMMA Elsewhere ==
    ASSUME IInv, UNCHANGED <<host, loading, up, todo, op, talk>>,
           disk' \in [Packages -> AnyManifest \cup {None, Gone}],
           skill' \in [Packages -> AnyManifest]
    PROVE  IInv'
  <1> USE DEF host, talk
  <1>1. TypeOK' /\ Numbers' /\ Lock' /\ Reads'
    BY DEF IInv, TypeOK, Numbers, Lock, Reads
  <1>2. \A u \in Actors : Asked(u)' /\ Midway(u)'
    <2> TAKE u \in Actors
    <2>1. Asked(u) /\ Midway(u)
      BY DEF IInv, Registry
    <2>2. Coming(u)' = Coming(u) /\ \A x \in Nat : Leaving(u, x)' = Leaving(u, x)
      BY DEF Coming, Leaving
    <2> QED
      BY <2>1, <2>2 DEF Asked, Midway, Mounted, Needed, TakesBack
  <1> QED
    BY <1>1, <1>2 DEF IInv, Registry, Settled

\* The host is another, nobody is at work and nothing is being read.
LEMMA HostAnew ==
    ASSUME IInv, ~up, UNCHANGED <<files, up, todo, op, talk>>,
           Numbers', Agree(entries, scopes, handlers)',
           entries' \in [Packages -> Entries], handlers' \in [Tools -> Nat],
           scopes' \subseteq [scope : Nat, id : Packages, requires : SUBSET Nat],
           next' \in Nat \ {0}
    PROVE  IInv'
  <1> USE DEF talk
  <1>1. TypeOK' /\ Lock'
    BY DEF IInv, TypeOK, Lock, files
  <1>2. \A u \in Actors : todo'[u] \in {"none", "done"} /\ todo'[u] \notin Steps
    BY NobodyAtWork DEF IInv
  <1>3. \A u \in Actors : Asked(u)' /\ Midway(u)'
    BY <1>2, OthersAsk, MidwayAtRest DEF IInv, Registry
  <1>4. Reads'
    BY <1>2 DEF IInv, Reads
  <1> QED
    BY <1>1, <1>3, <1>4 DEF IInv, Registry

LEMMA CrashHolds ==
    ASSUME IInv, Crash
    PROVE  IInv'
  <1>1. /\ entries' = NoEntries /\ scopes' = {} /\ next' = 1 /\ handlers' = NoHandlers
        /\ up' = FALSE /\ reading' = NotReading /\ known' = [p \in Packages |-> None]
        /\ \A u \in Actors : todo'[u] \in {"none", "done"} /\ op'[u] = NoOp
    BY DEF Crash, Forget
  <1>2. TypeOK'
    <2>1. /\ todo' \in [Actors -> Waits \cup Steps] /\ op' \in [Actors -> Ops]
      BY NothingTypes DEF Crash, Waits
    <2>2. /\ entries' \in [Packages -> Entries] /\ handlers' \in [Tools -> Nat]
          /\ known' \in [Packages -> AnyManifest \cup {None}] /\ reading' \in Reading
      BY <1>1, NothingTypes
    <2>3. disk' = disk /\ skill' = skill /\ active' = active
      BY DEF Crash, files
    <2>4. up' \in BOOLEAN
      BY <1>1
    <2>5. scopes' = {} /\ next' \in Nat \ {0}
      BY <1>1
    <2> QED
      BY <2>1, <2>2, <2>3, <2>4, <2>5 DEF IInv, TypeOK
  <1>3. Numbers' /\ Lock'
    BY <1>1 DEF Numbers, Lock, NoEntries, Absent, Steps
  <1>4. Registry'
    BY <1>1, EndedAsksNothing, NothingAgrees DEF Registry
  <1>5. Reads'
    BY <1>1 DEF Reads, NotReading
  <1> QED
    BY <1>2, <1>3, <1>4, <1>5 DEF IInv

LEMMA BeginHolds ==
    ASSUME IInv, Begin
    PROVE  IInv'
  <1>1. Agree(entries, scopes, handlers)
    BY NobodyAtWork DEF IInv, Registry, Begin
  <1> QED
    BY <1>1, TypesNow, HostAnew DEF IInv, Begin, host, talk, Numbers

LEMMA ServeHolds ==
    ASSUME IInv, Serve
    PROVE  IInv'
  <1>1. ~up /\ up' = TRUE /\ loading' = None
    BY DEF Serve
  <1>2. /\ UNCHANGED <<host, talk, files, op>>
        /\ todo' = [todo EXCEPT ![Startup] = "settings"]
    BY DEF Serve
  <1>3. \A u \in Actors : todo'[u] \in Waits /\ todo'[u] \notin Steps
                          /\ todo'[u] \notin {"fetch", "lock"}
    BY <1>1, <1>2, NobodyAtWork DEF IInv, TypeOK, Waits, Steps
  <1>4. TypeOK'
    <2>1. todo' \in [Actors -> Waits \cup Steps] /\ op' = op
      BY <1>2 DEF IInv, TypeOK, Waits
    <2>2. up' \in BOOLEAN
      BY <1>1
    <2> QED
      BY <1>2, <2>1, <2>2 DEF IInv, TypeOK, host, talk, files
  <1>5. Numbers' /\ Lock'
    BY <1>1, <1>2, <1>3 DEF IInv, Numbers, Lock, host
  <1>6. \A u \in Actors : Asked(u)' /\ Midway(u)'
    <2> TAKE u \in Actors
    <2>1. Asked(u) /\ op'[u] = op[u]
      BY <1>2 DEF IInv, Registry
    <2> QED
      BY <2>1, <1>3, MidwayAtRest DEF Asked, Steps
  <1>7. Registry'
    BY <1>1, <1>2, <1>6, NobodyAtWork DEF IInv, Registry, host
  <1>8. Reads'
    BY <1>1, <1>2, <1>3 DEF IInv, Reads, host, talk, Steps
  <1> QED
    BY <1>4, <1>5, <1>7, <1>8 DEF IInv

\* A mount under the next number, wherever it happens.
LEMMA Registered ==
    ASSUME IInv, Agree(entries, scopes, handlers), NEW p \in Packages, NEW m \in AnyManifest,
           Mountable(p, m), Register(p, m)
    PROVE  /\ entries[p].scope = 0
           /\ next' = next + 1 /\ handlers' \in [Tools -> Nat]
           /\ scopes' \subseteq [scope : Nat, id : Packages, requires : SUBSET Nat]
           /\ \A n \in scopes' : 0 < n.scope /\ n.scope < next' /\ next \notin n.requires
           /\ \A n, k \in scopes' : n.scope = k.scope => n = k
           /\ Agree([entries EXCEPT ![p] = [manifest |-> m, scope |-> next]], scopes', handlers')
  <1> DEFINE r == UNION {ScopesOf(q) : q \in m.inject}
             new == [scope |-> next, id |-> p, requires |-> r]
             f == [entries EXCEPT ![p] = [manifest |-> m, scope |-> next]]
  <1>1. /\ next' = next + 1 /\ scopes' = scopes \cup {new}
        /\ handlers' = [t \in Tools |-> IF t \in m.tools THEN next ELSE handlers[t]]
    BY DEF Register
  <1>2. \A i \in r : \E k \in scopes : k.scope = i
    BY DEF ScopesOf
  <1>3. \A n \in scopes : n.id # p
    BY DEF Mountable, Provided, ScopesOf
  <1>4. r \subseteq Nat /\ \A i \in r : i < next
    BY <1>2, TypesNow
  <1>5. \A n \in scopes : next \notin n.requires
    BY TypesNow DEF Agree
  <1>6. /\ \A q \in Packages \ {p} : entries[q].manifest # None =>
                                         entries[q].manifest.tools \cap m.tools = {}
        /\ \A t \in m.tools : handlers[t] = 0
    BY ManifestsAre DEF Mountable, Startable, Listed, Handled
  <1> HIDE DEF r
  <1>7. Agree(f, scopes', handlers')
    <2>1. \A n \in scopes : n.id \in Packages
      BY TypesNow
    <2>2. \E i : (\A j \in i : \E k \in scopes : k.scope = j)
                 /\ scopes' = scopes \cup {[scope |-> next, id |-> p, requires |-> i]}
      BY <1>1, <1>2
    <2>3. MountOf(p, m, next, entries, scopes, handlers, f, scopes', handlers')
      BY <1>1, <1>3, <1>6, <2>1, <2>2, TypesNow DEF MountOf
    <2> QED
      BY <2>3, MountAgrees
  <1>8. entries[p].scope = 0
    BY <1>3 DEF Agree
  <1>9. handlers' \in [Tools -> Nat]
    BY <1>1, TypesNow
  <1>10. scopes' \subseteq [scope : Nat, id : Packages, requires : SUBSET Nat]
    BY <1>1, <1>4, TypesNow
  <1>11. \A n \in scopes' : 0 < n.scope /\ n.scope < next' /\ next \notin n.requires
    BY <1>1, <1>4, <1>5, TypesNow
  <1>12. \A n, k \in scopes' : n.scope = k.scope => n = k
    BY <1>1, TypesNow DEF IInv, Numbers
  <1> QED
    BY <1>1, <1>7, <1>8, <1>9, <1>10, <1>11, <1>12

LEMMA LoadHolds ==
    ASSUME IInv, NEW p \in Packages, Load(p)
    PROVE  IInv'
  <1> DEFINE m == disk[p]
  <1>1. /\ ~up /\ UNCHANGED <<files, up, todo, op, talk>>
    BY DEF Load, IInv, Lock
  <1>2. Agree(entries, scopes, handlers)
    BY <1>1, NobodyAtWork DEF IInv, Registry
  <1>3. Usable(m) => m \in AnyManifest
    BY DEF IInv, TypeOK, Usable
  <1>4. CASE UNCHANGED host
    BY <1>1, <1>2, <1>4, TypesNow, HostAnew DEF host, IInv, Numbers
  <1>5. CASE /\ Usable(m) /\ Enter(p, m, 0) /\ p \notin Listed
             /\ UNCHANGED <<scopes, next, handlers>>
    <2>1. entries' = [entries EXCEPT ![p] = [manifest |-> m, scope |-> 0]]
      BY <1>5 DEF Enter
    <2>2. Agree(entries', scopes, handlers)
      <3>1. entries[p].scope = 0
        BY <1>2, <1>5 DEF Agree, Listed
      <3> QED
        BY <1>2, <2>1, <3>1, TypesNow, ListedAnew
    <2>3. entries' \in [Packages -> Entries]
      BY <1>3, <1>5, <2>1, TypesNow DEF Entries
    <2>4. Numbers'
      BY <1>5, <2>1, TypesNow DEF IInv, Numbers
    <2> QED
      BY <1>1, <1>5, <2>2, <2>3, <2>4, TypesNow, HostAnew
  <1>6. CASE Usable(m) /\ Mountable(p, m) /\ Register(p, m) /\ Enter(p, m, next)
    <2>1. entries' = [entries EXCEPT ![p] = [manifest |-> m, scope |-> next]]
      BY <1>6 DEF Enter
    <2> HIDE DEF m
    <2>2. /\ next' = next + 1 /\ handlers' \in [Tools -> Nat]
          /\ scopes' \subseteq [scope : Nat, id : Packages, requires : SUBSET Nat]
          /\ \A n \in scopes' : 0 < n.scope /\ n.scope < next'
          /\ \A n, k \in scopes' : n.scope = k.scope => n = k
          /\ Agree(entries', scopes', handlers')
      BY <1>2, <1>3, <1>6, <2>1, Registered
    <2>3. entries' \in [Packages -> Entries]
      BY <1>3, <1>6, <2>1, TypesNow DEF Entries
    <2>4. Numbers'
      BY <2>1, <2>2, TypesNow DEF IInv, Numbers
    <2>5. next' \in Nat \ {0}
      BY <2>2, TypesNow
    <2> QED
      BY <1>1, <2>2, <2>3, <2>4, <2>5, HostAnew
  <1>7. CASE Forget
    BY <1>1, <1>7, NothingTypes, NothingAgrees, HostAnew DEF Forget, Numbers, NoEntries, Absent
  <1> QED
    BY <1>4, <1>5, <1>6, <1>7 DEF Load

-----------------------------------------------------------------------------
(* The operations up to their first change *)

\* An operation has been asked for: it works on package p, in the state it is in.
LEMMA Asking ==
    ASSUME IInv, NEW u \in Actors, NEW p \in Packages, NEW kind \in Kinds \ {"none"},
           NEW new \in AnyManifest \cup {None, Gone},
           NEW step \in {"fetch", "unlist", "replace", "register", "save"},
           up, Go(u, kind, p, new, step), UNCHANGED <<files, host, talk, up, loading>>,
           todo[u] \in Waits, step # "fetch" => Free,
           step = "fetch" => kind \in {"connect", "user", "restore", "reconnect", "turn_on"},
           step \in {"replace", "register"} \/ (step = "unlist" /\ kind \in Renews) =>
               new \in AnyManifest,
           kind \in Renews \cup {"remove", "disable"} => p \in Listed,
           step = "unlist" => Mounted(p) /\ Removable(p),
           step = "replace" \/ (step = "save" /\ kind = "remove") => ~Mounted(p),
           step = "save" => kind \notin Creates /\ (kind = "enable" => Mounted(p))
    PROVE  IInv'
  <1> USE DEF host
  <1>1. step \in Waits \cup Steps /\ todo[u] \notin {"list", "unregister"}
        /\ step \notin {"list", "unregister"}
    BY DEF Waits, Steps
  <1>2. /\ Moved(u) /\ todo'[u] = step
        /\ op'[u] = [kind |-> kind, id |-> p, new |-> new, old |-> entries[p], undo |-> FALSE]
    BY <1>1, GoMoves DEF IInv
  <1>3. Asked(u)'
    <2>1. p \in Listed => entries[p].manifest \in AnyManifest
      BY TypesNow DEF Listed
    <2> QED
      BY <1>2, <2>1 DEF Asked, Steps, Renews
  <1>4. Midway(u)'
    <2>1. Mounted(p)' = Mounted(p) /\ Needed(p)' = Needed(p)
      BY DEF Mounted, Needed
    <2> QED
      BY <1>2, <2>1 DEF Midway, Mounted, Needed, Removable, Creates, TakesBack
  <1>5. todo'[u] \in Steps => Free
    BY <1>2 DEF Steps
  <1> QED
    BY <1>1, <1>2, <1>3, <1>4, <1>5, Handed

\* An operation ends.
LEMMA Ending ==
    ASSUME IInv, NEW u \in Actors, End(u), UNCHANGED <<files, host, talk, up, loading>>,
           todo[u] \notin {"list", "unregister"}
    PROVE  IInv'
  <1>1. Moved(u) /\ todo'[u] \in {"none", "done"} /\ op'[u] = NoOp
    BY EndMoves DEF IInv
  <1>2. Asked(u)' /\ Midway(u)'
    BY <1>1, EndedAsksNothing
  <1> QED
    BY <1>1, <1>2, Handed DEF Steps

\* The next step of an operation that leaves the host alone.
LEMMA GoingOn ==
    ASSUME IInv, NEW u \in Actors, Moved(u), op'[u] = op[u], Asked(u),
           UNCHANGED <<files, host, talk, up, loading>>, up,
           todo'[u] \in {"register", "unlist", "replace", "drop", "again"},
           todo[u] \in Steps \/ Free, todo[u] \notin {"list", "unregister"},
           todo'[u] # "again" => op[u].id \in Packages,
           todo'[u] \in {"register", "unlist", "replace"} => op[u].new \in AnyManifest,
           todo'[u] = "unlist" => Mounted(op[u].id) /\ Removable(op[u].id),
           todo'[u] \in {"replace", "drop"} => ~Mounted(op[u].id)
    PROVE  IInv'
  <1> USE DEF host
  <1>1. Asked(u)'
    BY DEF Asked, Steps
  <1>2. Midway(u)'
    BY DEF Midway, Mounted, Needed, Removable
  <1> QED
    BY <1>1, <1>2, Handed

LEMMA IdleIs ==
    ASSUME NEW u, Idle(u)
    PROVE  up /\ u \in Requests /\ u \in Actors /\ todo[u] = "none" /\ todo[u] \in Waits
  BY ManifestsAre DEF Idle, Waits

LEMMA OthersStay == others' = others => UNCHANGED <<files, talk, up, loading>>
  BY DEF others

LEMMA DiskIs ==
    ASSUME IInv, NEW p \in Packages
    PROVE  /\ disk[p] \in AnyManifest \cup {None, Gone}
           /\ Usable(disk[p]) => disk[p] \in AnyManifest
  BY DEF IInv, TypeOK, Usable

LEMMA RequestHolds ==
    ASSUME IInv, NEW u \in Requests, NEW p \in Packages, Request(u, p)
    PROVE  IInv'
  <1> USE DEF host
  <1>1. CASE Install(u, p)
    BY <1>1, IdleIs, OthersStay, DiskIs, Asking DEF Install, Kinds, Renews
  <1>2. CASE Reload(u, p)
    <2>1. CASE Mounted(p)
      BY <1>2, <2>1, IdleIs, OthersStay, DiskIs, Asking DEF Reload, Kinds, Renews
    <2>2. CASE ~Mounted(p)
      BY <1>2, <2>2, IdleIs, OthersStay, DiskIs, Asking DEF Reload, Kinds, Renews
    <2> QED
      BY <2>1, <2>2
  <1>3. CASE Uninstall(u, p)
    <2>1. CASE Mounted(p)
      BY <1>3, <2>1, IdleIs, OthersStay, Asking DEF Uninstall, Kinds, Renews
    <2>2. CASE ~Mounted(p)
      BY <1>3, <2>2, IdleIs, OthersStay, Asking DEF Uninstall, Kinds, Creates, Renews
    <2> QED
      BY <2>1, <2>2
  <1>4. CASE Enable(u, p)
    <2>1. up /\ Free /\ UNCHANGED <<files, host, talk, up, loading>> /\ p \in Listed
      BY <1>4, OthersStay DEF Enable, Free
    <2>2. u \in Actors /\ todo[u] \in Waits
      BY <1>4, IdleIs, ManifestsAre DEF Enable, Waits
    <2>3. Current(p) \in AnyManifest \cup {None, Gone}
      BY DiskIs, TypesNow DEF Current
    <2>4. CASE Mounted(p)
      <3>1. Go(u, "enable", p, Current(p), "save")
        BY <1>4, <2>4 DEF Enable
      <3> QED
        BY <2>1, <2>2, <2>3, <2>4, <3>1, Asking DEF Kinds, Creates, Renews
    <2>5. CASE ~Mounted(p)
      <3>1. Go(u, "enable", p, Current(p), "register") /\ Current(p) \in AnyManifest
        BY <1>4, <2>3, <2>5 DEF Enable, Usable
      <3> QED
        BY <2>1, <2>2, <2>5, <3>1, Asking DEF Kinds, Renews
    <2> QED
      BY <2>4, <2>5
  <1>5. CASE Disable(u, p)
    <2>1. CASE Mounted(p)
      BY <1>5, <2>1, IdleIs, OthersStay, Asking DEF Disable, Kinds, Renews
    <2>2. CASE ~Mounted(p)
      BY <1>5, <2>2, IdleIs, OthersStay, Asking DEF Disable, Kinds, Creates, Renews
    <2> QED
      BY <2>1, <2>2
  <1>6. CASE Connect(u, p)
    <2>1. PICK kind \in {"connect", "user", "reconnect", "turn_on"} :
              Go(u, kind, p, None, "fetch") /\ (kind \in Renews => p \in Listed)
      BY <1>6 DEF Connect, Renews
    <2> QED
      BY <1>6, <2>1, IdleIs, OthersStay, Asking DEF Connect, Kinds, Renews
  <1> QED
    BY <1>1, <1>2, <1>3, <1>4, <1>5, <1>6 DEF Request

LEMMA FetchHolds ==
    ASSUME IInv, NEW u \in Actors, Fetch(u)
    PROVE  IInv'
  <1> USE DEF host
  <1>1. /\ todo[u] = "fetch" /\ UNCHANGED <<files, host, talk, up, loading>> /\ up
    BY OthersStay DEF Fetch, IInv, Lock
  <1>2. CASE End(u)
    BY <1>1, <1>2, Ending
  <1>3. CASE /\ Usable(disk[op[u].id])
             /\ op' = [op EXCEPT ![u].new = disk[op[u].id]]
             /\ todo' = [todo EXCEPT ![u] = "lock"]
    <2>1. op[u] \in Ops /\ op[u].id \in Packages /\ Asked(u)
      BY <1>1 DEF IInv, TypeOK, Registry, Asked
    <2>2. disk[op[u].id] \in AnyManifest
      BY <1>3, <2>1, DiskIs
    <2>3. op'[u] = [op[u] EXCEPT !.new = disk[op[u].id]] /\ op'[u] \in Ops
      BY <1>3, <2>1, <2>2 DEF IInv, TypeOK, Ops
    <2>4. Moved(u) /\ todo'[u] = "lock"
      BY <1>3, <2>3 DEF Moved, IInv, TypeOK, Waits
    <2>5. todo'[u] \notin Steps
      BY <2>4 DEF Steps
    <2>6. /\ op'[u].kind = op[u].kind /\ op'[u].id = op[u].id
          /\ op'[u].old = op[u].old /\ op'[u].new = disk[op[u].id]
      BY <2>1, <2>3 DEF Ops
    <2>7. Asked(u)'
      BY <1>1, <2>1, <2>2, <2>4, <2>5, <2>6 DEF Asked
    <2>8. Midway(u)'
      BY <2>5, MidwayAtRest
    <2> QED
      BY <1>1, <2>4, <2>5, <2>7, <2>8, Handed
  <1> QED
    BY <1>2, <1>3 DEF Fetch

LEMMA AdoptHolds ==
    ASSUME IInv, NEW u \in Actors, Adopt(u)
    PROVE  IInv'
  <1>1. /\ Free /\ up /\ todo[u] = "lock" /\ UNCHANGED <<files, host, talk, up, loading>>
    BY OthersStay DEF Adopt, Free
  <1>2. Asked(u) /\ op[u].id \in Packages /\ op[u].new \in AnyManifest
    BY <1>1 DEF IInv, Registry, Asked
  <1>3. CASE End(u)
    BY <1>1, <1>3, Ending
  <1>4. ASSUME NEW step \in {"register", "unlist", "replace"}, op' = op,
               todo' = [todo EXCEPT ![u] = step],
               step = "unlist" => Mounted(op[u].id) /\ Removable(op[u].id),
               step = "replace" => ~Mounted(op[u].id)
        PROVE  IInv'
    <2>1. step \in Steps
      BY DEF Steps
    <2>2. Moved(u) /\ todo'[u] = step /\ op'[u] = op[u]
      BY <1>4, <2>1 DEF Moved, IInv, TypeOK
    <2> QED
      BY <1>1, <1>2, <1>4, <2>2, GoingOn
  <1> QED
    BY <1>1, <1>3, <1>4 DEF Adopt, SameAsBefore, Mounted

LEMMA RestoreHolds ==
    ASSUME IInv, ReadSettings \/ Quieten \/ \E p \in Remotes : ConnectNext(p)
    PROVE  IInv'
  <1> USE ManifestsAre DEF host
  <1>1. CASE ReadSettings
    <2>1. /\ up /\ todo[Startup] = "settings" /\ UNCHANGED <<files, host, talk, up, loading, op>>
          /\ todo' = [todo EXCEPT ![Startup] = "none"]
      BY <1>1, OthersStay DEF ReadSettings
    <2>2. Moved(Startup) /\ todo'[Startup] = "none"
      BY <2>1 DEF Moved, IInv, TypeOK, Waits
    <2>3. Asked(Startup)' /\ Midway(Startup)' /\ todo'[Startup] \notin Steps
      BY <2>1, <2>2, MidwayAtRest DEF IInv, Registry, Asked, Steps
    <2> QED
      BY <2>1, <2>2, <2>3, Handed
  <1>2. CASE Quieten
    <2> DEFINE p == op[Startup].id
    <2>1. /\ Free /\ up /\ todo[Startup] = "again"
          /\ UNCHANGED <<files, host, talk, up, loading>>
      BY <1>2, OthersStay DEF Quieten, Free
    <2>2. CASE End(Startup)
      BY <2>1, <2>2, Ending
    <2>3. CASE Go(Startup, "quiet", p, None, "unlist") /\ p \in Listed /\ Removable(p) /\ Mounted(p)
      BY <2>1, <2>3, Asking DEF Kinds, Renews, Waits, Listed
    <2> QED
      BY <1>2, <2>2, <2>3 DEF Quieten
  <1>3. CASE \E p \in Remotes : ConnectNext(p)
    BY <1>3, OthersStay, Asking DEF ConnectNext, Kinds, Renews, Waits
  <1> QED
    BY <1>1, <1>2, <1>3

LEMMA TooLateHolds ==
    ASSUME IInv, NEW u \in Actors, TooLate(u)
    PROVE  IInv'
  BY OthersStay, Ending DEF TooLate

LEMMA SaveHolds ==
    ASSUME IInv, NEW u \in Actors, Save(u)
    PROVE  IInv'
  <1>1. up /\ todo[u] = "save" /\ todo[u] \in Steps
        /\ UNCHANGED <<files, host, talk, up, loading>>
    BY DEF Save, AtStep, Steps
  <1>2. Asked(u) /\ Midway(u) /\ op[u].id \in Packages
    BY <1>1 DEF IInv, Registry, Asked
  <1>3. CASE op[u].kind = "remove"
    <2>1. Then(u, "drop") /\ "drop" \in Waits \cup Steps
      BY <1>3 DEF Save, Steps
    <2>2. Moved(u) /\ todo'[u] = "drop" /\ op'[u] = op[u]
      BY <2>1, ThenMoves DEF IInv
    <2> QED
      BY <1>1, <1>2, <1>3, <2>2, GoingOn DEF Midway
  <1>4. CASE op[u].kind # "remove"
    BY <1>1, <1>4, Ending DEF Save, Then
  <1> QED
    BY <1>3, <1>4

LEMMA CannotSaveHolds ==
    ASSUME IInv, NEW u \in Actors, CannotSave(u)
    PROVE  IInv'
  <1> USE DEF host
  <1>1. up /\ todo[u] = "save" /\ todo[u] \in Steps
        /\ UNCHANGED <<files, host, talk, up, loading>>
    BY DEF CannotSave, AtStep, Steps
  <1>2. Asked(u) /\ Midway(u) /\ op[u].id \in Packages /\ op[u] \in Ops
    BY <1>1 DEF IInv, TypeOK, Registry, Asked
  <1>3. CASE End(u)
    BY <1>1, <1>3, Ending
  <1>4. ASSUME NEW step \in {"register", "unlist"}, NEW m \in AnyManifest \cup {None, Gone},
               Retry(u, step, m),
               step = "register" => m \in AnyManifest,
               step = "unlist" => TakesBack(u)
        PROVE  IInv'
    <2>1. step \in Steps /\ step \notin {"list", "unregister", "save", "replace", "drop"}
      BY DEF Steps
    <2>2. Moved(u) /\ todo'[u] = step /\ op'[u] = [op[u] EXCEPT !.undo = TRUE, !.new = m]
      BY <1>4, <2>1, RetryMoves DEF IInv
    <2>3. op'[u].id = op[u].id /\ op'[u].new = m /\ op'[u].kind = op[u].kind
          /\ op'[u].old = op[u].old
      BY <1>2, <2>2 DEF Ops
    <2>4. Asked(u)'
      BY <1>1, <1>2, <1>4, <2>1, <2>2, <2>3 DEF Asked, Creates, Renews, TakesBack
    <2>5. step = "unlist" => Mounted(op[u].id) /\ ~Needed(op[u].id)
      BY <1>1, <1>2, <1>4 DEF Midway
    <2>6. Midway(u)'
      BY <1>1, <2>1, <2>2, <2>3, <2>5 DEF Midway, Mounted, Needed
    <2> QED
      BY <1>1, <2>1, <2>2, <2>4, <2>6, Handed
  <1>5. op[u].old.manifest \in AnyManifest \cup {None, Gone} /\ op[u].new \in AnyManifest \cup {None, Gone}
    BY TypesNow
  <1>6. op[u].kind \in {"remove", "disable"} => op[u].old.manifest \in AnyManifest
    BY <1>2 DEF Asked
  <1> QED
    BY <1>3, <1>4, <1>5, <1>6 DEF CannotSave, TakesBack

-----------------------------------------------------------------------------
(* The changes *)

\* The holder of the lock, its package and what is in its hand.
LEMMA AtWork ==
    ASSUME IInv, NEW u \in Actors, NEW step \in Steps, AtStep(u, step)
    PROVE  /\ up /\ todo[u] = step /\ todo[u] \in Steps
           /\ op[u].id \in Packages /\ Asked(u) /\ Midway(u)
           /\ step \in {"register", "replace", "list"} => op[u].new \in AnyManifest
           /\ step \notin {"list", "unregister"} => Agree(entries, scopes, handlers)
  <1>1. up /\ todo[u] = step /\ todo[u] \in Steps /\ Asked(u) /\ Midway(u)
    BY DEF AtStep, IInv, Registry
  <1>2. step \notin {"list", "unregister"} => Agree(entries, scopes, handlers)
    BY <1>1, AgreesNow
  <1> QED
    BY <1>1, <1>2 DEF Asked

LEMMA EnterNothing ==
    ASSUME IInv, NEW p \in Packages, NEW m \in AnyManifest \cup {None},
           ~Mounted(p), Agree(entries, scopes, handlers),
           entries' = [entries EXCEPT ![p] = [manifest |-> m, scope |-> 0]],
           UNCHANGED <<scopes, next, handlers>>
    PROVE  /\ entries' \in [Packages -> Entries] /\ Numbers' /\ Agree(entries, scopes, handlers)'
           /\ \A q \in Packages : entries'[q] = entries[q] \/ entries'[q].scope = 0
  <1>1. entries[p].scope = 0
    BY DEF Mounted
  <1>2. Agree(entries', scopes, handlers)
    BY <1>1, TypesNow, ListedAnew
  <1>3. entries' \in [Packages -> Entries]
    BY TypesNow DEF Entries
  <1>4. \A q \in Packages : entries'[q] = entries[q] \/ entries'[q].scope = 0
    BY TypesNow
  <1>5. Numbers'
    BY <1>4, TypesNow DEF IInv, Numbers
  <1> QED
    BY <1>2, <1>3, <1>4, <1>5

LEMMA ReplaceHolds ==
    ASSUME IInv, NEW u \in Actors, Replace(u)
    PROVE  IInv'
  <1> DEFINE p == op[u].id
  <1>1. AtStep(u, "replace") /\ "replace" \in Steps
    BY DEF Replace, Steps
  <1>2. /\ up /\ todo[u] = "replace" /\ todo[u] \in Steps /\ p \in Packages
        /\ op[u].new \in AnyManifest /\ Asked(u) /\ ~Mounted(p)
        /\ Agree(entries, scopes, handlers)
    BY <1>1, AtWork DEF Midway
  <1>3. /\ entries' = [entries EXCEPT ![p] = [manifest |-> op[u].new, scope |-> 0]]
        /\ UNCHANGED <<scopes, next, handlers>> /\ UNCHANGED <<files, talk, up, loading>>
    BY OthersStay DEF Replace, Enter
  <1>4. /\ entries' \in [Packages -> Entries] /\ Numbers' /\ Agree(entries, scopes, handlers)'
        /\ \A q \in Packages : entries'[q] = entries[q] \/ entries'[q].scope = 0
    BY <1>2, <1>3, EnterNothing
  <1>5. Moved(u) /\ Asked(u)' /\ todo'[u] \in {"again", "none", "done"}
    <2>1. CASE op[u].kind = "turn_on"
      <3>1. Then(u, "again") /\ "again" \in Waits \cup Steps
        BY <2>1 DEF Replace, Waits
      <3>2. Moved(u) /\ todo'[u] = "again" /\ op'[u] = op[u]
        BY <3>1, ThenMoves DEF IInv
      <3> QED
        BY <1>2, <3>2 DEF Asked, Steps
    <2>2. CASE op[u].kind # "turn_on"
      BY <2>2, EndMoves, EndedAsksNothing DEF Replace, Then, IInv
    <2> QED
      BY <2>1, <2>2
  <1>6. Midway(u)' /\ todo'[u] \notin {"list", "unregister"}
    BY <1>5, MidwayAtRest DEF Steps
  <1>7. /\ handlers' \in [Tools -> Nat] /\ next' \in Nat \ {0} /\ next <= next'
        /\ scopes' \subseteq [scope : Nat, id : Packages, requires : SUBSET Nat]
    BY <1>3, TypesNow
  <1>8. UNCHANGED <<files, talk, up, loading>>
    BY <1>3
  <1> QED
    BY <1>2, <1>4, <1>5, <1>6, <1>7, <1>8, Changed

LEMMA DropHolds ==
    ASSUME IInv, NEW u \in Actors, Drop(u)
    PROVE  IInv'
  <1> DEFINE p == op[u].id
  <1>1. AtStep(u, "drop") /\ "drop" \in Steps
    BY DEF Drop, Steps
  <1>2. /\ up /\ todo[u] = "drop" /\ todo[u] \in Steps /\ p \in Packages /\ ~Mounted(p)
        /\ Agree(entries, scopes, handlers)
    BY <1>1, AtWork DEF Midway
  <1>3. /\ entries' = [entries EXCEPT ![p] = [manifest |-> None, scope |-> 0]]
        /\ UNCHANGED <<scopes, next, handlers>> /\ UNCHANGED <<files, talk, up, loading>>
    BY DEF Drop, Absent
  <1>4. /\ entries' \in [Packages -> Entries] /\ Numbers' /\ Agree(entries, scopes, handlers)'
        /\ \A q \in Packages : entries'[q] = entries[q] \/ entries'[q].scope = 0
    BY <1>2, <1>3, EnterNothing
  <1>5. Moved(u) /\ Asked(u)' /\ Midway(u)' /\ todo'[u] \in {"none", "done"}
    BY EndMoves, EndedAsksNothing DEF Drop, IInv
  <1>6. /\ handlers' \in [Tools -> Nat] /\ next' \in Nat \ {0} /\ next <= next'
        /\ scopes' \subseteq [scope : Nat, id : Packages, requires : SUBSET Nat]
    BY <1>3, TypesNow
  <1>7. UNCHANGED <<files, talk, up, loading>>
    BY <1>3
  <1> QED
    BY <1>2, <1>4, <1>5, <1>6, <1>7, Changed

LEMMA UnlistHolds ==
    ASSUME IInv, NEW u \in Actors, Unlist(u)
    PROVE  IInv'
  <1> DEFINE p == op[u].id
  <1>1. AtStep(u, "unlist") /\ "unlist" \in Steps /\ "unregister" \in Steps
    BY DEF Unlist, Steps
  <1>2. /\ up /\ todo[u] = "unlist" /\ todo[u] \in Steps /\ p \in Packages
        /\ Asked(u) /\ Mounted(p) /\ ~Needed(p) /\ Agree(entries, scopes, handlers)
    BY <1>1, AtWork DEF Midway
  <1>3. /\ entries' = [entries EXCEPT ![p].scope = 0]
        /\ UNCHANGED <<scopes, next, handlers>> /\ UNCHANGED <<files, talk, up, loading>>
    BY OthersStay DEF Unlist
  <1>4. Moved(u) /\ todo'[u] = "unregister" /\ op'[u] = op[u]
    BY <1>1, ThenMoves DEF Unlist, IInv
  <1>5. /\ entries' \in [Packages -> Entries]
        /\ entries'[p] = [manifest |-> entries[p].manifest, scope |-> 0]
        /\ \A q \in Packages \ {p} : entries'[q] = entries[q]
    BY <1>2, <1>3, TypesNow DEF Entries
  <1>6. Numbers'
    BY <1>3, <1>5, TypesNow DEF IInv, Numbers
  <1>7. Asked(u)'
    BY <1>2, <1>4 DEF Asked, Steps
  <1>8. PICK x \in Nat \ {0} : x = entries[p].scope
    BY <1>2, TypesNow DEF Mounted
  <1>9. Leaving(u, x)' = entries
    <2>1. entries[p] = [manifest |-> entries[p].manifest, scope |-> x]
      BY <1>2, <1>8, TypesNow DEF Entries
    <2>2. Leaving(u, x)' = [entries' EXCEPT ![p] = [manifest |-> entries[p].manifest, scope |-> x]]
      BY <1>2, <1>4, <1>5 DEF Leaving
    <2>3. /\ Leaving(u, x)' = [q \in Packages |-> Leaving(u, x)'[q]]
          /\ entries = [q \in Packages |-> entries[q]]
      BY <1>5, <2>2, TypesNow
    <2>4. \A q \in Packages : Leaving(u, x)'[q] = entries[q]
      BY <1>2, <1>5, <2>1, <2>2
    <2> QED
      BY <2>3, <2>4
  <1>10. Midway(u)'
    <2>1. \A n \in scopes : x \notin n.requires
      BY <1>2, <1>8 DEF Needed
    <2>2. Agree(Leaving(u, x)', scopes', handlers')
      BY <1>2, <1>3, <1>9
    <2>3. ~Mounted(op[u].id)'
      BY <1>4, <1>5 DEF Mounted
    <2> QED
      BY <1>3, <1>4, <2>1, <2>2, <2>3 DEF Midway
  <1>11. \A q \in Packages : entries'[q] = entries[q] \/ entries'[q].scope = 0
    BY <1>5
  <1> QED
    BY <1>2, <1>3, <1>4, <1>5, <1>6, <1>7, <1>10, <1>11, TypesNow, Changed

LEMMA UnregisterHolds ==
    ASSUME IInv, NEW u \in Actors, Unregister(u)
    PROVE  IInv'
  <1> DEFINE p == op[u].id
             kind == op[u].kind
  <1>1. AtStep(u, "unregister") /\ "unregister" \in Steps
    BY DEF Unregister, Steps
  <1>2. /\ up /\ todo[u] = "unregister" /\ todo[u] \in Steps /\ p \in Packages
        /\ Asked(u) /\ Midway(u)
    BY <1>1, AtWork
  <1>3. /\ handlers' = [t \in Tools |->
                           IF t \in entries[p].manifest.tools THEN 0 ELSE handlers[t]]
        /\ scopes' = {n \in scopes : n.id # p} /\ UNCHANGED <<entries, next>>
        /\ UNCHANGED <<files, talk, up, loading>>
    BY OthersStay DEF Unregister
  <1>4. entries[p].scope = 0 /\ ~Mounted(p)
    BY <1>2 DEF Midway, Mounted
  <1>5. PICK x \in Nat \ {0} : /\ Agree(Leaving(u, x), scopes, handlers)
                               /\ \A n \in scopes : x \notin n.requires
    BY <1>2 DEF Midway
  <1>6. Agree(entries, scopes, handlers)'
    <2>1. /\ \A n \in scopes : n.id \in Packages /\ n.scope # 0
          /\ \A n, k \in scopes : n.scope = k.scope => n = k
      BY TypesNow DEF IInv, Numbers
    <2>2. /\ Leaving(u, x)[p] = [manifest |-> entries[p].manifest, scope |-> x]
          /\ \A q \in Packages \ {p} : Leaving(u, x)[q] = entries[q]
      BY <1>2, TypesNow DEF Leaving
    <2>3. UnmountOf(p, x, Leaving(u, x), entries, scopes, handlers, scopes', handlers')
      BY <1>2, <1>3, <1>4, <1>5, <2>1, <2>2, TypesNow DEF UnmountOf
    <2> QED
      BY <1>3, <1>5, <2>3, UnmountAgrees
  <1>7. /\ handlers' \in [Tools -> Nat] /\ scopes' \subseteq scopes
        /\ scopes' \subseteq [scope : Nat, id : Packages, requires : SUBSET Nat]
    BY <1>3, TypesNow
  <1>8. Numbers'
    BY <1>3, <1>7 DEF IInv, Numbers
  <1>9. /\ Moved(u) /\ Asked(u)' /\ Midway(u)' /\ todo'[u] \notin {"list", "unregister"}
    <2>1. CASE Then(u, "end")
      BY <2>1, EndMoves, EndedAsksNothing DEF Then, IInv
    <2>2. ASSUME NEW step \in {"register", "drop", "save"}, Then(u, step),
                 step = "register" => kind \in Renews,
                 step = "save" => kind \in {"remove", "disable"}
          PROVE  /\ Moved(u) /\ Asked(u)' /\ Midway(u)'
                 /\ todo'[u] \notin {"list", "unregister"}
      <3>1. step \in Steps
        BY DEF Steps
      <3>2. Moved(u) /\ todo'[u] = step /\ op'[u] = op[u]
        BY <2>2, <3>1, ThenMoves DEF IInv
      <3>3. Asked(u)'
        BY <1>2, <2>2, <3>2 DEF Asked, Steps
      <3>4. Midway(u)'
        BY <1>3, <1>4, <2>2, <3>2 DEF Midway, Mounted, Creates, TakesBack
      <3> QED
        BY <3>2, <3>3, <3>4
    <2>3. \/ Then(u, "end")
          \/ \E step \in {"register", "drop", "save"} :
                 /\ Then(u, step)
                 /\ step = "register" => kind \in Renews
                 /\ step = "save" => kind \in {"remove", "disable"}
      BY DEF Unregister, Renews, Creates
    <2> QED
      BY <2>1, <2>2, <2>3
  <1> QED
    BY <1>2, <1>3, <1>6, <1>7, <1>8, <1>9, TypesNow, Changed

LEMMA MountHolds ==
    ASSUME IInv, NEW u \in Actors, MountNew(u)
    PROVE  IInv'
  <1> DEFINE p == op[u].id
             m == op[u].new
  <1>1. AtStep(u, "register") /\ "register" \in Steps
    BY DEF MountNew, Steps
  <1>2. /\ up /\ todo[u] = "register" /\ todo[u] \in Steps /\ p \in Packages
        /\ Asked(u) /\ m \in AnyManifest /\ Agree(entries, scopes, handlers)
    BY <1>1, AtWork
  <1>3. UNCHANGED <<entries, files, talk, up, loading>>
    BY DEF MountNew
  <1>4. CASE Mountable(p, m) /\ Register(p, m) /\ Then(u, "list")
    <2>1. "list" \in Waits \cup Steps
      BY DEF Steps
    <2>2. Moved(u) /\ todo'[u] = "list" /\ op'[u] = op[u]
      BY <1>4, <2>1, ThenMoves DEF IInv
    <2>3. /\ entries[p].scope = 0
          /\ next' = next + 1 /\ handlers' \in [Tools -> Nat]
          /\ scopes' \subseteq [scope : Nat, id : Packages, requires : SUBSET Nat]
          /\ \A n \in scopes' : 0 < n.scope /\ n.scope < next' /\ next \notin n.requires
          /\ \A n, k \in scopes' : n.scope = k.scope => n = k
          /\ Agree([entries EXCEPT ![p] = [manifest |-> m, scope |-> next]], scopes', handlers')
      BY <1>2, <1>4, Registered
    <2>4. next' \in Nat \ {0} /\ next <= next' /\ next' - 1 = next /\ next' > 1
      BY <2>3, TypesNow
    <2>5. Numbers'
      BY <1>3, <2>3, <2>4, TypesNow DEF IInv, Numbers
    <2>6. Asked(u)'
      BY <1>2, <2>2 DEF Asked, Steps
    <2>7. Midway(u)'
      <3>1. Coming(u)' = [entries EXCEPT ![p] = [manifest |-> m, scope |-> next]]
        BY <1>3, <2>2, <2>4 DEF Coming
      <3>2. Agree(Coming(u)', scopes', handlers')
        BY <2>3, <3>1
      <3>3. ~Mounted(op[u].id)'
        BY <1>3, <2>2, <2>3 DEF Mounted
      <3> QED
        BY <2>2, <2>3, <2>4, <3>2, <3>3 DEF Midway
    <2> QED
      BY <1>2, <1>3, <2>2, <2>3, <2>4, <2>5, <2>6, <2>7, TypesNow, Changed
  <1>5. CASE /\ Refuse(p, m)
             /\ \/ End(u)
                \/ op[u].kind \in Renews /\ Retry(u, "register", op[u].old.manifest)
    <2>1. /\ UNCHANGED <<scopes, handlers>>
          /\ next' \in Nat \ {0} /\ next <= next'
      BY <1>5, TypesNow DEF Refuse
    <2>2. Numbers'
      BY <1>3, <2>1, TypesNow DEF IInv, Numbers
    <2>3. Moved(u) /\ Asked(u)' /\ Midway(u)' /\ todo'[u] \notin {"list", "unregister"}
      <3>1. CASE End(u)
        BY <3>1, EndMoves, EndedAsksNothing DEF IInv
      <3>2. CASE op[u].kind \in Renews /\ Retry(u, "register", op[u].old.manifest)
        <4>1. op[u].old.manifest \in AnyManifest
          BY <1>2, <3>2 DEF Asked
        <4>2. /\ Moved(u) /\ todo'[u] = "register"
              /\ op'[u] = [op[u] EXCEPT !.undo = TRUE, !.new = op[u].old.manifest]
          <5>1. TypeOK /\ "register" \in Waits \cup Steps
            BY <1>1 DEF IInv
          <5>2. PICK old \in AnyManifest \cup {None, Gone} : old = op[u].old.manifest
            BY <4>1
          <5>3. Retry(u, "register", old)
            BY <3>2, <5>2
          <5>4. /\ Moved(u) /\ todo'[u] = "register"
                /\ op'[u] = [op[u] EXCEPT !.undo = TRUE, !.new = old]
            BY <5>1, <5>3, RetryMoves
          <5> QED
            BY <5>2, <5>4
        <4>3. op[u] \in Ops
          BY TypesNow
        <4>4. op'[u].id = op[u].id /\ op'[u].new = op[u].old.manifest
              /\ op'[u].kind = op[u].kind /\ op'[u].old = op[u].old
          BY <4>2, <4>3 DEF Ops
        <4>5. Asked(u)'
          BY <1>2, <4>1, <4>2, <4>4 DEF Asked, Steps
        <4>6. Midway(u)'
          BY <4>2 DEF Midway
        <4> QED
          BY <4>2, <4>5, <4>6
      <3> QED
        BY <1>5, <3>1, <3>2
    <2>4. Agree(entries, scopes, handlers)'
      BY <1>2, <1>3, <2>1
    <2> QED
      BY <1>2, <1>3, <2>1, <2>2, <2>3, <2>4, TypesNow, Changed
  <1> QED
    BY <1>4, <1>5 DEF MountNew

LEMMA ListHolds ==
    ASSUME IInv, NEW u \in Actors, List(u)
    PROVE  IInv'
  <1> DEFINE p == op[u].id
             m == op[u].new
  <1>1. AtStep(u, "list") /\ "list" \in Steps
    BY DEF List, Steps
  <1>2. /\ up /\ todo[u] = "list" /\ todo[u] \in Steps /\ p \in Packages
        /\ Asked(u) /\ Midway(u) /\ m \in AnyManifest
    BY <1>1, AtWork
  <1>3. UNCHANGED <<scopes, next, handlers, files, talk, up, loading>>
    BY DEF List
  <1>4. /\ entries[p].scope = 0 /\ next > 1 /\ Agree(Coming(u), scopes, handlers)
        /\ \A n \in scopes : next - 1 \notin n.requires
    BY <1>2 DEF Midway, Mounted
  <1>5. Coming(u) = [entries EXCEPT ![p] = [manifest |-> m, scope |-> next - 1]]
    BY DEF Coming
  <1>6. Coming(u)[p].scope = next - 1
    BY <1>2, <1>5, TypesNow
  <1>7. \A s \in ScopesOf(p) : s = next - 1
    BY <1>4, <1>6 DEF Agree, ScopesOf
  <1>8. entries' = Coming(u)
    <2>1. PICK s \in ScopesOf(p) : entries' = [entries EXCEPT ![p] = [manifest |-> m, scope |-> s]]
      BY DEF List, Enter
    <2> QED
      BY <1>5, <1>7, <2>1
  <1>9. Agree(entries, scopes, handlers)'
    BY <1>3, <1>4, <1>8
  <1>10. /\ entries' \in [Packages -> Entries] /\ entries'[p].scope = next - 1
         /\ \A q \in Packages \ {p} : entries'[q] = entries[q]
    BY <1>2, <1>4, <1>5, <1>8, TypesNow DEF Entries
  <1>11. Numbers'
    BY <1>3, <1>4, <1>10, TypesNow DEF IInv, Numbers
  <1>12. Moved(u) /\ Asked(u)' /\ Midway(u)' /\ todo'[u] \notin {"list", "unregister"}
    <2>1. CASE Then(u, "end")
      BY <2>1, EndMoves, EndedAsksNothing DEF Then, IInv
    <2>2. ASSUME NEW step \in {"save", "again"}, Then(u, step),
                 step = "save" => op[u].kind \in Creates \cup {"enable"}
          PROVE  /\ Moved(u) /\ Asked(u)' /\ Midway(u)'
                 /\ todo'[u] \notin {"list", "unregister"}
      <3>1. step \in Steps \cup Waits
        BY DEF Steps, Waits
      <3>2. Moved(u) /\ todo'[u] = step /\ op'[u] = op[u]
        BY <2>2, <3>1, ThenMoves DEF IInv
      <3>3. Asked(u)'
        BY <1>2, <2>2, <3>2 DEF Asked, Steps
      <3>4. next - 1 # 0
        BY <1>4, TypesNow
      <3>5. Mounted(p)' /\ ~Needed(p)'
        BY <1>3, <1>4, <1>10, <3>2, <3>4 DEF Mounted, Needed
      <3>6. Midway(u)'
        BY <2>2, <3>2, <3>5 DEF Midway, Mounted, Needed, Creates, TakesBack
      <3> QED
        BY <3>2, <3>3, <3>6
    <2>3. \/ Then(u, "end")
          \/ \E step \in {"save", "again"} :
                 /\ Then(u, step)
                 /\ step = "save" => op[u].kind \in Creates \cup {"enable"}
      BY DEF List, Creates
    <2> QED
      BY <2>1, <2>2, <2>3
  <1>13. next' \in Nat \ {0} /\ next <= next' /\ handlers' \in [Tools -> Nat]
         /\ scopes' \subseteq [scope : Nat, id : Packages, requires : SUBSET Nat]
    BY <1>3, TypesNow
  <1> QED
    BY <1>2, <1>3, <1>9, <1>10, <1>11, <1>12, <1>13, Changed

-----------------------------------------------------------------------------
(* The skills of a conversation *)

\* A step of the conversation leaves actors and host alone.
LEMMA Talked ==
    ASSUME IInv, UNCHANGED <<files, host, loading, up, todo, op>>, Reads',
           active' \in [Packages -> Nat], known' \in [Packages -> AnyManifest \cup {None}],
           reading' \in Reading
    PROVE  IInv'
  <1> USE DEF host
  <1>1. TypeOK' /\ Numbers' /\ Lock'
    BY DEF IInv, TypeOK, Numbers, Lock, files
  <1>2. \A u \in Actors : Asked(u)' /\ Midway(u)'
    <2> TAKE u \in Actors
    <2>1. Asked(u) /\ Midway(u)
      BY DEF IInv, Registry
    <2>2. Coming(u)' = Coming(u) /\ \A x \in Nat : Leaving(u, x)' = Leaving(u, x)
      BY DEF Coming, Leaving
    <2> QED
      BY <2>1, <2>2 DEF Asked, Midway, Mounted, Needed, TakesBack
  <1> QED
    BY <1>1, <1>2 DEF IInv, Registry, Settled

LEMMA ReadingHolds ==
    ASSUME IInv, NEW p \in Skills, ReadSkill(p)
    PROVE  IInv'
  <1>1. p \in Packages
    BY ManifestsAre
  <1>2. PICK at \in {"entry", "read"} :
            /\ up /\ UNCHANGED <<files, host, loading, up, todo, op, active, known>>
            /\ Mounted(p) /\ reading' = [at |-> at, id |-> p, scope |-> entries[p].scope,
                                         manifest |-> entries[p].manifest]
    BY DEF ReadSkill, process
  <1>4. reading' \in Reading
    BY <1>1, <1>2, TypesNow DEF Reading
  <1>5. entries[p].scope # 0 /\ entries[p].scope \in Nat /\ entries[p].scope < next
    BY <1>1, <1>2, TypesNow DEF Mounted, IInv, Numbers
  <1>6. \A u \in Actors : todo[u] = "list" => op[u].id # p
    <2> SUFFICES ASSUME NEW u \in Actors, todo[u] = "list", op[u].id = p PROVE FALSE
      OBVIOUS
    <2> QED
      BY <1>2 DEF IInv, Registry, Midway
  <1>7. Reads'
    BY <1>1, <1>2, <1>5, <1>6 DEF IInv, Reads, host
  <1> QED
    BY <1>2, <1>4, <1>7, Talked DEF IInv, TypeOK

\* The steps of a read that has begun keep what it was begun with, or end it.
LEMMA ReadsOn ==
    ASSUME IInv, reading.at # "none", reading' = NotReading \/ reading'.at # "none",
           UNCHANGED <<files, settings, process, active, known, lost, budget>>,
           reading' \in Reading,
           \/ reading' = NotReading
           \/ /\ UNCHANGED <<reading.id, reading.scope>>
              /\ reading'.manifest \in {reading.manifest, None}
    PROVE  IInv'
  <1>1. UNCHANGED <<files, host, loading, up, todo, op, active, known>>
    BY DEF process
  <1>2. Reads'
    BY <1>1 DEF IInv, Reads, NotReading, host
  <1> QED
    BY <1>1, <1>2, Talked DEF IInv, TypeOK

LEMMA CompareHolds ==
    ASSUME IInv, Compare
    PROVE  IInv'
  <1>1. /\ reading.at # "none" /\ reading \in Reading
        /\ UNCHANGED <<files, settings, process, active, known, lost, budget>>
    BY DEF Compare, IInv, TypeOK
  <1>2. CASE reading' = NotReading
    BY <1>1, <1>2, NothingTypes, ReadsOn
  <1>3. CASE reading' = [reading EXCEPT !.at = "same", !.manifest = reading.manifest]
    <2>1. reading' \in Reading /\ reading'.at # "none" /\ reading'.id = reading.id
          /\ reading'.scope = reading.scope /\ reading'.manifest = reading.manifest
      BY <1>1, <1>3 DEF Reading
    <2> QED
      BY <1>1, <2>1, ReadsOn
  <1> QED
    BY <1>2, <1>3 DEF Compare, SeesPackage

LEMMA BodyHolds ==
    ASSUME IInv, ReadBody
    PROVE  IInv'
  <1>1. /\ reading.at # "none" /\ reading \in Reading
        /\ UNCHANGED <<files, settings, process, active, known, lost, budget>>
    BY DEF ReadBody, IInv, TypeOK
  <1>2. PICK m \in {reading.manifest, None} :
            reading' = [reading EXCEPT !.at = "read", !.manifest = m]
    BY DEF ReadBody
  <1>3. reading' \in Reading /\ reading'.at # "none" /\ reading'.id = reading.id
        /\ reading'.scope = reading.scope /\ reading'.manifest = m
    BY <1>1, <1>2 DEF Reading
  <1> QED
    BY <1>1, <1>2, <1>3, ReadsOn

LEMMA ActivateHolds ==
    ASSUME IInv, Activate
    PROVE  IInv'
  <1>1. /\ UNCHANGED <<files, host, loading, up, todo, op>> /\ reading' = NotReading
        /\ reading.at = "read"
    BY DEF Activate, process
  <1>2. reading' \in Reading
    BY <1>1, NothingTypes
  <1>3. /\ reading.id \in Packages /\ reading.scope \in Nat
        /\ reading.manifest \in AnyManifest \cup {None}
        /\ 0 < reading.scope /\ reading.scope < next
        /\ reading.manifest # None /\ entries[reading.id].scope = reading.scope =>
               entries[reading.id].manifest = reading.manifest
        /\ up
    BY <1>1 DEF IInv, TypeOK, Reads, Reading
  <1>4. CASE /\ active' = [active EXCEPT ![reading.id] = reading.scope]
             /\ known' = [known EXCEPT ![reading.id] = reading.manifest]
    <2>1. active' \in [Packages -> Nat] /\ known' \in [Packages -> AnyManifest \cup {None}]
      BY <1>3, <1>4 DEF IInv, TypeOK
    <2>2. Reads'
      BY <1>1, <1>3, <1>4 DEF IInv, TypeOK, Reads, NotReading, host
    <2> QED
      BY <1>1, <1>2, <2>1, <2>2, Talked
  <1>5. CASE UNCHANGED <<active, known>>
    <2>1. Reads'
      BY <1>1, <1>5 DEF IInv, Reads, NotReading, host
    <2> QED
      BY <1>1, <1>2, <1>5, <2>1, Talked DEF IInv, TypeOK
  <1> QED
    BY <1>4, <1>5 DEF Activate

LEMMA UnloadHolds ==
    ASSUME IInv, NEW p \in Skills, Unload(p)
    PROVE  IInv'
  <1>1. p \in Packages
    BY ManifestsAre
  <1>2. /\ up /\ UNCHANGED <<files, host, loading, up, todo, op, reading>>
        /\ active' = [active EXCEPT ![p] = 0] /\ known' = [known EXCEPT ![p] = None]
    BY DEF Unload, process
  <1>3. active' \in [Packages -> Nat] /\ known' \in [Packages -> AnyManifest \cup {None}]
    BY <1>1, <1>2 DEF IInv, TypeOK
  <1>4. Reads'
    BY <1>1, <1>2 DEF IInv, TypeOK, Reads, host
  <1> QED
    BY <1>2, <1>3, <1>4, Talked DEF IInv, TypeOK

-----------------------------------------------------------------------------
LEMMA NextHolds == IInv /\ [Next]_vars => IInv'
  <1> SUFFICES ASSUME IInv, [Next]_vars PROVE IInv'
    OBVIOUS
  <1>1. CASE \E u \in Requests, p \in Packages : Request(u, p)
    BY <1>1, RequestHolds
  <1>2. CASE \E u \in Actors : Change(u)
    <2> PICK u \in Actors : Change(u)
      BY <1>2
    <2> QED
      BY FetchHolds, AdoptHolds, TooLateHolds, ReplaceHolds, UnlistHolds, UnregisterHolds,
         MountHolds, ListHolds, SaveHolds, CannotSaveHolds, DropHolds DEF Change
  <1>3. CASE ReadSettings \/ Quieten \/ \E p \in Remotes : ConnectNext(p)
    BY <1>3, RestoreHolds
  <1>4. CASE \E p \in Skills : ReadSkill(p) \/ Unload(p)
    BY <1>4, ReadingHolds, UnloadHolds
  <1>5. CASE \E p \in Packages : Edit(p) \/ Load(p)
    <2>1. ASSUME NEW p \in Packages, Edit(p) PROVE IInv'
      <3>1. /\ disk' \in [Packages -> AnyManifest \cup {None, Gone}]
            /\ skill' \in [Packages -> AnyManifest]
        BY <2>1, ManifestsAre DEF Edit, IInv, TypeOK, AnyManifest
      <3> QED
        BY <2>1, <3>1, Elsewhere DEF Edit, process
    <2> QED
      BY <1>5, <2>1, LoadHolds
  <1>6. CASE Compare \/ ReadBody \/ Activate
    BY <1>6, CompareHolds, BodyHolds, ActivateHolds
  <1>7. CASE Crash \/ Begin \/ Serve
    BY <1>7, CrashHolds, BeginHolds, ServeHolds
  <1>8. CASE UNCHANGED vars
    BY <1>8, Elsewhere DEF vars, process, files, IInv, TypeOK
  <1> QED
    BY <1>1, <1>2, <1>3, <1>4, <1>5, <1>6, <1>7, <1>8 DEF Next

\* TypeOK: every variable has its type.
THEOREM TypeInvariant == Spec => []TypeOK
  <1>1. Init => IInv
    BY InitHolds
  <1>2. IInv => TypeOK
    BY DEF IInv
  <1> QED
    BY <1>1, <1>2, NextHolds, PTL DEF Spec

\* RegistryAgrees: between two operations of any number of requests, over any packages
\* and any failures, registry, scopes and tool catalog tell the same.
THEOREM RegistryIsOne == Spec => []RegistryAgrees
  <1>1. Init => IInv
    BY InitHolds
  <1>2. IInv => RegistryAgrees
    <2> SUFFICES ASSUME IInv, Free PROVE RegistryAgrees
      BY DEF RegistryAgrees
    <2>1. Agree(entries, scopes, handlers)
      BY DEF IInv, TypeOK, Registry, Settled, Free, Waits
    <2>2. ASSUME NEW p \in Packages PROVE ScopesOf(p) = {entries[p].scope} \ {0}
      <3>1. \A n \in scopes : n.id = p => n.scope = entries[p].scope /\ n.scope # 0
        BY <2>1, TypesNow DEF Agree
      <3>2. entries[p].scope # 0 => \E n \in scopes : n.id = p /\ n.scope = entries[p].scope
        BY <2>1, <2>2 DEF Agree
      <3> QED
        BY <3>1, <3>2 DEF ScopesOf
    <2>3. ASSUME NEW t \in Tools
          PROVE  {handlers[t]} \ {0} =
                     {entries[p].scope : p \in {q \in Packages :
                                          Mounted(q) /\ t \in entries[q].manifest.tools}}
      <3> DEFINE Q == {q \in Packages : Mounted(q) /\ t \in entries[q].manifest.tools}
      <3>1. \A q \in Q : entries[q].scope = handlers[t] /\ entries[q].scope # 0
        BY <2>1 DEF Agree, Mounted
      <3>2. handlers[t] # 0 => \E q \in Q : TRUE
        BY <2>1 DEF Agree, Mounted
      <3> QED
        BY <3>1, <3>2
    <2>4. \A n \in scopes : n.requires \subseteq {k.scope : k \in scopes}
      BY <2>1 DEF Agree
    <2> QED
      BY <2>2, <2>3, <2>4 DEF RegistryAgrees
  <1> QED
    BY <1>1, <1>2, NextHolds, PTL DEF Spec

\* ReadIsMounted: the tools of a package are offered only with the instructions of the
\* mounted manifest, though entry, manifest and instructions are read one after the
\* other and packages are changed and the process restarted in between; but for
\* instructions of another version than their directory's manifest, or changed after
\* the comparison, of which known says nothing.
THEOREM ReadsAreMounted == Spec => []ReadIsMounted
  <1>1. Init => IInv
    BY InitHolds
  <1>2. IInv => ReadIsMounted
    BY DEF IInv, Reads, ReadIsMounted, Valid
  <1> QED
    BY <1>1, <1>2, NextHolds, PTL DEF Spec
-----------------------------------------------------------------------------
(* What the settings say *)

Locals       == Packages \ Remotes
Installed(p) == Contains(roster, p) /\ p \notin removed
Held(p)      == \E u \in Actors : todo[u] \in Steps /\ op[u].id = p
RemoteKinds  == {"connect", "user", "restore", "reconnect", "turn_on", "quiet"}

\* Process and settings say the same of a package nobody works on.
AtRest(p) ==
    p \notin lost => /\ p \in Listed <=> Installed(p)
                     /\ Mounted(p) <=> Installed(p) /\ p \notin off

\* What is still to be done, or to be taken back, for the package in u's hand: the
\* settings say what they said when u took it, until u has saved.
InHand(u) ==
    LET p == op[u].id  kind == op[u].kind  was == op[u].old.scope # 0  step == todo[u] IN
    /\ kind \in {"install", "reload", "remove", "enable", "disable"}
    /\ kind = "install" => ~was
    /\ p \in Listed <=> kind # "install" \/ step \in {"save", "unlist", "unregister", "drop"}
    /\ step = "drop" => kind \in {"install", "remove"} /\ (p \notin lost => ~Installed(p))
    /\ step # "drop" /\ p \notin lost => /\ Installed(p) <=> kind # "install"
                                         /\ was <=> Installed(p) /\ p \notin off
    /\ step \in {"replace", "register", "unregister", "list", "drop"} => ~Mounted(p)
    /\ step = "save" => kind # "reload" /\ (Mounted(p) <=> kind \in {"install", "enable"})
    /\ step = "replace" => kind = "reload" /\ ~was
    /\ step \in {"unlist", "unregister"} => (was <=> kind \in {"reload", "remove", "disable"})
    /\ step \in {"register", "list"} => /\ was <=> op[u].undo \/ kind = "reload"
                                        /\ op[u].undo \/ kind \in {"install", "enable", "reload"}

Remotely(u) == op[u].kind \in RemoteKinds \/ todo[u] = "again" => op[u].id \in Remotes

\* A start loads what the settings say, one package after the other.
Loaded(p) ==
    /\ p \in Listed => Installed(p) /\ (Mounted(p) <=> p \notin off)
    /\ p \notin Listed => ~Mounted(p)
    /\ loading # None => /\ Installed(p) => p \in Listed \/ Contains(loading, p)
                         /\ Contains(loading, p) => Contains(roster, p)

Told ==
    /\ roster \in Seq(Packages) /\ (loading # None => loading \in Seq(Packages))
    /\ \A u \in Actors :
           Remotely(u) /\ (todo[u] \in Steps /\ op[u].id \in Locals => InHand(u))
    /\ up => \A p \in Locals : Held(p) \/ AtRest(p)
    /\ ~up => \A p \in Locals : Loaded(p)

LEMMA AppendContains ==
    ASSUME NEW s \in Seq(Packages), NEW p \in Packages
    PROVE  /\ Append(s, p) \in Seq(Packages)
           /\ \A q : Contains(Append(s, p), q) <=> Contains(s, q) \/ q = p
  <1> DEFINE n == Len(s)
  <1>1. /\ Append(s, p) \in Seq(Packages) /\ Len(Append(s, p)) = n + 1 /\ n \in Nat
        /\ \A i \in 1..n : Append(s, p)[i] = s[i]
        /\ Append(s, p)[n + 1] = p
    OBVIOUS
  <1>2. ASSUME NEW q PROVE Contains(Append(s, p), q) <=> Contains(s, q) \/ q = p
    <2>1. Contains(s, q) => Contains(Append(s, p), q)
      BY <1>1 DEF Contains
    <2>2. n + 1 \in 1..Len(Append(s, p))
      BY <1>1
    <2>3. q = p => Contains(Append(s, p), q)
      BY <1>1, <2>2 DEF Contains
    <2>4. ASSUME NEW i \in 1..Len(Append(s, p)), Append(s, p)[i] = q
          PROVE  Contains(s, q) \/ q = p
      <3>1. i \in 1..n \/ i = n + 1
        BY <1>1
      <3> QED
        BY <1>1, <2>4, <3>1 DEF Contains
    <2> QED
      BY <2>1, <2>3, <2>4 DEF Contains
  <1> QED
    BY <1>1, <1>2

LEMMA TailContains ==
    ASSUME NEW s \in Seq(Packages), s # <<>>
    PROVE  /\ Head(s) \in Packages /\ Tail(s) \in Seq(Packages)
           /\ \A q : Contains(s, q) <=> Contains(Tail(s), q) \/ q = Head(s)
  <1> DEFINE n == Len(s)
  <1>1. /\ Tail(s) \in Seq(Packages) /\ Head(s) = s[1] /\ n \in Nat /\ n > 0
        /\ Len(Tail(s)) = n - 1 /\ \A i \in 1..(n - 1) : Tail(s)[i] = s[i + 1]
    OBVIOUS
  <1>2. Head(s) \in Packages /\ 1 \in 1..n
    BY <1>1
  <1>3. ASSUME NEW q PROVE Contains(s, q) <=> Contains(Tail(s), q) \/ q = Head(s)
    <2>1. ASSUME NEW i \in 1..(n - 1), Tail(s)[i] = q PROVE Contains(s, q)
      <3>1. i + 1 \in 1..n /\ s[i + 1] = q
        BY <1>1, <2>1
      <3> QED
        BY <3>1 DEF Contains
    <2>2. q = Head(s) => Contains(s, q)
      BY <1>1, <1>2 DEF Contains
    <2>3. ASSUME NEW i \in 1..n, s[i] = q, i # 1 PROVE Contains(Tail(s), q)
      <3>1. i - 1 \in 1..(n - 1) /\ Tail(s)[i - 1] = s[(i - 1) + 1] /\ (i - 1) + 1 = i
        BY <1>1, <2>3
      <3> QED
        BY <1>1, <2>3, <3>1 DEF Contains
    <2> QED
      BY <1>1, <2>1, <2>2, <2>3 DEF Contains
  <1> QED
    BY <1>1, <1>2, <1>3

\* What is retained is all but the package, whatever the order.
LEMMA RetainContains ==
    ASSUME NEW s \in Seq(Packages), NEW p \in Packages
    PROVE  /\ Retain(s, p) \in Seq(Packages)
           /\ \A q \in Packages \ {p} : Contains(Retain(s, p), q) <=> Contains(s, q)
  <1>1. CASE ~Contains(s, p)
    BY <1>1 DEF Retain
  <1>2. CASE Contains(s, p)
    <2> DEFINE n == Len(s)
               k == CHOOSE i \in DOMAIN s : s[i] = p
    <2>1. n \in Nat /\ DOMAIN s = 1..n
      OBVIOUS
    <2>2. k \in 1..n /\ s[k] = p
      BY <1>2, <2>1 DEF Contains
    <2>3. Retain(s, p) = RemoveAt(s, k)
      BY <1>2 DEF Retain
    <2> HIDE DEF k
    <2> DEFINE a == SubSeq(s, 1, k - 1)
               b == SubSeq(s, k + 1, n)
    <2>4. /\ a \in Seq(Packages) /\ Len(a) = k - 1
          /\ \A i \in 1..(k - 1) : a[i] = s[i]
      BY <2>1, <2>2
    <2>5. /\ b \in Seq(Packages) /\ Len(b) = n - k
          /\ \A i \in 1..(n - k) : b[i] = s[k + i]
      <3>1. PICK x \in Nat, y \in Nat \ {0} : x = n /\ y = k /\ y <= x
        <4>1. n \in Nat /\ k \in Nat \ {0} /\ k <= n
          BY <2>1, <2>2
        <4> QED
          BY <4>1, Zenon
      <3>2. \A i \in y + 1..x : s[i] \in Packages
        BY <3>1
      <3>3. /\ b \in Seq(Packages)
            /\ Len(b) = IF y + 1 <= x THEN x - (y + 1) + 1 ELSE 0
            /\ \A i \in 1..x - (y + 1) + 1 : b[i] = s[(y + 1) + i - 1]
        BY <3>1, <3>2, SubSeqProperties
      <3> HIDE DEF b
      <3>4. Len(b) = x - y /\ \A i \in 1..(x - y) : b[i] = s[y + i]
        <4>1. x - (y + 1) + 1 = x - y /\ (y + 1 <= x \/ x - y = 0)
          BY <3>1
        <4>2. \A i \in 1..(x - y) : b[i] = s[(y + 1) + i - 1] /\ (y + 1) + i - 1 = y + i
          BY <3>1, <3>3, <4>1
        <4> QED
          BY <3>3, <4>1, <4>2
      <3> QED
        BY <3>1, <3>3, <3>4
    <2>6. Retain(s, p) = a \o b
      BY <2>3 DEF RemoveAt
    <2> HIDE DEF a, b
    <2>7. /\ a \o b \in Seq(Packages) /\ Len(a \o b) = n - 1
          /\ \A i \in 1..(k - 1) : (a \o b)[i] = s[i]
          /\ \A i \in k..(n - 1) : (a \o b)[i] = s[i + 1]
      <3>1. a \o b \in Seq(Packages) /\ Len(a \o b) = n - 1
        <4>1. a \in Seq(Packages) /\ b \in Seq(Packages)
          BY <2>4, <2>5
        <4>2. a \o b \in Seq(Packages) /\ Len(a \o b) = Len(a) + Len(b)
          BY <4>1
        <4> QED
          BY <2>1, <2>2, <2>4, <2>5, <4>2
      <3>2. ASSUME NEW i \in 1..(k - 1) PROVE (a \o b)[i] = s[i]
        BY <2>1, <2>2, <2>4, <2>5
      <3>3. ASSUME NEW i \in k..(n - 1) PROVE (a \o b)[i] = s[i + 1]
        <4>1. i - (k - 1) \in 1..(n - k) /\ k + (i - (k - 1)) = i + 1
          BY <2>1, <2>2
        <4>2. (a \o b)[i] = b[i - (k - 1)]
          BY <2>1, <2>2, <2>4, <2>5
        <4> QED
          BY <2>5, <4>1, <4>2
      <3> QED
        BY <3>1, <3>2, <3>3
    <2>8. ASSUME NEW q \in Packages \ {p} PROVE Contains(a \o b, q) <=> Contains(s, q)
      <3>1. ASSUME NEW i \in 1..(n - 1), (a \o b)[i] = q PROVE Contains(s, q)
        <4>1. i \in 1..(k - 1) \/ i \in k..(n - 1)
          BY <2>1, <2>2
        <4>2. i \in 1..n /\ i + 1 \in 1..n
          BY <2>1, <2>2
        <4> QED
          BY <2>7, <3>1, <4>1, <4>2 DEF Contains
      <3>2. ASSUME NEW i \in 1..n, s[i] = q PROVE Contains(a \o b, q)
        <4>1. i # k
          BY <2>2, <3>2
        <4>2. i \in 1..(k - 1) \/ (i - 1 \in k..(n - 1) /\ (i - 1) + 1 = i)
          BY <2>1, <2>2, <4>1
        <4>3. i - 1 \in k..(n - 1) => (a \o b)[i - 1] = s[i]
          <5> SUFFICES ASSUME i - 1 \in k..(n - 1) PROVE (a \o b)[i - 1] = s[i]
            OBVIOUS
          <5>1. (i - 1) + 1 = i
            BY <3>2
          <5>2. (a \o b)[i - 1] = s[(i - 1) + 1]
            BY <2>7
          <5> QED
            BY <5>1, <5>2
        <4>4. /\ i \in 1..(k - 1) => i \in 1..Len(a \o b)
              /\ i - 1 \in k..(n - 1) => i - 1 \in 1..Len(a \o b)
          BY <2>1, <2>2, <2>7
        <4> QED
          BY <2>7, <3>2, <4>2, <4>3, <4>4 DEF Contains
      <3> QED
        BY <2>7, <3>1, <3>2 DEF Contains
    <2> QED
      BY <2>6, <2>7, <2>8
  <1> QED
    BY <1>1, <1>2

\* Of package q registry and settings say what they said.
Same(q) ==
    /\ entries'[q] = entries[q] /\ (Contains(roster', q) <=> Contains(roster, q))
    /\ (q \in removed' <=> q \in removed) /\ (q \in off' <=> q \in off)
    /\ (q \in lost' <=> q \in lost)

LEMMA RestKept ==
    ASSUME NEW q \in Packages, Same(q), AtRest(q)
    PROVE  AtRest(q)'
  BY DEF Same, AtRest, Listed, Mounted, Installed

\* Only the package in the hand of whoever has the lock is another.
LEMMA Worked ==
    ASSUME IInv, Told, NEW u \in Actors, Moved(u), up, UNCHANGED <<up, loading>>,
           todo[u] \in Steps \/ Free, roster' \in Seq(Packages), Remotely(u)',
           NEW p \in Packages,
           todo[u] \in Steps => op[u].id = p,
           todo'[u] \in Steps => op'[u].id = p /\ (p \in Locals => InHand(u)'),
           todo'[u] \notin Steps /\ p \in Locals => AtRest(p)',
           \A q \in Locals \ {p} : Same(q)
    PROVE  Told'
  <1>1. \A v \in Actors \ {u} : todo[v] \notin Steps /\ todo'[v] = todo[v] /\ op'[v] = op[v]
    BY FreeOrMine DEF IInv, Moved
  <1>2. ASSUME NEW v \in Actors
        PROVE  Remotely(v)' /\ (todo'[v] \in Steps /\ op'[v].id \in Locals => InHand(v)')
    <2>1. CASE v = u
      BY <2>1
    <2>2. CASE v # u
      BY <1>1, <2>2 DEF Told, Remotely
    <2> QED
      BY <2>1, <2>2
  <1>3. ASSUME NEW q \in Locals PROVE Held(q)' \/ AtRest(q)'
    <2>1. CASE q = p
      BY <2>1 DEF Held
    <2>2. CASE q # p
      <3>1. ~Held(q)
        BY <1>1, <2>2 DEF Held
      <3> QED
        BY <2>2, <3>1, RestKept DEF Told, Locals
    <2> QED
      BY <2>1, <2>2
  <1>4. loading' # None => loading' \in Seq(Packages)
    BY DEF Told
  <1> QED
    BY <1>2, <1>3, <1>4 DEF Told, Locals

\* A step of somebody without the lock, before and after.
LEMMA Aside ==
    ASSUME Told, NEW u \in Actors, Moved(u), UNCHANGED <<settings, entries, loading, up, lost>>,
           todo[u] \notin Steps, todo'[u] \notin Steps, Remotely(u)'
    PROVE  Told'
  <1> USE DEF settings
  <1>1. \A v \in Actors \ {u} : todo'[v] = todo[v] /\ op'[v] = op[v]
    BY DEF Moved
  <1>2. ASSUME NEW v \in Actors
        PROVE  Remotely(v)' /\ (todo'[v] \in Steps /\ op'[v].id \in Locals => InHand(v)')
    <2>1. CASE v = u
      BY <2>1
    <2>2. CASE v # u
      BY <1>1, <2>2 DEF Told, Remotely, InHand, Locals, Installed, Listed, Mounted
    <2> QED
      BY <2>1, <2>2
  <1>3. ASSUME NEW q \in Locals PROVE Held(q)' <=> Held(q)
    BY <1>1 DEF Held
  <1>4. ASSUME NEW q \in Locals
        PROVE  (AtRest(q)' <=> AtRest(q)) /\ (Loaded(q)' <=> Loaded(q))
    BY DEF AtRest, Loaded, Installed, Listed, Mounted
  <1> QED
    BY <1>2, <1>3, <1>4 DEF Told, Locals

LEMMA EndedIsRemotely ==
    ASSUME NEW u \in Actors, todo'[u] \in {"none", "done"}, op'[u] = NoOp
    PROVE  Remotely(u)' /\ todo'[u] \notin Steps
  BY DEF Remotely, NoOp, RemoteKinds, Steps

LEMMA EndAside ==
    ASSUME IInv, Told, NEW u \in Actors, End(u), todo[u] \notin Steps,
           UNCHANGED <<settings, entries, loading, up, lost>>
    PROVE  Told'
  <1>1. Moved(u) /\ todo'[u] \in {"none", "done"} /\ op'[u] = NoOp
    BY EndMoves DEF IInv
  <1> QED
    BY <1>1, EndedIsRemotely, Aside

LEMMA OthersSay == others' = others => UNCHANGED <<settings, loading, up, lost>>
  BY DEF others, settings

LEMMA Disjoint ==
    /\ \A w \in {"none", "done", "settings", "fetch", "lock", "again"} : w \notin Steps
    /\ \A w \in {"replace", "unlist", "unregister", "register", "list", "save", "drop"} :
           w \in Steps
  BY DEF Steps

\* Somebody asks for a connection.
LEMMA FetchAside ==
    ASSUME IInv, Told, NEW u \in Actors, todo[u] \notin Steps, NEW p \in Remotes,
           NEW kind \in RemoteKinds, Go(u, kind, p, None, "fetch"),
           UNCHANGED <<settings, entries, loading, up, lost>>
    PROVE  Told'
  <1>1. kind \in Kinds /\ p \in Packages
    BY ManifestsAre DEF RemoteKinds, Kinds
  <1>2. /\ Moved(u) /\ todo'[u] = "fetch"
        /\ op'[u] = [kind |-> kind, id |-> p, new |-> None, old |-> entries[p], undo |-> FALSE]
    BY <1>1, GoMoves DEF IInv, Waits
  <1> QED
    BY <1>2, Disjoint, Aside DEF Remotely

\* Somebody takes the lock and a package.
LEMMA Taken ==
    ASSUME IInv, Told, Free, NEW u \in Actors, todo[u] \in Waits,
           NEW kind \in Kinds, NEW p \in Packages, NEW new \in AnyManifest \cup {None, Gone},
           NEW step \in {"unlist", "register", "replace", "save"},
           Go(u, kind, p, new, step), UNCHANGED <<settings, entries, loading, up, lost>>,
           kind \in RemoteKinds => p \in Remotes,
           p \in Locals =>
               /\ kind \in {"install", "reload", "remove", "enable", "disable"}
               /\ kind = "install" <=> p \notin Listed
               /\ step = "unlist" => Mounted(p) /\ kind \in {"reload", "remove", "disable"}
               /\ step = "register" => ~Mounted(p) /\ kind \in {"install", "enable"}
               /\ step = "replace" => ~Mounted(p) /\ kind = "reload"
               /\ step = "save" => /\ kind \in {"remove", "enable", "disable"}
                                   /\ Mounted(p) <=> kind = "enable"
    PROVE  Told'
  <1> USE DEF settings
  <1>1. step \in Steps /\ up
    BY Disjoint DEF Free
  <1>2. /\ Moved(u) /\ todo'[u] = step
        /\ op'[u] = [kind |-> kind, id |-> p, new |-> new, old |-> entries[p], undo |-> FALSE]
    BY <1>1, GoMoves DEF IInv
  <1>3. \A v \in Actors : todo[v] \notin Steps
    BY StepsAndWaits DEF Free
  <1>4. ASSUME p \in Locals PROVE InHand(u)'
    <2>1. AtRest(p)
      BY <1>1, <1>3, <1>4 DEF Told, Held
    <2>2. op'[u].id = p /\ op'[u].kind = kind /\ op'[u].old = entries[p] /\ op'[u].undo = FALSE
      BY <1>2
    <2>3. /\ p \in Listed' <=> p \in Listed
          /\ Mounted(p)' <=> Mounted(p)
          /\ Installed(p)' <=> Installed(p)
      BY DEF Listed, Mounted, Installed
    <2>4. entries[p].scope # 0 <=> Mounted(p)
      BY DEF Mounted
    <2>5. /\ op'[u].id \in Listed' <=> p \in Listed
          /\ Mounted(op[u].id)' <=> Mounted(p)
          /\ Installed(op[u].id)' <=> Installed(p)
      BY <2>2, <2>3 DEF Mounted, Installed
    <2> QED
      BY <1>2, <1>4, <2>1, <2>2, <2>4, <2>5 DEF InHand, AtRest
  <1>5. Remotely(u)'
    BY <1>1, <1>2, Disjoint DEF Remotely
  <1>6. \A q \in Locals : Same(q)
    BY DEF Same
  <1>7. roster' \in Seq(Packages)
    BY DEF Told
  <1> QED
    BY <1>1, <1>2, <1>3, <1>4, <1>5, <1>6, <1>7, Worked

LEMMA MountedIsListed ==
    ASSUME IInv, Free, NEW p \in Packages, Mounted(p)
    PROVE  p \in Listed
  <1>1. Settled
    BY StepsAndWaits DEF Free, Settled, Steps
  <1> QED
    BY <1>1 DEF IInv, Registry, Agree, Mounted, Listed

LEMMA RequestTells ==
    ASSUME IInv, Told, NEW u \in Requests, NEW p \in Packages, Request(u, p)
    PROVE  Told'
  <1> USE DEF host, Locals
  <1>1. CASE Install(u, p)
    <2>1. ~Mounted(p)
      BY <1>1, MountedIsListed DEF Install
    <2> QED
      BY <1>1, <2>1, IdleIs, OthersSay, DiskIs, Taken DEF Install, Kinds, RemoteKinds
  <1>2. CASE Reload(u, p)
    <2>1. CASE Mounted(p)
      BY <1>2, <2>1, IdleIs, OthersSay, DiskIs, Taken DEF Reload, Kinds, RemoteKinds
    <2>2. CASE ~Mounted(p)
      BY <1>2, <2>2, IdleIs, OthersSay, DiskIs, Taken DEF Reload, Kinds, RemoteKinds
    <2> QED
      BY <2>1, <2>2
  <1>3. CASE Uninstall(u, p)
    <2>1. CASE Mounted(p)
      BY <1>3, <2>1, IdleIs, OthersSay, Taken DEF Uninstall, Kinds, RemoteKinds
    <2>2. CASE ~Mounted(p)
      BY <1>3, <2>2, IdleIs, OthersSay, Taken DEF Uninstall, Kinds, RemoteKinds
    <2> QED
      BY <2>1, <2>2
  <1>4. CASE Enable(u, p)
    <2>1. Free /\ UNCHANGED <<settings, entries, loading, up, lost>> /\ p \in Listed
      BY <1>4, OthersSay DEF Enable
    <2>2. u \in Actors /\ todo[u] \in Waits
      BY <1>4, IdleIs, ManifestsAre DEF Enable, Waits
    <2>3. Current(p) \in AnyManifest \cup {None, Gone}
      BY DiskIs, TypesNow DEF Current
    <2>4. CASE Mounted(p)
      <3>1. Go(u, "enable", p, Current(p), "save")
        BY <1>4, <2>4 DEF Enable
      <3> QED
        BY <2>1, <2>2, <2>3, <2>4, <3>1, Taken DEF Kinds, RemoteKinds
    <2>5. CASE ~Mounted(p)
      <3>1. Go(u, "enable", p, Current(p), "register")
        BY <1>4, <2>5 DEF Enable
      <3> QED
        BY <2>1, <2>2, <2>3, <2>5, <3>1, Taken DEF Kinds, RemoteKinds
    <2> QED
      BY <2>4, <2>5
  <1>5. CASE Disable(u, p)
    <2>1. CASE Mounted(p)
      BY <1>5, <2>1, IdleIs, OthersSay, Taken DEF Disable, Kinds, RemoteKinds
    <2>2. CASE ~Mounted(p)
      BY <1>5, <2>2, IdleIs, OthersSay, Taken DEF Disable, Kinds, RemoteKinds
    <2> QED
      BY <2>1, <2>2
  <1>6. CASE Connect(u, p)
    <2>1. PICK kind \in RemoteKinds : Go(u, kind, p, None, "fetch") /\ p \in Remotes
      BY <1>6 DEF Connect, RemoteKinds
    <2>2. todo[u] \notin Steps
      BY <1>6, IdleIs, StepsAndWaits DEF Connect
    <2> QED
      BY <1>6, <2>1, <2>2, IdleIs, OthersSay, FetchAside DEF Connect
  <1> QED
    BY <1>1, <1>2, <1>3, <1>4, <1>5, <1>6 DEF Request

LEMMA FetchTells ==
    ASSUME IInv, Told, NEW u \in Actors, Fetch(u) \/ TooLate(u)
    PROVE  Told'
  <1> USE DEF host
  <1>1. todo[u] \notin Steps /\ UNCHANGED <<settings, entries, loading, up, lost>>
    BY Disjoint, OthersSay DEF Fetch, TooLate
  <1>2. CASE End(u)
    BY <1>1, <1>2, EndAside
  <1>3. CASE /\ Fetch(u) /\ Usable(disk[op[u].id])
             /\ op' = [op EXCEPT ![u].new = disk[op[u].id]]
             /\ todo' = [todo EXCEPT ![u] = "lock"]
    <2>1. op[u] \in Ops /\ op[u].id \in Packages
      BY <1>3 DEF Fetch, IInv, TypeOK, Registry, Asked
    <2>2. disk[op[u].id] \in AnyManifest
      BY <1>3, <2>1, DiskIs
    <2>3. op'[u] = [op[u] EXCEPT !.new = disk[op[u].id]] /\ op'[u] \in Ops
      BY <1>3, <2>1, <2>2 DEF IInv, TypeOK, Ops
    <2>4. Moved(u) /\ todo'[u] = "lock"
      BY <1>3, <2>3 DEF Moved, IInv, TypeOK, Waits
    <2>5. op'[u].kind = op[u].kind /\ op'[u].id = op[u].id
      BY <2>1, <2>3 DEF Ops
    <2>6. Remotely(u)'
      BY <2>4, <2>5 DEF Remotely, Told
    <2> QED
      BY <1>1, <2>4, <2>6, Disjoint, Aside
  <1> QED
    BY <1>2, <1>3 DEF Fetch, TooLate

LEMMA AdoptTells ==
    ASSUME IInv, Told, NEW u \in Actors, Adopt(u)
    PROVE  Told'
  <1> USE DEF host
  <1>1. /\ Free /\ up /\ todo[u] = "lock" /\ todo[u] \notin Steps
        /\ UNCHANGED <<settings, entries, loading, up, lost>>
    BY OthersSay, Disjoint DEF Adopt, Free
  <1>2. op[u].id \in Packages /\ op[u].id \in Remotes
    BY <1>1 DEF IInv, Registry, Asked, Told, Remotely, RemoteKinds
  <1>3. CASE End(u)
    BY <1>1, <1>3, EndAside
  <1>4. ASSUME NEW step \in {"register", "unlist", "replace"}, op' = op,
               todo' = [todo EXCEPT ![u] = step]
        PROVE  Told'
    <2>1. step \in Steps
      BY Disjoint
    <2>2. Moved(u) /\ todo'[u] = step /\ op'[u] = op[u]
      BY <1>4, <2>1 DEF Moved, IInv, TypeOK
    <2>3. Remotely(u)'
      BY <1>2, <2>2 DEF Remotely
    <2>4. roster' \in Seq(Packages) /\ \A q \in Locals : Same(q)
      BY <1>1 DEF Told, Same, settings
    <2> QED
      BY <1>1, <1>2, <2>1, <2>2, <2>3, <2>4, Worked DEF Locals
  <1> QED
    BY <1>1, <1>3, <1>4 DEF Adopt

LEMMA RestoreTells ==
    ASSUME IInv, Told, ReadSettings \/ Quieten \/ \E p \in Remotes : ConnectNext(p)
    PROVE  Told'
  <1> USE ManifestsAre DEF host
  <1>1. CASE ReadSettings
    <2>1. /\ todo[Startup] = "settings" /\ UNCHANGED <<settings, entries, loading, up, lost, op>>
          /\ todo' = [todo EXCEPT ![Startup] = "none"]
      BY <1>1, OthersSay DEF ReadSettings
    <2>2. Moved(Startup) /\ todo'[Startup] = "none"
      BY <2>1 DEF Moved, IInv, TypeOK, Waits
    <2>3. Remotely(Startup)'
      BY <2>1, <2>2 DEF Told, Remotely
    <2> QED
      BY <2>1, <2>2, <2>3, Disjoint, Aside
  <1>2. CASE Quieten
    <2> DEFINE p == op[Startup].id
    <2>1. /\ Free /\ up /\ todo[Startup] = "again" /\ todo[Startup] \notin Steps
          /\ UNCHANGED <<settings, entries, loading, up, lost>>
      BY <1>2, OthersSay, Disjoint DEF Quieten, Free
    <2>2. CASE End(Startup)
      BY <2>1, <2>2, EndAside
    <2>3. CASE Go(Startup, "quiet", p, None, "unlist")
      <3>1. p \in Remotes
        BY <2>1 DEF Told, Remotely
      <3> QED
        BY <2>1, <2>3, <3>1, Taken DEF Kinds, Waits, Locals
    <2> QED
      BY <1>2, <2>2, <2>3 DEF Quieten
  <1>3. CASE \E p \in Remotes : ConnectNext(p)
    <2> PICK p \in Remotes : ConnectNext(p)
      BY <1>3
    <2>1. /\ todo[Startup] \notin Steps /\ Go(Startup, "restore", p, None, "fetch")
          /\ UNCHANGED <<settings, entries, loading, up, lost>>
      BY OthersSay, Disjoint DEF ConnectNext
    <2> QED
      BY <2>1, FetchAside DEF RemoteKinds
  <1> QED
    BY <1>1, <1>2, <1>3

\* The holder of the lock and what is in its hand.
LEMMA HeldNow ==
    ASSUME IInv, Told, NEW u \in Actors, NEW step \in Steps, AtStep(u, step)
    PROVE  /\ up /\ todo[u] = step /\ todo[u] \in Steps /\ Remotely(u) /\ Midway(u)
           /\ op[u].id \in Packages /\ op[u] \in Ops /\ roster \in Seq(Packages)
           /\ step \in {"register", "replace", "list"} => op[u].new \in AnyManifest
           /\ op[u].id \in Locals => InHand(u)
           /\ op[u].id \in Locals \/ op[u].id \in Remotes
  BY AtWork, TypesNow DEF Told, Locals

LEMMA ThenGoes ==
    ASSUME IInv, NEW u \in Actors, NEW step, step \in Waits \cup Steps \/ step = "end",
           Then(u, step)
    PROVE  /\ Moved(u)
           /\ \/ step # "end" /\ todo'[u] = step /\ op'[u] = op[u]
              \/ step = "end" /\ todo'[u] \in {"none", "done"} /\ op'[u] = NoOp
  <1>1. CASE step = "end"
    BY <1>1, EndMoves DEF Then, IInv
  <1>2. CASE step # "end"
    BY <1>2, ThenMoves DEF IInv
  <1> QED
    BY <1>1, <1>2

\* The registry is another for package p only.
LEMMA OnlyMine ==
    ASSUME Told, NEW p \in Packages, UNCHANGED <<settings, lost>>,
           \A q \in Packages \ {p} : entries'[q] = entries[q]
    PROVE  roster' \in Seq(Packages) /\ \A q \in Locals \ {p} : Same(q)
  BY DEF Told, Same, settings, Locals

\* Whoever works on a remote package goes on with it, or ends.
LEMMA RemoteTells ==
    ASSUME IInv, Told, NEW u \in Actors, todo[u] \in Steps, op[u].id \in Remotes, Moved(u),
           \/ op'[u].id = op[u].id
           \/ op'[u] = NoOp /\ todo'[u] \in {"none", "done"},
           up, UNCHANGED <<up, loading>>, roster' \in Seq(Packages),
           \A q \in Locals \ {op[u].id} : Same(q)
    PROVE  Told'
  <1>1. Remotely(u)'
    BY EndedIsRemotely DEF Remotely
  <1>2. op[u].id \in Packages /\ op[u].id \notin Locals
    BY ManifestsAre DEF Locals
  <1>3. todo'[u] \in Steps => op'[u].id = op[u].id
    BY EndedIsRemotely
  <1> QED
    BY <1>1, <1>2, <1>3, Worked

LEMMA ReplaceTells ==
    ASSUME IInv, Told, NEW u \in Actors, Replace(u)
    PROVE  Told'
  <1>1. AtStep(u, "replace") /\ "replace" \in Steps
    BY Disjoint DEF Replace
  <1> PICK p \in Packages : p = op[u].id
    BY <1>1, HeldNow
  <1>2. /\ up /\ todo[u] = "replace" /\ todo[u] \in Steps /\ p \in Packages
        /\ op[u].new \in AnyManifest /\ (p \in Locals => InHand(u))
        /\ p \in Locals \/ p \in Remotes
    BY <1>1, HeldNow
  <1>3. UNCHANGED <<settings, lost, up, loading>>
    BY OthersSay DEF Replace
  <1>4. /\ entries'[p].manifest = op[u].new /\ entries'[p].scope = 0
        /\ \A q \in Packages \ {p} : entries'[q] = entries[q]
    <2>1. entries' = [entries EXCEPT ![p] = [manifest |-> op[u].new, scope |-> 0]]
      BY DEF Replace, Enter
    <2> QED
      BY <2>1, TypesNow
  <1>5. roster' \in Seq(Packages) /\ \A q \in Locals \ {p} : Same(q)
    BY <1>2, <1>3, <1>4, OnlyMine
  <1>6. /\ Moved(u)
        /\ \/ op[u].kind = "turn_on" /\ op'[u] = op[u]
           \/ op[u].kind # "turn_on" /\ todo'[u] \in {"none", "done"} /\ op'[u] = NoOp
    <2>1. "again" \in Waits
      BY DEF Waits
    <2> QED
      BY <2>1, ThenGoes DEF Replace
  <1>7. CASE p \in Remotes
    BY <1>2, <1>3, <1>5, <1>6, <1>7, RemoteTells
  <1>8. CASE p \in Locals
    <2>1. /\ op[u].kind = "reload" /\ op[u].old.scope = 0
          /\ p \notin lost => Installed(p) /\ ~(Installed(p) /\ p \notin off)
      BY <1>2, <1>8 DEF InHand
    <2>2. AtRest(p)'
      <3>1. p \in Listed' /\ ~Mounted(p)' /\ (Installed(p)' <=> Installed(p))
        BY <1>2, <1>3, <1>4, ManifestsAre DEF Listed, Mounted, Installed, settings
      <3> QED
        BY <1>3, <2>1, <3>1 DEF AtRest, settings
    <2> QED
      BY <1>2, <1>3, <1>5, <1>6, <2>1, <2>2, EndedIsRemotely, Worked
  <1> QED
    BY <1>2, <1>7, <1>8

LEMMA UnlistTells ==
    ASSUME IInv, Told, NEW u \in Actors, Unlist(u)
    PROVE  Told'
  <1>1. AtStep(u, "unlist") /\ "unlist" \in Steps
    BY Disjoint DEF Unlist
  <1> PICK p \in Packages : p = op[u].id
    BY <1>1, HeldNow
  <1>2. /\ up /\ todo[u] = "unlist" /\ todo[u] \in Steps
        /\ (p \in Locals => InHand(u)) /\ (p \in Locals \/ p \in Remotes)
    BY <1>1, HeldNow
  <1>3. UNCHANGED <<settings, lost, up, loading>>
    BY OthersSay DEF Unlist
  <1>4. /\ entries'[p].manifest = entries[p].manifest /\ entries'[p].scope = 0
        /\ \A q \in Packages \ {p} : entries'[q] = entries[q]
    BY TypesNow DEF Unlist, Entries
  <1>5. roster' \in Seq(Packages) /\ \A q \in Locals \ {p} : Same(q)
    BY <1>3, <1>4, OnlyMine
  <1>6. Moved(u) /\ todo'[u] = "unregister" /\ op'[u] = op[u] /\ todo'[u] \in Steps
    <2>1. "unregister" \in Steps
      BY Disjoint
    <2> QED
      BY <2>1, ThenGoes DEF Unlist
  <1>7. CASE p \in Remotes
    BY <1>2, <1>3, <1>5, <1>6, <1>7, RemoteTells
  <1>8. CASE p \in Locals
    <2>1. InHand(u)'
      <3>1. /\ p \in Listed' <=> p \in Listed
            /\ ~Mounted(p)' /\ (Installed(p)' <=> Installed(p))
        BY <1>3, <1>4 DEF Listed, Mounted, Installed, settings
      <3>2. /\ op[u].id \in Listed' <=> p \in Listed
            /\ ~Mounted(op[u].id)' /\ (Installed(op[u].id)' <=> Installed(p))
        BY <1>6, <3>1 DEF Mounted, Installed
      <3> QED
        BY <1>2, <1>3, <1>6, <1>8, <3>2 DEF InHand, settings
    <2>2. Remotely(u)'
      BY <1>6, HeldNow, <1>1 DEF Remotely
    <2> QED
      BY <1>2, <1>3, <1>5, <1>6, <2>1, <2>2, Worked
  <1> QED
    BY <1>2, <1>7, <1>8

LEMMA UnregisterTells ==
    ASSUME IInv, Told, NEW u \in Actors, Unregister(u)
    PROVE  Told'
  <1>1. AtStep(u, "unregister") /\ "unregister" \in Steps
    BY Disjoint DEF Unregister
  <1> PICK p \in Packages : p = op[u].id
    BY <1>1, HeldNow
  <1>2. /\ up /\ todo[u] = "unregister" /\ todo[u] \in Steps /\ Remotely(u)
        /\ (p \in Locals => InHand(u)) /\ (p \in Locals \/ p \in Remotes)
    BY <1>1, HeldNow
  <1>3. UNCHANGED <<entries, settings, lost, up, loading>>
    BY OthersSay DEF Unregister
  <1>4. roster' \in Seq(Packages) /\ \A q \in Locals \ {p} : Same(q)
    BY <1>3, OnlyMine
  <1>5. \E step \in {"register", "drop", "save", "end"} :
            /\ Then(u, step)
            /\ step = "register" <=> op[u].kind \in Renews
            /\ step = "drop" <=> op[u].kind \in Creates
            /\ step = "save" <=> op[u].kind \in {"remove", "disable"}
    BY DEF Unregister, Renews, Creates
  <1> PICK step \in {"register", "drop", "save", "end"} :
            /\ Then(u, step)
            /\ step = "register" <=> op[u].kind \in Renews
            /\ step = "drop" <=> op[u].kind \in Creates
            /\ step = "save" <=> op[u].kind \in {"remove", "disable"}
    BY <1>5
  <1>6. /\ Moved(u)
        /\ \/ step # "end" /\ todo'[u] = step /\ op'[u] = op[u] /\ todo'[u] \in Steps
           \/ step = "end" /\ todo'[u] \in {"none", "done"} /\ op'[u] = NoOp
    BY Disjoint, ThenGoes
  <1>7. CASE p \in Remotes
    BY <1>2, <1>3, <1>4, <1>6, <1>7, RemoteTells
  <1>8. CASE p \in Locals
    <2>1. InHand(u)
      BY <1>2, <1>8
    <2>2. CASE step # "end"
      <3>1. /\ op'[u].id \in Listed' <=> p \in Listed
            /\ Mounted(op[u].id)' <=> Mounted(p)
            /\ Installed(op[u].id)' <=> Installed(p)
        BY <1>3, <1>6, <2>2 DEF Listed, Mounted, Installed, settings
      <3>2. InHand(u)'
        BY <1>2, <1>3, <1>6, <2>1, <2>2, <3>1 DEF InHand, settings, Renews, Creates
      <3>3. Remotely(u)'
        BY <1>2, <1>6, <2>2, Disjoint DEF Remotely
      <3> QED
        BY <1>2, <1>3, <1>4, <1>6, <2>2, <3>2, <3>3, Worked
    <2>3. CASE step = "end"
      <3>1. AtRest(p)
        BY <1>2, <2>1, <2>3 DEF InHand, AtRest, Renews, Creates
      <3>2. AtRest(p)'
        BY <1>3, <3>1 DEF AtRest, Listed, Mounted, Installed, settings
      <3> QED
        BY <1>2, <1>3, <1>4, <1>6, <2>3, <3>2, EndedIsRemotely, Worked
    <2> QED
      BY <2>2, <2>3
  <1> QED
    BY <1>2, <1>7, <1>8

LEMMA MountTells ==
    ASSUME IInv, Told, NEW u \in Actors, MountNew(u)
    PROVE  Told'
  <1>1. AtStep(u, "register") /\ "register" \in Steps
    BY Disjoint DEF MountNew
  <1> PICK p \in Packages : p = op[u].id
    BY <1>1, HeldNow
  <1>2. /\ up /\ todo[u] = "register" /\ todo[u] \in Steps /\ Remotely(u)
        /\ (p \in Locals => InHand(u)) /\ (p \in Locals \/ p \in Remotes)
    BY <1>1, HeldNow
  <1>3. UNCHANGED <<entries, settings, up, loading>>
    BY DEF MountNew
  <1>4. /\ lost' = lost \/ lost' = lost \cup {p}
        /\ roster' \in Seq(Packages) /\ \A q \in Locals \ {p} : Same(q)
    <2>1. lost' = lost \/ lost' = lost \cup {p}
      BY DEF MountNew
    <2> QED
      BY <1>3, <2>1 DEF Told, Same, settings
  <1>5. CASE Then(u, "list") /\ UNCHANGED lost
    <2>1. Moved(u) /\ todo'[u] = "list" /\ op'[u] = op[u] /\ todo'[u] \in Steps
      <3>1. "list" \in Steps
        BY Disjoint
      <3> QED
        BY <1>5, <3>1, ThenGoes
    <2>2. ASSUME p \in Locals PROVE InHand(u)'
      <3>1. /\ op'[u].id \in Listed' <=> p \in Listed
            /\ Mounted(op[u].id)' <=> Mounted(p)
            /\ Installed(op[u].id)' <=> Installed(p)
        BY <1>3, <2>1 DEF Listed, Mounted, Installed, settings
      <3> QED
        BY <1>2, <1>3, <1>5, <2>1, <2>2, <3>1 DEF InHand, settings
    <2>3. Remotely(u)'
      BY <1>2, <2>1, Disjoint DEF Remotely
    <2> QED
      BY <1>2, <1>3, <1>4, <2>1, <2>2, <2>3, Worked
  <1>6. CASE op[u].kind \in Renews /\ ~op[u].undo /\ UNCHANGED lost
             /\ Retry(u, "register", op[u].old.manifest)
    <2>1. op[u].old.manifest \in AnyManifest \cup {None, Gone} /\ op[u] \in Ops
      BY TypesNow
    <2>2. PICK m \in AnyManifest \cup {None, Gone} : m = op[u].old.manifest
      BY <2>1
    <2>3. Moved(u) /\ todo'[u] = "register" /\ op'[u] = [op[u] EXCEPT !.undo = TRUE, !.new = m]
      <3>1. "register" \in Waits \cup Steps /\ TypeOK /\ Retry(u, "register", m)
        BY <1>1, <1>6, <2>2 DEF IInv
      <3> QED
        BY <3>1, RetryMoves
    <2>4. op'[u].id = p /\ op'[u].kind = op[u].kind /\ op'[u].old = op[u].old /\ op'[u].undo = TRUE
      BY <2>1, <2>3 DEF Ops
    <2>5. ASSUME p \in Locals PROVE InHand(u)'
      <3>1. /\ op'[u].id \in Listed' <=> p \in Listed
            /\ Mounted(op[u].id)' <=> Mounted(p)
            /\ Installed(op[u].id)' <=> Installed(p)
        BY <1>3, <2>4 DEF Listed, Mounted, Installed, settings
      <3>2. op[u].kind = "reload"
        BY <1>2, <1>6, <2>5 DEF InHand, Renews
      <3> QED
        BY <1>2, <1>3, <1>6, <2>3, <2>4, <2>5, <3>1, <3>2 DEF InHand, settings
    <2>6. Remotely(u)'
      BY <1>2, <2>3, <2>4, Disjoint DEF Remotely
    <2> QED
      BY <1>1, <1>2, <1>3, <1>4, <2>3, <2>4, <2>5, <2>6, Worked
  <1>7. CASE /\ End(u) /\ ~(op[u].kind \in Renews /\ ~op[u].undo)
             /\ lost' = IF op[u].undo THEN lost \cup {p} ELSE lost
    <2>1. Moved(u) /\ todo'[u] \in {"none", "done"} /\ op'[u] = NoOp
      BY <1>7, EndMoves DEF IInv
    <2>2. ASSUME p \in Locals PROVE AtRest(p)'
      <3>1. InHand(u)
        BY <1>2, <2>2
      <3>2. (p \notin lost => (p \in Listed <=> Installed(p))) /\ ~Mounted(p)
        BY <1>2, <3>1 DEF InHand
      <3>3. op[u].undo \/ (p \notin lost => ~(Installed(p) /\ p \notin off))
        BY <1>2, <1>7, <3>1 DEF InHand, Renews
      <3> QED
        BY <1>3, <1>7, <3>2, <3>3 DEF AtRest, Listed, Mounted, Installed, settings
    <2> QED
      BY <1>2, <1>3, <1>4, <2>1, <2>2, EndedIsRemotely, Worked
  <1> QED
    BY <1>5, <1>6, <1>7 DEF MountNew

LEMMA ListTells ==
    ASSUME IInv, Told, NEW u \in Actors, List(u)
    PROVE  Told'
  <1>1. AtStep(u, "list") /\ "list" \in Steps
    BY Disjoint DEF List
  <1> PICK p \in Packages : p = op[u].id
    BY <1>1, HeldNow
  <1>2. /\ up /\ todo[u] = "list" /\ todo[u] \in Steps /\ Remotely(u)
        /\ (p \in Locals => InHand(u)) /\ (p \in Locals \/ p \in Remotes)
        /\ op[u].new \in AnyManifest
    BY <1>1, HeldNow
  <1>3. UNCHANGED <<settings, lost, up, loading>>
    BY DEF List
  <1>4. /\ entries'[p].manifest = op[u].new /\ entries'[p].scope # 0
        /\ \A q \in Packages \ {p} : entries'[q] = entries[q]
    <2>1. PICK s \in ScopesOf(p) : entries' = [entries EXCEPT ![p] = [manifest |-> op[u].new, scope |-> s]]
      BY DEF List, Enter
    <2>2. s # 0
      BY TypesNow DEF ScopesOf
    <2> QED
      BY <2>1, <2>2, TypesNow
  <1>5. roster' \in Seq(Packages) /\ \A q \in Locals \ {p} : Same(q)
    BY <1>3, <1>4, OnlyMine
  <1>6. \E step \in {"end", "save", "again"} :
            /\ Then(u, step)
            /\ op[u].undo => step = "end"
            /\ ~op[u].undo /\ op[u].kind \in {"install", "enable"} => step = "save"
            /\ ~op[u].undo /\ op[u].kind = "reload" => step = "end"
    <2> DEFINE kind == op[u].kind
    <2>0. op[u].undo \in BOOLEAN
      BY TypesNow DEF Ops
    <2>1. CASE op[u].undo = TRUE
      <3>1. Then(u, "end")
        BY <2>1 DEF List
      <3> QED
        BY <2>1, <3>1
    <2>2. CASE op[u].undo = FALSE /\ kind \in Creates \cup {"enable"}
      <3>1. Then(u, "save")
        BY <2>2 DEF List, Creates
      <3> QED
        BY <2>2, <3>1 DEF Creates
    <2>3. CASE op[u].undo = FALSE /\ kind \notin Creates \cup {"enable"}
      <3>1. (Then(u, "again") /\ kind # "reload") \/ Then(u, "end")
        BY <2>3 DEF List
      <3> QED
        BY <2>3, <3>1 DEF Creates
    <2> QED
      BY <2>0, <2>1, <2>2, <2>3
  <1> PICK step \in {"end", "save", "again"} :
            /\ Then(u, step)
            /\ op[u].undo => step = "end"
            /\ ~op[u].undo /\ op[u].kind \in {"install", "enable"} => step = "save"
            /\ ~op[u].undo /\ op[u].kind = "reload" => step = "end"
    BY <1>6
  <1>7. /\ Moved(u)
        /\ \/ step # "end" /\ todo'[u] = step /\ op'[u] = op[u]
           \/ step = "end" /\ todo'[u] \in {"none", "done"} /\ op'[u] = NoOp
    <2>1. step \in Waits \cup Steps \/ step = "end"
      BY DEF Waits, Steps
    <2> QED
      BY <2>1, ThenGoes
  <1>8. CASE p \in Remotes
    BY <1>2, <1>3, <1>5, <1>7, <1>8, RemoteTells
  <1>9. CASE p \in Locals
    <2>1. InHand(u)
      BY <1>2, <1>9
    <2>2. p \in Listed' /\ Mounted(p)' /\ (Installed(p)' <=> Installed(p))
      BY <1>2, <1>3, <1>4, ManifestsAre DEF Listed, Mounted, Installed, settings
    <2>3. CASE step = "end"
      <3>1. op[u].undo \/ op[u].kind = "reload"
        BY <1>2, <2>1, <2>3 DEF InHand
      <3>2. AtRest(p)'
        BY <1>2, <1>3, <2>1, <2>2, <3>1 DEF AtRest, InHand, settings
      <3> QED
        BY <1>2, <1>3, <1>5, <1>7, <2>3, <3>2, EndedIsRemotely, Worked
    <2>4. CASE step # "end"
      <3>1. ~op[u].undo /\ op[u].kind \in {"install", "enable"} /\ todo'[u] = "save" /\ op'[u] = op[u]
        BY <1>2, <1>7, <2>1, <2>4 DEF InHand
      <3>2. op'[u].id \in Listed' /\ Mounted(op[u].id)' /\ (Installed(op[u].id)' <=> Installed(p))
        BY <2>2, <3>1 DEF Mounted, Installed
      <3>3. InHand(u)'
        BY <1>2, <1>3, <2>1, <3>1, <3>2 DEF InHand, settings
      <3>4. Remotely(u)' /\ todo'[u] \in Steps
        BY <1>2, <3>1, Disjoint DEF Remotely
      <3> QED
        BY <1>2, <1>3, <1>5, <1>7, <3>1, <3>3, <3>4, Worked
    <2> QED
      BY <2>3, <2>4
  <1> QED
    BY <1>2, <1>8, <1>9

\* The settings as an operation on package p writes them.
LEMMA WrittenSays ==
    ASSUME roster \in Seq(Packages), NEW p \in Packages, NEW kind, Written(p, kind)
    PROVE  /\ roster' \in Seq(Packages)
           /\ \A q \in Packages \ {p} : /\ Contains(roster', q) <=> Contains(roster, q)
                                        /\ q \in removed' <=> q \in removed
                                        /\ q \in off' <=> q \in off
           /\ kind \in Creates => Installed(p)'
           /\ kind = "remove" => ~Installed(p)'
           /\ kind \notin Creates \cup {"remove"} => (Installed(p)' <=> Installed(p))
           /\ p \in off' <=> kind = "disable"
  <1>1. /\ removed' = IF kind = "remove" THEN removed \cup {p}
                      ELSE IF kind \in Creates THEN removed \ {p} ELSE removed
        /\ off' = IF kind = "disable" THEN off \cup {p} ELSE off \ {p}
    BY DEF Written
  <1>2. /\ roster' \in Seq(Packages)
        /\ \A q \in Packages \ {p} : Contains(roster', q) <=> Contains(roster, q)
        /\ kind \in Creates => Contains(roster', p)
        /\ kind \notin Creates \cup {"remove"} => roster' = roster
    <2>1. CASE kind = "remove"
      <3>1. roster' = Retain(roster, p) \/ roster' = roster
        BY <2>1 DEF Written, Creates
      <3> QED
        BY <2>1, <3>1, RetainContains DEF Creates
    <2>2. CASE kind \in Creates
      <3>1. roster' = IF Contains(roster, p) THEN roster ELSE Append(roster, p)
        BY <2>2 DEF Written, Creates
      <3> QED
        BY <2>2, <3>1, AppendContains DEF Creates
    <2>3. CASE kind \notin Creates \cup {"remove"}
      <3>1. roster' = roster
        BY <2>3 DEF Written, Creates
      <3> QED
        BY <2>3, <3>1
    <2> QED
      BY <2>1, <2>2, <2>3
  <1> QED
    BY <1>1, <1>2 DEF Installed, Creates

LEMMA SaveTells ==
    ASSUME IInv, Told, NEW u \in Actors, Save(u)
    PROVE  Told'
  <1>1. AtStep(u, "save") /\ "save" \in Steps
    BY Disjoint DEF Save
  <1> PICK p \in Packages : p = op[u].id
    BY <1>1, HeldNow
  <1>2. /\ up /\ todo[u] = "save" /\ todo[u] \in Steps /\ Remotely(u)
        /\ (p \in Locals => InHand(u)) /\ (p \in Locals \/ p \in Remotes)
        /\ roster \in Seq(Packages)
    BY <1>1, HeldNow
  <1>3. UNCHANGED <<entries, up, loading>>
    BY DEF Save, host
  <1>4. /\ lost' = lost \ {p} \/ lost' = lost
        /\ op[u].kind = "remove" \/ Installed(p)' \/ lost' = lost
        /\ op[u].kind = "remove" => lost' = lost \ {p}
    BY DEF Save, Installed
  <1>5. /\ roster' \in Seq(Packages)
        /\ \A q \in Packages \ {p} : /\ Contains(roster', q) <=> Contains(roster, q)
                                     /\ q \in removed' <=> q \in removed
                                     /\ q \in off' <=> q \in off
        /\ op[u].kind \in Creates => Installed(p)'
        /\ op[u].kind = "remove" => ~Installed(p)'
        /\ op[u].kind \notin Creates \cup {"remove"} => (Installed(p)' <=> Installed(p))
        /\ p \in off' <=> op[u].kind = "disable"
    <2>1. Written(p, op[u].kind)
      BY DEF Save
    <2> QED
      BY <1>2, <2>1, WrittenSays
  <1>6. \A q \in Locals \ {p} : Same(q)
    BY <1>3, <1>4, <1>5 DEF Same, Locals
  <1>7. CASE op[u].kind = "remove"
    <2>1. Moved(u) /\ todo'[u] = "drop" /\ op'[u] = op[u] /\ todo'[u] \in Steps
      <3>1. "drop" \in Steps /\ Then(u, "drop")
        BY <1>7, Disjoint DEF Save
      <3> QED
        BY <3>1, ThenGoes
    <2>2. ASSUME p \in Locals PROVE InHand(u)'
      <3>1. p \in Listed' <=> p \in Listed
        BY <1>3 DEF Listed
      <3>2. Mounted(op[u].id)' <=> Mounted(p)
        BY <1>3, <2>1 DEF Mounted
      <3>3. ~Installed(op[u].id)'
        BY <1>5, <1>7, <2>1 DEF Installed
      <3> QED
        BY <1>2, <1>7, <2>1, <2>2, <3>1, <3>2, <3>3 DEF InHand
    <2>3. Remotely(u)'
      BY <1>2, <2>1, Disjoint DEF Remotely
    <2> QED
      BY <1>2, <1>3, <1>5, <1>6, <2>1, <2>2, <2>3, Worked
  <1>8. CASE op[u].kind # "remove"
    <2>1. Moved(u) /\ todo'[u] \in {"none", "done"} /\ op'[u] = NoOp
      BY <1>8, ThenGoes DEF Save
    <2>2. ASSUME p \in Locals PROVE AtRest(p)'
      <3>1. InHand(u) /\ op[u].kind \in {"install", "enable", "disable"}
        BY <1>2, <1>8, <2>2 DEF InHand
      <3>2. (p \in Listed' <=> p \in Listed) /\ (Mounted(p)' <=> Mounted(p))
        BY <1>3 DEF Listed, Mounted
      <3>3. p \in Listed /\ (Mounted(p) <=> op[u].kind # "disable")
        BY <1>2, <3>1 DEF InHand
      <3>4. p \notin lost' => Installed(p)'
        BY <1>2, <1>4, <1>5, <3>1 DEF InHand, Creates
      <3>5. p \in off' <=> op[u].kind = "disable"
        BY <1>5
      <3> QED
        BY <3>2, <3>3, <3>4, <3>5 DEF AtRest
    <2> QED
      BY <1>2, <1>3, <1>5, <1>6, <2>1, <2>2, EndedIsRemotely, Worked
  <1> QED
    BY <1>7, <1>8

LEMMA CannotSaveTells ==
    ASSUME IInv, Told, NEW u \in Actors, CannotSave(u)
    PROVE  Told'
  <1>1. AtStep(u, "save") /\ "save" \in Steps
    BY Disjoint DEF CannotSave
  <1> PICK p \in Packages : p = op[u].id
    BY <1>1, HeldNow
  <1>2. /\ up /\ todo[u] = "save" /\ todo[u] \in Steps /\ Remotely(u)
        /\ (p \in Locals => InHand(u)) /\ (p \in Locals \/ p \in Remotes)
    BY <1>1, HeldNow
  <1>3. UNCHANGED <<entries, up, loading>> /\ roster \in Seq(Packages)
    BY DEF CannotSave, host, Told
  <1>4. /\ UNCHANGED <<settings, lost>> \/ p \in lost'
        /\ roster' \in Seq(Packages) /\ \A q \in Locals \ {p} : Same(q)
    <2>1. CASE UNCHANGED <<settings, lost>>
      BY <1>3, <2>1, OnlyMine
    <2>2. CASE Written(p, op[u].kind) /\ lost' = lost \cup {p}
      BY <1>3, <2>2, WrittenSays DEF Same, Locals
    <2> QED
      BY <2>1, <2>2 DEF CannotSave
  <1>5. /\ p \in Listed' <=> p \in Listed
        /\ Mounted(p)' <=> Mounted(p)
        /\ p \notin lost' => /\ p \notin lost /\ (Installed(p)' <=> Installed(p))
                             /\ p \in off' <=> p \in off
    BY <1>3, <1>4 DEF Listed, Mounted, Installed, settings
  <1>6. ASSUME NEW step \in {"register", "unlist"}, NEW m \in AnyManifest \cup {None, Gone},
               Retry(u, step, m),
               step = "register" => op[u].old.scope # 0 /\ op[u].kind \in {"remove", "disable"},
               step = "unlist" => TakesBack(u)
        PROVE  Told'
    <2>1. step \in Steps /\ op[u] \in Ops
      BY Disjoint, TypesNow
    <2>2. Moved(u) /\ todo'[u] = step /\ op'[u] = [op[u] EXCEPT !.undo = TRUE, !.new = m]
      BY <1>6, <2>1, RetryMoves DEF IInv
    <2>3. op'[u].id = p /\ op'[u].kind = op[u].kind /\ op'[u].old = op[u].old /\ op'[u].undo = TRUE
      BY <2>1, <2>2 DEF Ops
    <2>4. ASSUME p \in Locals PROVE InHand(u)'
      <3>1. /\ op'[u].id \in Listed' <=> p \in Listed
            /\ Mounted(op[u].id)' <=> Mounted(p)
            /\ op'[u].id \notin lost' => /\ p \notin lost /\ (p \in off' <=> p \in off)
                                         /\ Installed(op[u].id)' <=> Installed(p)
        BY <1>5, <2>3 DEF Mounted, Installed
      <3> QED
        BY <1>2, <1>6, <2>2, <2>3, <2>4, <3>1 DEF InHand, Creates, TakesBack
    <2>5. Remotely(u)'
      BY <1>2, <2>1, <2>2, <2>3, Disjoint DEF Remotely
    <2> QED
      BY <1>2, <1>3, <1>4, <2>1, <2>2, <2>3, <2>4, <2>5, Worked
  <1>7. CASE /\ End(u)
             /\ ~(op[u].old.scope # 0 /\ op[u].kind \in {"remove", "disable"})
             /\ ~TakesBack(u)
    <2>1. Moved(u) /\ todo'[u] \in {"none", "done"} /\ op'[u] = NoOp
      BY <1>7, EndMoves DEF IInv
    <2>2. ASSUME p \in Locals PROVE AtRest(p)'
      <3>1. InHand(u)
        BY <1>2, <2>2
      <3>2. p \notin lost => (p \in Listed <=> Installed(p))
        BY <1>2, <1>7, <3>1 DEF InHand, Creates, TakesBack
      <3>3. Mounted(p) <=> op[u].old.scope # 0
        BY <1>2, <1>7, <3>1 DEF InHand, Creates, TakesBack
      <3>4. p \notin lost => (op[u].old.scope # 0 <=> Installed(p) /\ p \notin off)
        BY <1>2, <3>1 DEF InHand
      <3> QED
        BY <1>5, <3>2, <3>3, <3>4 DEF AtRest
    <2> QED
      BY <1>2, <1>3, <1>4, <2>1, <2>2, EndedIsRemotely, Worked
  <1>8. op[u].old.manifest \in AnyManifest \cup {None, Gone} /\ op[u].new \in AnyManifest \cup {None, Gone}
    BY TypesNow
  <1> QED
    BY <1>6, <1>7, <1>8 DEF CannotSave, TakesBack

LEMMA DropTells ==
    ASSUME IInv, Told, NEW u \in Actors, Drop(u)
    PROVE  Told'
  <1>1. AtStep(u, "drop") /\ "drop" \in Steps
    BY Disjoint DEF Drop
  <1> PICK p \in Packages : p = op[u].id
    BY <1>1, HeldNow
  <1>2. /\ up /\ todo[u] = "drop" /\ todo[u] \in Steps
        /\ (p \in Locals => InHand(u)) /\ (p \in Locals \/ p \in Remotes)
    BY <1>1, HeldNow
  <1>3. UNCHANGED <<settings, lost, up, loading>>
    BY DEF Drop
  <1>4. /\ entries'[p].manifest = None /\ entries'[p].scope = 0
        /\ \A q \in Packages \ {p} : entries'[q] = entries[q]
    <2>1. entries' = [entries EXCEPT ![p] = [manifest |-> None, scope |-> 0]]
      BY DEF Drop, Absent
    <2> QED
      BY <2>1, TypesNow
  <1>5. roster' \in Seq(Packages) /\ \A q \in Locals \ {p} : Same(q)
    BY <1>3, <1>4, OnlyMine
  <1>6. Moved(u) /\ todo'[u] \in {"none", "done"} /\ op'[u] = NoOp
    BY EndMoves DEF Drop, IInv
  <1>7. ASSUME p \in Locals PROVE AtRest(p)'
    <2>1. p \notin lost => ~Installed(p)
      BY <1>2, <1>7 DEF InHand
    <2>2. p \notin Listed' /\ ~Mounted(p)' /\ (p \notin lost' => ~Installed(p)')
      BY <1>3, <1>4, <2>1 DEF Listed, Mounted, Installed, settings
    <2> QED
      BY <2>2 DEF AtRest
  <1> QED
    BY <1>2, <1>3, <1>5, <1>6, <1>7, EndedIsRemotely, Worked

-----------------------------------------------------------------------------
(* What a start loads *)

LEMMA InitTells ==
    ASSUME Init
    PROVE  Told
  <1>1. roster \in Seq(Packages)
    <2>1. PICK S \in SUBSET Packages : IsFiniteSet(S) /\ roster \in SetToSeqs(S)
      BY DEF Init
    <2>2. PICK n \in Nat : n = Cardinality(S)
      BY <2>1, FS_CardinalityType
    <2>3. roster \in [1..n -> S]
      BY <2>1, <2>2 DEF SetToSeqs
    <2> QED
      BY <2>3
  <1>2. \A u \in Actors : todo[u] = "none" /\ op[u] = NoOp
    BY DEF Init
  <1>3. \A u \in Actors : Remotely(u) /\ todo[u] \notin Steps
    BY <1>2, Disjoint DEF Remotely, NoOp, RemoteKinds
  <1>4. \A p \in Locals : Loaded(p)
    BY DEF Init, Loaded, Listed, Mounted, NoEntries, Absent, Locals
  <1> QED
    BY <1>1, <1>3, <1>4 DEF Told, Init

\* Nobody has the lock while nothing is served.
LEMMA Starting ==
    ASSUME IInv, Told, ~up', \A u \in Actors : todo'[u] \in {"none", "done"},
           \A u \in Actors : Remotely(u)',
           roster' \in Seq(Packages), loading' # None => loading' \in Seq(Packages),
           \A p \in Locals : Loaded(p)'
    PROVE  Told'
  <1>1. \A u \in Actors : todo'[u] \notin Steps
    BY Disjoint
  <1> QED
    BY <1>1 DEF Told, Locals

LEMMA NothingLoaded ==
    ASSUME NEW p \in Packages, entries' = NoEntries, loading' = None
    PROVE  Loaded(p)'
  BY DEF Loaded, Listed, Mounted, NoEntries, Absent

LEMMA CrashTells ==
    ASSUME IInv, Told, Crash
    PROVE  Told'
  <1>1. /\ ~up' /\ entries' = NoEntries /\ loading' = loading /\ loading = None
        /\ roster' = roster
        /\ \A u \in Actors : todo'[u] \in {"none", "done"} /\ op'[u] = NoOp
    BY DEF Crash, Forget, IInv, Lock, settings
  <1>2. \A u \in Actors : Remotely(u)'
    BY <1>1, EndedIsRemotely
  <1>3. \A p \in Locals : Loaded(p)'
    BY <1>1, NothingLoaded DEF Locals
  <1>4. roster' \in Seq(Packages)
    BY <1>1 DEF Told
  <1> QED
    BY <1>1, <1>2, <1>3, <1>4, Starting

LEMMA BeginTells ==
    ASSUME IInv, Told, Begin
    PROVE  Told'
  <1> USE DEF settings, host
  <1>1. ~up /\ loading' = roster /\ UNCHANGED <<settings, entries, up, todo, op>>
    BY DEF Begin
  <1>2. \A u \in Actors : todo'[u] \in {"none", "done"}
    BY <1>1, NobodyAtWork DEF IInv
  <1>3. \A u \in Actors : Remotely(u)'
    BY <1>1 DEF Told, Remotely
  <1>4. ASSUME NEW p \in Locals PROVE Loaded(p)'
    <2>1. Loaded(p)
      BY <1>1 DEF Told
    <2> QED
      BY <1>1, <2>1 DEF Loaded, Listed, Mounted, Installed
  <1>5. roster \in Seq(Packages)
    BY DEF Told
  <1> QED
    BY <1>1, <1>2, <1>3, <1>4, <1>5, Starting

LEMMA ServeTells ==
    ASSUME IInv, Told, Serve
    PROVE  Told'
  <1> USE DEF settings, host
  <1>1. /\ ~up /\ loading = <<>> /\ loading' = None /\ up' = TRUE
        /\ todo' = [todo EXCEPT ![Startup] = "settings"]
        /\ UNCHANGED <<settings, entries, op, lost>>
    BY DEF Serve
  <1>2. \A u \in Actors : todo[u] \in {"none", "done"}
    BY <1>1, NobodyAtWork DEF IInv
  <1>3. \A u \in Actors : todo'[u] \in {"none", "done", "settings"}
    BY <1>1, <1>2 DEF IInv, TypeOK
  <1>4. \A u \in Actors : Remotely(u)' /\ todo'[u] \notin Steps
    BY <1>1, <1>2, <1>3, Disjoint DEF Told, Remotely
  <1>5. ASSUME NEW p \in Locals PROVE AtRest(p)'
    <2>1. Loaded(p) /\ loading # None /\ ~Contains(loading, p)
      <3>1. Loaded(p)
        BY <1>1 DEF Told
      <3>2. loading # None
        BY <1>1, PackagesAssumption
      <3>3. ~Contains(loading, p)
        <4>1. Len(loading) = 0
          BY <1>1
        <4> QED
          BY <4>1 DEF Contains
      <3> QED
        BY <3>1, <3>2, <3>3
    <2> QED
      BY <1>1, <2>1 DEF Loaded, AtRest, Listed, Mounted, Installed
  <1>6. roster' \in Seq(Packages)
    BY <1>1 DEF Told
  <1> QED
    BY <1>1, <1>4, <1>5, <1>6 DEF Told, Locals

LEMMA LoadTells ==
    ASSUME IInv, Told, NEW p \in Packages, Load(p)
    PROVE  Told'
  <1> DEFINE m == disk[p]
  <1>1. /\ loading # None /\ loading # <<>> /\ p = Head(loading)
        /\ UNCHANGED <<settings, up, todo, op>>
    BY DEF Load
  <1>2. ~up
    BY <1>1 DEF IInv, Lock
  <1>3. \A u \in Actors : todo'[u] \in {"none", "done"}
    BY <1>1, <1>2, NobodyAtWork DEF IInv
  <1>4. \A u \in Actors : Remotely(u)'
    BY <1>1 DEF Told, Remotely
  <1>5. roster' \in Seq(Packages) /\ loading \in Seq(Packages) /\ roster' = roster
    BY <1>1 DEF Told, settings
  <1>6. /\ Tail(loading) \in Seq(Packages)
        /\ \A q : Contains(loading, q) <=> Contains(Tail(loading), q) \/ q = p
    BY <1>1, <1>5, TailContains
  <1>7. \A q \in Packages : Installed(q)' <=> Installed(q)
    BY <1>1 DEF Installed, settings
  <1>8. \A q \in Locals : Loaded(q)
    BY <1>2 DEF Told
  <1>9. CASE loading' = None /\ Forget
    BY <1>2, <1>1, <1>3, <1>4, <1>5, <1>9, NothingLoaded, Starting DEF Forget, Locals
  <1>10. ASSUME loading' = Tail(loading),
                \A q \in Packages \ {p} : entries'[q] = entries[q],
                \/ (p \in Remotes \/ p \in removed) /\ entries'[p] = entries[p]
                \/ /\ p \notin removed /\ entries'[p].manifest # None
                   /\ entries'[p].scope = 0 <=> p \in off
         PROVE  Told'
    <2>1. \A q \in Packages \ {p} : /\ q \in Listed' <=> q \in Listed
                                    /\ Mounted(q)' <=> Mounted(q)
      BY <1>10 DEF Listed, Mounted
    <2>2. ASSUME NEW q \in Locals PROVE Loaded(q)'
      <3>1. (q \in off' <=> q \in off) /\ (Contains(roster', q) <=> Contains(roster, q))
        BY <1>1 DEF settings
      <3>2. CASE q # p
        BY <1>1, <1>6, <1>7, <1>8, <1>10, <2>1, <3>1, <3>2 DEF Loaded, Locals
      <3>3. CASE q = p /\ p \in removed /\ entries'[p] = entries[p]
        <4>1. (q \in Listed' <=> q \in Listed) /\ (Mounted(q)' <=> Mounted(q)) /\ ~Installed(q)
          BY <3>3 DEF Listed, Mounted, Installed
        <4> QED
          BY <1>1, <1>6, <1>7, <1>8, <1>10, <3>1, <4>1 DEF Loaded, Locals
      <3>4. CASE q = p /\ p \notin removed /\ entries'[p].manifest # None
                 /\ (entries'[p].scope = 0 <=> p \in off)
        <4>1. q \in Listed' /\ (Mounted(q)' <=> q \notin off)
          BY <3>4 DEF Listed, Mounted
        <4>2. Contains(roster, q) /\ Installed(q)
          BY <1>1, <1>6, <1>8, <3>4 DEF Loaded, Installed
        <4> QED
          BY <1>1, <1>6, <1>7, <1>8, <1>10, <3>1, <4>1, <4>2 DEF Loaded, Locals
      <3> QED
        BY <1>10, <3>2, <3>3, <3>4 DEF Locals
    <2> QED
      BY <1>1, <1>2, <1>3, <1>4, <1>5, <1>6, <1>10, <2>2, Starting
  <1>11. CASE (p \in Remotes \/ p \in removed) /\ loading' = Tail(loading) /\ UNCHANGED host
    BY <1>10, <1>11 DEF host
  <1>12. CASE /\ p \notin removed /\ p \in off /\ Usable(m) /\ Enter(p, m, 0)
              /\ loading' = Tail(loading)
    <2>1. entries' = [entries EXCEPT ![p] = [manifest |-> m, scope |-> 0]] /\ m # None
      BY <1>12 DEF Enter, Usable
    <2>2. /\ entries'[p].manifest = m /\ entries'[p].scope = 0
          /\ \A q \in Packages \ {p} : entries'[q] = entries[q]
      BY <2>1, TypesNow
    <2> QED
      BY <1>10, <1>12, <2>1, <2>2
  <1>13. CASE /\ p \notin removed /\ p \notin off /\ Usable(m) /\ Enter(p, m, next)
              /\ loading' = Tail(loading)
    <2>1. entries' = [entries EXCEPT ![p] = [manifest |-> m, scope |-> next]] /\ m # None
      BY <1>13 DEF Enter, Usable
    <2>2. /\ entries'[p].manifest = m /\ entries'[p].scope = next /\ next # 0
          /\ \A q \in Packages \ {p} : entries'[q] = entries[q]
      BY <2>1, TypesNow
    <2> QED
      BY <1>10, <1>13, <2>1, <2>2
  <1> QED
    BY <1>9, <1>11, <1>12, <1>13 DEF Load

-----------------------------------------------------------------------------
LEMMA NextTells == IInv /\ Told /\ [Next]_vars => Told'
  <1> SUFFICES ASSUME IInv, Told, [Next]_vars PROVE Told'
    OBVIOUS
  <1>0. ASSUME UNCHANGED <<settings, entries, loading, up, todo, op, lost>>
        PROVE  Told'
    <2> USE <1>0 DEF settings
    <2>1. \A u \in Actors : Remotely(u)' /\ (todo'[u] \in Steps /\ op'[u].id \in Locals => InHand(u)')
      BY DEF Told, Remotely, InHand, Locals, Listed, Mounted, Installed
    <2>2. \A p \in Locals : /\ Held(p)' <=> Held(p)
                            /\ AtRest(p)' <=> AtRest(p)
                            /\ Loaded(p)' <=> Loaded(p)
      BY DEF Held, AtRest, Loaded, Listed, Mounted, Installed
    <2> QED
      BY <2>1, <2>2 DEF Told, Locals
  <1> USE DEF process, host
  <1>1. CASE \E u \in Requests, p \in Packages : Request(u, p)
    BY <1>1, RequestTells
  <1>2. CASE \E u \in Actors : Change(u)
    <2> PICK u \in Actors : Change(u)
      BY <1>2
    <2> QED
      BY FetchTells, AdoptTells, ReplaceTells, UnlistTells, UnregisterTells, MountTells,
         ListTells, SaveTells, CannotSaveTells, DropTells DEF Change
  <1>3. CASE ReadSettings \/ Quieten \/ \E p \in Remotes : ConnectNext(p)
    BY <1>3, RestoreTells
  <1>4. CASE \E p \in Skills : ReadSkill(p) \/ Unload(p)
    BY <1>0, <1>4 DEF ReadSkill, Unload
  <1>5. CASE \E p \in Packages : Edit(p)
    BY <1>0, <1>5 DEF Edit
  <1>6. CASE \E p \in Packages : Load(p)
    BY <1>6, LoadTells
  <1>7. CASE Compare \/ ReadBody \/ Activate
    BY <1>0, <1>7 DEF Compare, ReadBody, Activate
  <1>8. CASE Crash \/ Begin \/ Serve
    BY <1>8, CrashTells, BeginTells, ServeTells
  <1>9. CASE UNCHANGED vars
    BY <1>0, <1>9 DEF vars
  <1> QED
    BY <1>1, <1>2, <1>3, <1>4, <1>5, <1>6, <1>7, <1>8, <1>9 DEF Next

\* SettingsTell: whatever failed and was taken back, between two operations the process
\* has the local packages the settings will give the next one, enabled as they say,
\* but for those that could not be restored and those whose settings were written by
\* a request that failed.
THEOREM SettingsAreTrue == Spec => []SettingsTell
  <1>1. Init => IInv /\ Told
    BY InitHolds, InitTells
  <1>2. IInv /\ Told /\ [Next]_vars => IInv' /\ Told'
    BY NextHolds, NextTells
  <1>3. Told => SettingsTell
    <2> SUFFICES ASSUME Told, Free, NEW p \in Packages \ (Remotes \cup lost)
                 PROVE  /\ p \in Listed <=> Installed(p)
                        /\ Mounted(p) <=> Installed(p) /\ p \notin off
      BY DEF SettingsTell, Installed
    <2>1. ~Held(p)
      BY StepsAndWaits DEF Free, Held
    <2>2. AtRest(p)
      BY <2>1 DEF Told, Free, Locals
    <2> QED
      BY <2>2 DEF AtRest
  <1> QED
    BY <1>1, <1>2, <1>3, PTL DEF Spec

=============================================================================
