---------------------------- MODULE FrameStacks ----------------------------
(***************************************************************************)
(* Lemmas about Frames for any number of frames, calls, programs, messages *)
(* and turns, on which Frames_proofs rests: which frames a loop has in its *)
(* stack, the invariant that says so, and the steps that edit a window,    *)
(* open a frame, or end frames and loops.                                  *)
(***************************************************************************)
EXTENDS Frames, FiniteSetTheorems, TLAPS

-----------------------------------------------------------------------------
(* What links lead to.                                                     *)

LEMMA ScopesAre ==
    /\ MaxPauses \in Nat /\ MaxFrames \in Nat
    /\ Scopes = 0 .. MaxFrames + MaxPauses /\ IsFiniteSet(Scopes)
  <1>1. MaxPauses \in Nat /\ MaxFrames \in Nat
    BY BoundsAssumption DEF MaxPauses
  <1>2. Scopes = 0 .. MaxFrames + MaxPauses
    BY <1>1 DEF Scopes, Frames, Temps, Paused, Main
  <1> QED
    BY <1>1, <1>2, FS_Interval

More(T, links) == T \cup {link[2] : link \in {k \in links : k[1] \in T}}
Shut(T, links) == \A link \in links : link[1] \in T => link[2] \in T
Least(S, links) ==
    {x \in Scopes : \A T \in SUBSET Scopes : S \subseteq T /\ Shut(T, links) => x \in T}

\* The recursion of Closure ends: it computes the least set that no link leaves.
LEMMA ClosureIsLeast ==
    ASSUME NEW links \in SUBSET (Scopes \X Scopes), NEW S \in SUBSET Scopes
    PROVE  Closure(S, links) = Least(S, links)
  <1> DEFINE least == [T \in SUBSET Scopes |-> Least(T, links)]
             Turn(g) == [T \in SUBSET Scopes |->
                          IF More(T, links) = T THEN T ELSE g[More(T, links)]]
             grow == CHOOSE g : g = Turn(g)
             bad == {T \in SUBSET Scopes : grow[T] # least[T]}
             rests == {Scopes \ T : T \in bad}
  <1>1. ASSUME NEW T \in SUBSET Scopes
        PROVE  More(T, links) \in SUBSET Scopes /\ T \subseteq More(T, links)
    BY DEF More
  <1>2. ASSUME NEW T \in SUBSET Scopes, More(T, links) = T
        PROVE  Least(T, links) = T
    BY <1>2 DEF More, Least, Shut
  <1>3. ASSUME NEW T \in SUBSET Scopes
        PROVE  Least(T, links) = Least(More(T, links), links)
    <2>1. ASSUME NEW V \in SUBSET Scopes, Shut(V, links)
          PROVE  T \subseteq V <=> More(T, links) \subseteq V
      BY <2>1 DEF More, Shut
    <2> QED
      BY <2>1 DEF Least
  <1>4. least = Turn(least)
    BY <1>1, <1>2, <1>3
  <1>5. grow = Turn(grow)
    BY <1>4
  <1>6. Closure(S, links) = grow[S]
    BY DEF Closure, More
  <1>7. bad = {}
    <2>1. SUFFICES ASSUME bad # {} PROVE FALSE
      OBVIOUS
    <2>2. rests # {} /\ rests \subseteq FiniteSubsetsOf(Scopes)
      <3>1. ASSUME NEW T \in bad PROVE Scopes \ T \in FiniteSubsetsOf(Scopes)
        BY ScopesAre, FS_Difference DEF FiniteSubsetsOf
      <3> QED
        BY <2>1, <3>1
    <2>3. PICK R \in rests : \A Q \in rests : <<Q, R>> \notin StrictSubsetOrdering(Scopes)
      BY <2>2, FS_StrictSubsetOrderingWellFounded, WFMin, Zenon
    <2>4. PICK T \in bad : R = Scopes \ T
      BY <2>3
    <2>5. More(T, links) # T
      BY <1>2, <1>5, <2>4
    <2>6. grow[T] = grow[More(T, links)]
      BY <1>1, <1>5, <2>4, <2>5
    <2>7. More(T, links) \in bad
      BY <1>1, <1>3, <2>4, <2>6
    <2>8. <<Scopes \ More(T, links), R>> \in StrictSubsetOrdering(Scopes)
      BY <1>1, <2>4, <2>5 DEF StrictSubsetOrdering
    <2> QED
      BY <2>3, <2>7, <2>8
  <1> QED
    BY <1>6, <1>7

LEMMA ClosureIs ==
    ASSUME NEW links \in SUBSET (Scopes \X Scopes), NEW S \in SUBSET Scopes
    PROVE  /\ S \subseteq Closure(S, links) /\ Closure(S, links) \subseteq Scopes
           /\ Shut(Closure(S, links), links)
           /\ \A T \in SUBSET Scopes : S \subseteq T /\ Shut(T, links) => Closure(S, links) \subseteq T
  <1>1. S \subseteq Least(S, links) /\ Least(S, links) \subseteq Scopes
    BY DEF Least
  <1>2. Shut(Least(S, links), links)
    BY DEF Least, Shut
  <1>3. \A T \in SUBSET Scopes : S \subseteq T /\ Shut(T, links) => Least(S, links) \subseteq T
    BY DEF Least
  <1> QED
    BY <1>1, <1>2, <1>3, ClosureIsLeast

\* A frame and all its calls opened, through any depth.
LEMMA ChainIs ==
    ASSUME NEW ns \in [Frames -> Node], NEW p \in Scopes
    PROVE  /\ p \in Chain(ns, p) /\ Chain(ns, p) \subseteq Scopes
           /\ \A f \in Opened(ns) : ns[f].caller \in Chain(ns, p) => f \in Chain(ns, p)
           /\ \A T \in SUBSET Scopes :
                 p \in T /\ (\A f \in Opened(ns) : ns[f].caller \in T => f \in T)
                    => Chain(ns, p) \subseteq T
           /\ \A f \in Chain(ns, p) \ {p} : f \in Opened(ns) /\ ns[f].caller \in Chain(ns, p)
  <1> DEFINE links == {<<ns[f].caller, f>> : f \in Opened(ns)}
             chain == Chain(ns, p)
             T == {f \in chain : f = p \/ (f \in Opened(ns) /\ ns[f].caller \in chain)}
  <1>1. links \in SUBSET (Scopes \X Scopes)
    BY DEF Opened, Node, Scopes
  <1>2. ASSUME NEW S \in SUBSET Scopes
        PROVE  Shut(S, links) <=> \A f \in Opened(ns) : ns[f].caller \in S => f \in S
    <2>1. \A f \in Opened(ns) : <<ns[f].caller, f>> \in links
      OBVIOUS
    <2>2. ASSUME Shut(S, links), NEW f \in Opened(ns), ns[f].caller \in S PROVE f \in S
      <3> DEFINE link == <<ns[f].caller, f>>
      <3>1. link \in links /\ link[1] = ns[f].caller /\ link[2] = f
        BY <2>1
      <3> HIDE DEF link, links
      <3> QED
        BY <2>2, <3>1 DEF Shut
    <2>3. ASSUME \A f \in Opened(ns) : ns[f].caller \in S => f \in S, NEW link \in links, link[1] \in S
          PROVE  link[2] \in S
      <3>1. PICK f \in Opened(ns) : link = <<ns[f].caller, f>>
        OBVIOUS
      <3> QED
        BY <2>3, <3>1
    <2> HIDE DEF links
    <2> QED
      BY <2>2, <2>3 DEF Shut
  <1>3. /\ p \in chain /\ chain \subseteq Scopes /\ Shut(chain, links)
        /\ \A S \in SUBSET Scopes : p \in S /\ Shut(S, links) => chain \subseteq S
    <2>1. chain = Closure({p}, links)
      BY DEF Chain
    <2> HIDE DEF links, chain
    <2> QED
      BY <1>1, <2>1, ClosureIs
  <1> HIDE DEF links, chain
  <1>4. p \in T /\ T \in SUBSET Scopes
    BY <1>3
  <1>5. \A f \in Opened(ns) : ns[f].caller \in T => f \in T
    BY <1>2, <1>3
  <1>6. chain \subseteq T
    BY <1>2, <1>3, <1>4, <1>5
  <1> QED
    BY <1>2, <1>3, <1>6 DEF chain

\* A frame and all below it in the tree.
LEMMA BelowIs ==
    ASSUME NEW ns \in [Frames -> Node], NEW p \in Scopes
    PROVE  /\ p \in Below(ns, p) /\ Below(ns, p) \subseteq Scopes
           /\ \A f \in Frames : ns[f].status # "free" /\ ns[f].parent \in Below(ns, p)
                                   => f \in Below(ns, p)
           /\ \A f \in Below(ns, p) \ {p} :
                 f \in Frames /\ ns[f].status # "free" /\ ns[f].parent \in Below(ns, p)
  <1> DEFINE used == {g \in Frames : ns[g].status # "free"}
             links == {<<ns[f].parent, f>> : f \in used}
             below == Below(ns, p)
             T == {f \in below : f = p \/ (f \in used /\ ns[f].parent \in below)}
  <1>1. links \in SUBSET (Scopes \X Scopes)
    BY DEF Node, Scopes
  <1>2. ASSUME NEW S \in SUBSET Scopes
        PROVE  Shut(S, links) <=> \A f \in used : ns[f].parent \in S => f \in S
    <2>1. \A f \in used : <<ns[f].parent, f>> \in links
      OBVIOUS
    <2>2. ASSUME Shut(S, links), NEW f \in used, ns[f].parent \in S PROVE f \in S
      <3> DEFINE link == <<ns[f].parent, f>>
      <3>1. link \in links /\ link[1] = ns[f].parent /\ link[2] = f
        BY <2>1
      <3> HIDE DEF link, links
      <3> QED
        BY <2>2, <3>1 DEF Shut
    <2>3. ASSUME \A f \in used : ns[f].parent \in S => f \in S, NEW link \in links, link[1] \in S
          PROVE  link[2] \in S
      <3>1. PICK f \in used : link = <<ns[f].parent, f>>
        OBVIOUS
      <3> QED
        BY <2>3, <3>1
    <2> HIDE DEF links
    <2> QED
      BY <2>2, <2>3 DEF Shut
  <1>3. /\ p \in below /\ below \subseteq Scopes /\ Shut(below, links)
        /\ \A S \in SUBSET Scopes : p \in S /\ Shut(S, links) => below \subseteq S
    <2>1. below = Closure({p}, links)
      BY DEF Below
    <2> HIDE DEF links, below
    <2> QED
      BY <1>1, <2>1, ClosureIs
  <1> HIDE DEF links, below
  <1>4. p \in T /\ T \in SUBSET Scopes
    BY <1>3
  <1>5. \A f \in used : ns[f].parent \in T => f \in T
    BY <1>2, <1>3
  <1>6. below \subseteq T
    BY <1>2, <1>3, <1>4, <1>5
  <1> QED
    BY <1>2, <1>3, <1>6 DEF below

LEMMA NestedIs ==
    ASSUME NEW l \in Scopes
    PROVE  /\ Nested(l) \subseteq Scopes \ {l}
           /\ \A m \in Nested(l) \cup {l}, k \in Frames :
                 k \in loop[m].kids \cup ResumedBy(m) => k \in Nested(l) \cup {l}
           /\ \A T \in SUBSET Scopes :
                 l \in T /\ (\A m \in T, k \in Frames : k \in loop[m].kids \cup ResumedBy(m) => k \in T)
                    => Nested(l) \subseteq T
  <1> DEFINE links == {link \in Scopes \X Frames :
                         link[2] \in loop[link[1]].kids \cup ResumedBy(link[1])}
             all == Closure({l}, links)
  <1>1. links \in SUBSET (Scopes \X Scopes)
    BY DEF Scopes
  <1>2. /\ l \in all /\ all \subseteq Scopes /\ Shut(all, links)
        /\ \A T \in SUBSET Scopes : {l} \subseteq T /\ Shut(T, links) => all \subseteq T
    <2> HIDE DEF links
    <2> QED
      BY <1>1, ClosureIs
  <1>3. Nested(l) = all \ {l}
    BY DEF Nested
  <1>5. ASSUME NEW T \in SUBSET Scopes,
               \A m \in T, k \in Frames : k \in loop[m].kids \cup ResumedBy(m) => k \in T
        PROVE  Shut(T, links)
    BY <1>5 DEF Shut
  <1> HIDE DEF all
  <1>4. ASSUME NEW m \in all, NEW k \in Frames, k \in loop[m].kids \cup ResumedBy(m)
        PROVE  k \in all
    <2>1. <<m, k>> \in links
      BY <1>2, <1>4
    <2> QED
      BY <1>2, <2>1 DEF Shut
  <1>6. ASSUME NEW T \in SUBSET Scopes, l \in T,
               \A m \in T, k \in Frames : k \in loop[m].kids \cup ResumedBy(m) => k \in T
        PROVE  Nested(l) \subseteq T
    BY <1>2, <1>3, <1>5, <1>6
  <1> QED
    BY <1>2, <1>3, <1>4, <1>6

-----------------------------------------------------------------------------
(* First and last frames, and the frame a stack stopped in.                *)

LEMMA FramesAre ==
    /\ Frames = 1 .. MaxFrames + MaxPauses /\ Main \notin Frames /\ None \notin Frames
    /\ Temps = 1 .. MaxFrames /\ Paused = MaxFrames + 1 .. MaxFrames + MaxPauses
    /\ Temps \cap Paused = {} /\ Frames = Temps \cup Paused /\ Scopes = {Main} \cup Frames
    /\ Frames \subseteq Nat /\ Main = 0
  BY ScopesAre DEF Frames, Temps, Paused, Main, Scopes, None

LEMMA FirstIs ==
    ASSUME NEW S, S \subseteq Frames, S # {}
    PROVE  First(S) \in S /\ \A g \in S : First(S) <= g
  <1>1. S \subseteq Nat
    BY FramesAre
  <1>2. PICK f \in S : \A g \in S : <<g, f>> \notin OpToRel(<, Nat)
    BY <1>1, NatLessThanWellFounded, WFMin, Zenon
  <1>3. \A i, j \in Nat : i < j => <<i, j>> \in OpToRel(<, Nat)
    BY DEF OpToRel
  <1>4. \A i, j \in Nat : ~ (i < j) => j <= i
    OBVIOUS
  <1>5. \A g \in S : f <= g
    BY <1>1, <1>2, <1>3, <1>4, Zenon
  <1> QED
    BY <1>5 DEF First

LEMMA LastExists ==
    ASSUME NEW S, S \subseteq Frames, S # {}
    PROVE  \E f \in S : \A g \in S : g <= f
  <1> DEFINE gaps == {MaxFrames + MaxPauses - f : f \in S}
  <1>0. \A f \in S : f \in Nat /\ f <= MaxFrames + MaxPauses
    BY FramesAre, ScopesAre
  <1>1. gaps \subseteq Nat /\ gaps # {}
    BY <1>0, ScopesAre
  <1>2. PICK n \in gaps : \A m \in gaps : <<m, n>> \notin OpToRel(<, Nat)
    BY <1>1, NatLessThanWellFounded, WFMin, Zenon
  <1>3. \A i, j \in Nat : i < j => <<i, j>> \in OpToRel(<, Nat)
    BY DEF OpToRel
  <1>4. \A i, j \in Nat : ~ (i < j) => j <= i
    OBVIOUS
  <1>5. \A m \in gaps : n <= m
    BY <1>1, <1>2, <1>3, <1>4, Zenon
  <1>6. PICK f \in S : n = MaxFrames + MaxPauses - f
    BY <1>2, Zenon
  <1>7. ASSUME NEW g \in S PROVE g <= f
    <2>1. n <= MaxFrames + MaxPauses - g
      BY <1>5, <1>7
    <2> QED
      BY <1>0, <1>6, <1>7, <2>1, ScopesAre
  <1> QED
    BY <1>7

LEMMA InnermostIs ==
    ASSUME NEW ns, NEW x \in Scopes,
           \A y \in Scopes : \A f \in Awaited(ns, y) :
              f \in Temps /\ (y \in Temps => y < f)
    PROVE  /\ Innermost(ns, x) \in Scopes /\ Awaited(ns, Innermost(ns, x)) = {}
           /\ \A T \in SUBSET Scopes :
                 x \in T /\ (\A y \in T : Awaited(ns, y) \subseteq T) => Innermost(ns, x) \in T
  <1> DEFINE links == {link \in Scopes \X Frames : link[2] \in Awaited(ns, link[1])}
             stack == Closure({x}, links)
  <1>1. links \in SUBSET (Scopes \X Scopes)
    BY FramesAre
  <1>2. ASSUME NEW T \in SUBSET Scopes
        PROVE  Shut(T, links) <=> \A y \in T : Awaited(ns, y) \subseteq T
    <2>1. \A y \in T : \A f \in Awaited(ns, y) : <<y, f>> \in links
      BY FramesAre
    <2> QED
      BY <2>1 DEF Shut
  <1>3. /\ x \in stack /\ stack \subseteq Scopes /\ Shut(stack, links)
        /\ \A T \in SUBSET Scopes : x \in T /\ Shut(T, links) => stack \subseteq T
    <2> HIDE DEF links
    <2>1. {x} \in SUBSET Scopes
      OBVIOUS
    <2> QED
      BY <1>1, <2>1, ClosureIs
  <1>4. Innermost(ns, x) = CHOOSE y \in stack : Awaited(ns, y) = {}
    BY DEF Innermost
  <1> HIDE DEF links, stack
  <1>5. \E y \in stack : Awaited(ns, y) = {}
    <2>1. CASE stack \cap Temps = {}
      BY <1>2, <1>3, <2>1
    <2>2. CASE stack \cap Temps # {}
      <3>1. PICK y \in stack \cap Temps : \A g \in stack \cap Temps : g <= y
        BY <2>2, LastExists, FramesAre
      <3>2. ASSUME NEW f \in Awaited(ns, y) PROVE FALSE
        <4>1. f \in stack \cap Temps /\ y < f
          BY <1>2, <1>3, <3>1
        <4> QED
          BY <3>1, <4>1, FramesAre
      <3> QED
        BY <3>1, <3>2
    <2> QED
      BY <2>1, <2>2
  <1>6. Innermost(ns, x) \in stack /\ Awaited(ns, Innermost(ns, x)) = {}
    BY <1>4, <1>5
  <1> QED
    BY <1>2, <1>3, <1>6

-----------------------------------------------------------------------------
(* The invariant.                                                          *)

Tops    == {Main} \cup Paused
Used(f) == node[f].status # "free"
Up      == {f \in Temps : Used(f)}
Lives(f) == Live(node[f])
Runs(l)  == loop[l].pc \in Alive
\* The frames of serial calls that have not returned.
Serving == {f \in Up : node[f].kind = "serial" /\ Lives(f)}
\* The calls a window waits for.
Pends(w) == w.inflight \cup ({w.call} \ {None})

\* Frames are opened in the order of their numbers, each by one that is there.
Tree ==
    /\ \A f, g \in Temps : g < f /\ Used(f) => Used(g)
    /\ \A f \in Frames : ~Used(f) => node[f] = NoNode /\ win[f] = NoWindow /\ loop[f] = Off
    /\ \A f \in Up :
          /\ node[f].kind \in {"serial", "concurrent"} /\ node[f].call # None
          /\ node[f].caller = Main \/ Used(node[f].caller)
          /\ node[f].caller \in Temps => node[f].caller < f
          /\ node[f].parent = node[f].caller \/ (node[f].parent = Main /\ node[f].caller \in Paused)
    /\ \A q \in Paused : Used(q) =>
          /\ node[q].kind = "previous" /\ node[q].call = None /\ node[q].parallel
          /\ node[q].caller = Main /\ node[q].parent = Main

\* A frame for a paused program is left: each pause takes a message or a crash.
Numbered ==
    \E n \in Nat :
       /\ \A q \in Paused : Used(q) <=> q <= MaxFrames + n
       /\ n <= sent + crashes
       /\ pending /\ win[Main].prog # "none" /\ loop[Main].pc # "save" => n < sent + crashes

Windows ==
    /\ \A f \in Frames : Lives(f) => win[f].there
    /\ \A q \in Paused : win[q].there => Lives(q)
    /\ \A x \in Scopes :
          /\ ~win[x].there => win[x] = NoWindow
          /\ win[x].prog = "call" <=> win[x].call # None
          /\ win[x].call <= called /\ \A c \in win[x].inflight : c <= called
          /\ win[x].resumable # None =>
                /\ x \in Tops /\ win[x].resumable \in Paused /\ Used(win[x].resumable)
                /\ x \in Paused => win[x].resumable < x
    /\ main # "free" => win[Main].there
    /\ loop[Main].pc \notin {"off", "crashed"} => main # "free"

\* A call is one program's, serial or concurrent, and opens one frame.
CallsAreOne ==
    /\ CallOnce
    /\ \A f \in Frames : node[f].call <= called
    /\ \A x, y \in Scopes : win[x].call # None => win[x].call \notin win[y].inflight
    /\ \A x \in Scopes : \A f \in Up :
          /\ node[f].call \in win[x].inflight => node[f].kind = "concurrent"
          /\ node[f].call = win[x].call => node[f].kind = "serial"
    /\ \A l \in Scopes : loop[l].pc = "spawn" =>
          /\ loop[l].call \in win[loop[l].at].inflight
          /\ \A f \in Up : node[f].call # loop[l].call
          /\ \A m \in Scopes \ {l} : loop[m].pc = "spawn" => loop[m].call # loop[l].call
          /\ loop[l].call \notin recorded
    /\ \A f \in Up : Lives(f) => node[f].call \notin recorded
    /\ \A c \in recorded : c <= called

\* Between the two writes of a pause the main window has the paused program too.
Saving == loop[Main].pc = "save"

\* The frame of a call belongs to the program that waits for the call.
Owners ==
    \A x \in Scopes : \A f \in Up : node[f].call \in Pends(win[x]) =>
       node[f].caller = x \/ (x = Main /\ node[f].caller \in Paused /\ Saving)

\* Two programs do not wait for one call.
Apart ==
    \A x \in Frames : \A y \in Scopes \ {x} : \A c \in Pends(win[x]) :
       c \in Pends(win[y]) => y = Main /\ x \in Paused /\ Saving

Waits ==
    \A f \in Serving :
       LET c == node[f].caller IN
       /\ win[c].there /\ win[c].call = node[f].call
       /\ c = Main => main = "suspended"
       /\ c \in Temps => node[c].status = "suspended"
       /\ c \in Paused => Lives(c)

\* What waits for a call that was interrupted was interrupted too.
Deads ==
    \A f \in Up : \A x \in Scopes :
       node[f].kind = "serial" /\ ~Lives(f) /\ node[f].call \notin recorded
       /\ win[x].call = node[f].call => x # Main /\ ~Lives(x)

\* base: the first frame of the stack a frame is in, after which its loop is named.
Bases(base) ==
    /\ base[Main] = Main /\ \A q \in Paused : base[q] = q
    /\ \A f \in Up : base[f] = IF node[f].kind = "concurrent" THEN f
                               ELSE base[node[f].caller]
    /\ \A l \in Scopes : Runs(l) =>
          base[loop[l].at] = l /\ (loop[l].at = Main \/ Lives(loop[l].at))
    /\ base[loop[Main].at] = Main

Loops(base) ==
    /\ \A k \in Temps : loop[k].pc # "off" =>
          /\ Used(k) /\ node[k].kind = "concurrent"
          /\ \E m \in Scopes : k \in loop[m].kids
          /\ loop[k].pc \in (Alive \ {"resuming", "resumed", "save"}) \cup {"ended"}
    /\ \A m \in Scopes : \A k \in loop[m].kids :
          /\ k \in Up /\ node[k].kind = "concurrent" /\ loop[k].pc # "off"
          /\ base[node[k].caller] = m /\ Runs(m)
    /\ \A q \in Paused :
          loop[q].pc \in (Alive \ {"save"}) \cup {"off", "paused", "answered", "failed"}
    /\ loop[Main].pc \in Alive \cup {"off", "crashed", "answered", "failed", "cleanup"}

\* A loop is at the end of its stack, except where a program is about to pause.
Leaves ==
    \A l \in Scopes : Runs(l) =>
       \A f \in Up : Lives(f) /\ node[f].call = win[loop[l].at].call =>
          /\ l = Main /\ loop[l].at = Main
          /\ loop[l].pc \in {"check", "join", "save"} /\ pending

\* A paused program that has answered waits for nothing.
Answers ==
    \A q \in Paused : loop[q].pc = "answered" /\ loop[q].at = q => win[q].prog = "none"

Stacks(base) ==
    /\ \A x \in Frames : node[x].status = "suspended" =>
          \E f \in Serving : node[f].caller = x
    /\ main = "suspended" => \E f \in Serving : node[f].caller = Main
    /\ \A f \in Up : node[f].kind = "concurrent" => node[f].parallel
    /\ \A f \in Serving : node[f].parallel <=> base[f] # Main

\* A stack that runs is not suspended at its end, and the user may only then be
\* about to be heard.
Pausing(l) ==
    /\ l = Main /\ loop[l].at = Main
    /\ loop[l].pc \in {"check", "join"} /\ pending /\ win[Main].prog # "none"

\* top: the main task, or the paused program, a frame belongs to.
Places(base, top) ==
    /\ top[Main] = Main /\ \A q \in Paused : top[q] = q
    /\ \A f \in Up : top[f] = top[node[f].caller]
    /\ \A f \in Frames : Used(f) => top[base[f]] = top[f] /\ top[f] \in Tops
    /\ \A f \in Frames : node[f].status = "paused" => top[f] \in Paused /\ ~Runs(top[f])
    /\ \A l \in Scopes : Runs(l) => Runs(top[l]) /\ (Running(loop[l].at) \/ Pausing(l))

\* Of the loops that hear the user one goes on, the others wait for the next.
Ord(l) == IF l = Main THEN MaxFrames + MaxPauses + 1 ELSE l
Hearing ==
    /\ \A l, m \in Tops :
          /\ loop[l].pc \notin {"off", "crashed"} /\ loop[m].pc \notin {"off", "crashed"}
          /\ Ord(m) < Ord(l)
          => loop[l].pc = "resuming" /\ m <= win[loop[l].at].resumable
    /\ \A l \in Scopes : loop[l].pc \in {"resuming", "resumed"} =>
          l \in Tops /\ loop[l].at \in Tops /\ win[loop[l].at].prog = "resume"
    /\ \A l \in Scopes : loop[l].pc = "resuming" =>
          win[loop[l].at].resumable # None /\ loop[win[loop[l].at].resumable].pc # "off"
    /\ \A q \in Paused : loop[q].pc # "off" => loop[Main].pc = "resuming"
    /\ \A l \in Scopes : loop[l].pc = "join" => InProgram(loop[l].at)
    /\ loop[Main].pc \in {"join", "save"} => pending /\ win[Main].prog # "none"
    /\ loop[Main].pc = "save" =>
          /\ loop[Main].at = Main /\ main = "running" /\ loop[Main].kids = {}
          /\ \E q \in Paused : Used(q)

Inv(base, top) ==
    /\ ~torn
    /\ TypeOK /\ Tree /\ Numbered /\ Windows /\ CallsAreOne /\ Owners /\ Apart /\ Waits
    /\ Deads /\ Bases(base) /\ Loops(base) /\ Leaves /\ Answers /\ Stacks(base)
    /\ Places(base, top) /\ Hearing

\* Until the process dies between the two writes of a pause.
IInv == torn \/ \E base, top \in [Scopes -> Scopes] : Inv(base, top)

-----------------------------------------------------------------------------
(* Steps that change a window and nothing else below.                      *)

LEMMA UpIs ==
    ASSUME TypeOK, Tree
    PROVE  /\ Up = Opened(node) /\ Up \subseteq Frames /\ Serving \subseteq Up
           /\ \A f \in Frames : Used(f) => f \in Up \/ f \in Paused
           /\ \A f \in Frames : Lives(f) => Used(f)
           /\ \A f \in Up : node[f].caller \in Scopes
  <1>1. \A f \in Temps : Used(f) => node[f].kind # "previous"
    BY DEF Tree, Up
  <1>2. \A q \in Paused : Used(q) => node[q].kind = "previous"
    BY DEF Tree
  <1>3. Up = Opened(node)
    BY <1>1, <1>2, FramesAre DEF Up, Opened, Used
  <1> QED
    BY <1>3, FramesAre DEF Up, Serving, Used, Lives, Live, TypeOK, Node

\* Where a running loop is, its window is there.
LEMMA AtIs ==
    ASSUME NEW base, NEW top, Inv(base, top), NEW l \in Scopes, Runs(l)
    PROVE  /\ loop[l].at \in Scopes /\ win[loop[l].at].there
           /\ loop[l].at \in Frames => Lives(loop[l].at) /\ Used(loop[l].at)
           /\ \A m \in Scopes : Runs(m) /\ loop[m].at = loop[l].at => m = l
           /\ loop[l].at = Main => l = Main
  <1>1. loop[l].at \in Scopes
    BY DEF Inv, TypeOK, Loop
  <1>2. base[loop[l].at] = l /\ (loop[l].at = Main \/ Lives(loop[l].at))
    BY DEF Inv, Bases
  <1>3. loop[l].at = Main => l = Main
    BY <1>2 DEF Inv, Bases
  <1>4. win[loop[l].at].there
    BY <1>1, <1>2, <1>3, FramesAre DEF Inv, Windows, Runs, Alive
  <1> QED
    BY <1>1, <1>2, <1>3, <1>4, UpIs, FramesAre DEF Inv, Bases

Working == {"check", "step", "enter", "spawn", "waiting"}

\* The loop l goes on with the window w of the frame it is in.
Edits(l, w, pc, c) ==
    /\ loop[l].pc \in {"step", "enter", "resumed"} /\ pc \in Working
    /\ loop' = [loop EXCEPT ![l] = [@ EXCEPT !.pc = pc, !.call = c]]
    /\ win' = [win EXCEPT ![loop[l].at] = w]
    /\ node' = node /\ main' = main /\ torn' = torn /\ sent' = sent /\ crashes' = crashes
    /\ called' \in {called, called + 1}
    /\ w.there /\ w.resumable = win[loop[l].at].resumable /\ (w.prog = "call" <=> w.call # None)
    /\ w.call \in {None, win[loop[l].at].call} \/ (w.call = called' /\ called' = called + 1)
    /\ \/ w.inflight \subseteq win[loop[l].at].inflight
       \/ /\ w.inflight \subseteq win[loop[l].at].inflight \cup {called'}
          /\ called' = called + 1 /\ w.call = None
    /\ pc = "spawn" => c = called' /\ called' = called + 1 /\ c \in w.inflight
    /\ recorded' = recorded \/ (recorded' = recorded \cup {win[loop[l].at].call} /\ called' = called)
    /\ \A f \in Up : Lives(f) => node[f].call \notin recorded'
    /\ pending' = pending \/ (pending' = FALSE /\ l \in Tops)
    /\ pending' /\ loop[l].at = Main /\ w.prog # "none" => win[Main].prog # "none"

LEMMA EditsKeep ==
    ASSUME NEW base \in [Scopes -> Scopes], NEW top \in [Scopes -> Scopes],
           Inv(base, top), TypeOK', NEW l \in Scopes, NEW w, NEW pc, NEW c,
           Edits(l, w, pc, c)
    PROVE  Inv(base, top)'
  <1> DEFINE x == loop[l].at
  <1>1. /\ Runs(l) /\ x \in Scopes /\ win[x].there
        /\ x \in Frames => Lives(x) /\ Used(x)
        /\ x = Main => l = Main
        /\ \A m \in Scopes : Runs(m) /\ loop[m].at = x => m = l
    BY AtIs DEF Edits, Runs, Alive
  <1>2. /\ \A m \in Scopes : m # l => loop'[m] = loop[m]
        /\ loop'[l].pc = pc /\ loop'[l].call = c /\ loop'[l].at = x /\ loop'[l].kids = loop[l].kids
        /\ \A m \in Scopes : loop'[m].at = loop[m].at /\ loop'[m].kids = loop[m].kids
        /\ \A m \in Scopes : Runs(m)' <=> Runs(m)
    BY <1>1 DEF Inv, TypeOK, Loop, Edits, Runs, Working, Alive
  <1>3. /\ win'[x] = w /\ \A y \in Scopes \ {x} : win'[y] = win[y]
    BY <1>1 DEF Inv, TypeOK, Edits
  <1>4. /\ Up' = Up /\ Serving' = Serving /\ \A f : Lives(f)' = Lives(f) /\ Used(f)' = Used(f)
        /\ \A f : Running(f)' = Running(f)
    BY DEF Edits, Up, Serving, Lives, Used, Running
  <1>5. \A y \in Scopes : /\ win'[y].resumable = win[y].resumable /\ win'[y].there = win[y].there
                          /\ win'[y].call = win[y].call \/ win'[y].call = None
                             \/ (win'[y].call = called' /\ called' = called + 1)
                          /\ \A d \in win'[y].inflight : d \in win[y].inflight
                             \/ (d = called' /\ called' = called + 1)
    <2>0. win[x] \in Window /\ win'[x] \in Window
      BY <1>1 DEF Inv, TypeOK
    <2>1. /\ win'[x].resumable = win[x].resumable /\ win'[x].there = win[x].there
          /\ win'[x].call = win[x].call \/ win'[x].call = None
             \/ (win'[x].call = called' /\ called' = called + 1)
      BY <1>1, <1>3, <2>0 DEF Edits, Window
    <2>2. \A d \in win'[x].inflight : d \in win[x].inflight
                             \/ (d = called' /\ called' = called + 1)
      BY <1>1, <1>3 DEF Edits
    <2> HIDE DEF x
    <2> QED
      BY <1>3, <2>1, <2>2
  <1>6. node' = node /\ main' = main /\ called \in Nat /\ called' \in Nat /\ called <= called'
    BY BoundsAssumption DEF Edits, Inv, TypeOK
  <1> HIDE DEF x
  <1>7. \A f \in Up : node[f].call <= called
    BY UpIs DEF Inv, CallsAreOne
  <1>8. \A f \in Up : node[f].call # called + 1 /\ node[f].call # None
    BY <1>6, <1>7, UpIs DEF Inv, Tree, TypeOK, Node, Calls
  <1>10. Tree'
    <2>1. \A f \in Frames : ~Used(f) => win'[f] = win[f] /\ loop'[f] = loop[f]
      BY <1>1, <1>2, <1>3, FramesAre DEF Inv, Tree, Off, Runs, Alive
    <2> QED
      BY <1>4, <1>6, <2>1 DEF Inv, Tree, Used
  <1>11. Numbered'
    <2>1. PICK n \in Nat :
             /\ \A q \in Paused : Used(q) <=> q <= MaxFrames + n
             /\ n <= sent + crashes
             /\ pending /\ win[Main].prog # "none" /\ loop[Main].pc # "save" => n < sent + crashes
      BY DEF Inv, Numbered
    <2>2. pending' /\ win'[Main].prog # "none" /\ loop'[Main].pc # "save" => pending /\ win[Main].prog # "none" /\ loop[Main].pc # "save"
      <3>1. CASE l = Main
        <4>1. pending \in BOOLEAN /\ pending' \in BOOLEAN
          BY DEF Inv, TypeOK
        <4>2. loop[l].pc # "save" /\ (pending' => pending)
          BY <4>1 DEF Edits
        <4>3. CASE x = Main
          <5>1. win'[Main] = w /\ (pending' /\ w.prog # "none" => win[Main].prog # "none")
            BY <1>3, <4>3 DEF Edits, x
          <5> QED
            BY <3>1, <4>2, <5>1
        <4>4. CASE x # Main
          <5>1. win'[Main] = win[Main]
            BY <1>3, <4>4, FramesAre
          <5> QED
            BY <3>1, <4>2, <5>1
        <4> QED
          BY <4>3, <4>4
      <3>2. CASE l # Main
        <4>1. pending \in BOOLEAN /\ pending' \in BOOLEAN
          BY DEF Inv, TypeOK
        <4>2. pending' => pending
          BY <4>1 DEF Edits
        <4>3. win'[Main] = win[Main] /\ loop'[Main] = loop[Main]
          BY <1>1, <1>2, <1>3, <3>2, FramesAre
        <4> QED
          BY <4>2, <4>3
      <3> QED
        BY <3>1, <3>2
    <2> QED
      BY <1>4, <2>1, <2>2 DEF Numbered, Edits
  <1>12. Windows'
    <2>1. \A y \in Scopes : /\ ~win'[y].there => win'[y] = NoWindow
                            /\ win'[y].prog = "call" <=> win'[y].call # None
      BY <1>1, <1>3 DEF Inv, Windows, Edits
    <2>2. \A y \in Scopes : win[y].call \in Nat /\ \A d \in win[y].inflight : d \in Nat
      BY DEF Inv, TypeOK, Window, Calls, None
    <2>3. \A y \in Scopes : win'[y].call <= called' /\ \A d \in win'[y].inflight : d <= called'
      BY <1>5, <1>6, <2>2 DEF Inv, Windows, None
    <2>4. loop'[Main].pc \notin {"off", "crashed"} => loop[Main].pc \notin {"off", "crashed"}
      BY <1>1, <1>2, FramesAre DEF Runs, Alive
    <2> QED
      BY <1>4, <1>5, <1>6, <2>1, <2>3, <2>4, FramesAre DEF Inv, Windows
  <1>13. CallsAreOne'
    <2>1. CallOnce' /\ \A f \in Frames : node'[f].call <= called'
      <3>1. \A f \in Frames : node[f].call <= called /\ node[f].call \in Nat
        BY DEF Inv, CallsAreOne, TypeOK, Node, Calls, None
      <3>2. CallOnce'
        BY <1>6 DEF Inv, CallsAreOne, CallOnce
      <3> QED
        BY <1>6, <3>1, <3>2
    <2>2. \A y \in Scopes : win[y].call # called + 1 /\ called + 1 \notin win[y].inflight
      BY <1>6 DEF Inv, Windows
    <2>3. ASSUME NEW y \in Scopes, NEW z \in Scopes, win'[y].call # None
          PROVE  win'[y].call \notin win'[z].inflight
      <3>1. CASE win'[y].call = win[y].call
        BY <1>5, <2>2, <2>3, <3>1 DEF Inv, CallsAreOne
      <3>2. CASE win'[y].call = called' /\ called' = called + 1
        <4>1. y = x
          BY <1>3, <2>2, <3>2
        <4>2. CASE z = x
          BY <1>1, <1>3, <1>6, <2>2, <2>3, <3>2, <4>1, <4>2 DEF Edits, x
        <4>3. CASE z # x
          BY <1>3, <2>2, <3>2, <4>3
        <4> QED
          BY <4>2, <4>3
      <3> QED
        BY <1>5, <2>3, <3>1, <3>2
    <2>4. ASSUME NEW y \in Scopes, NEW f \in Up
          PROVE  /\ node[f].call \in win'[y].inflight => node[f].kind = "concurrent"
                 /\ node[f].call = win'[y].call => node[f].kind = "serial"
      BY <1>5, <1>8 DEF Inv, CallsAreOne
    <2>5. ASSUME NEW m \in Scopes, loop'[m].pc = "spawn"
          PROVE  /\ loop'[m].call \in win'[loop'[m].at].inflight
                 /\ \A f \in Up : node[f].call # loop'[m].call
                 /\ \A k \in Scopes \ {m} : loop'[k].pc = "spawn" => loop'[k].call # loop'[m].call
                 /\ loop'[m].call \notin recorded'
      <3>0. \A k \in Scopes : loop[k].pc = "spawn" => Runs(k) /\ loop[k].at \in Scopes
                                                    /\ loop[k].call \in win[loop[k].at].inflight
        BY DEF Inv, CallsAreOne, Runs, Alive, TypeOK, Loop
      <3>1. \A k \in Scopes \ {l} : loop[k].pc = "spawn" =>
               loop[k].at # x /\ loop[k].call # called + 1
        BY <1>1, <2>2, <3>0
      <3>2. CASE m = l
        <4>1. c = called + 1 /\ recorded' = recorded
          BY <1>2, <1>6, <2>5, <3>2 DEF Edits
        <4>2. c \notin recorded
          BY <1>6, <4>1 DEF Inv, CallsAreOne
        <4> QED
          BY <1>1, <1>2, <1>3, <1>8, <2>5, <3>1, <3>2, <4>1, <4>2 DEF Edits
      <3>3. CASE m # l
        <4>1. pc = "spawn" => c = called + 1
          BY DEF Edits
        <4>2. loop[m].call \notin recorded'
          <5>1. loop[m].call \notin recorded /\ loop[m].call \in win[loop[m].at].inflight
            BY <1>2, <2>5, <3>0, <3>3 DEF Inv, CallsAreOne
          <5>2. loop[m].call = win[x].call => FALSE
            <6>1. loop[m].call # None
              BY <1>2, <2>5, <3>0, <3>3, <5>1 DEF Inv, TypeOK, Window, Calls, None
            <6> QED
              BY <1>1, <3>0, <5>1, <6>1, <1>2, <2>5, <3>3 DEF Inv, CallsAreOne
          <5> QED
            BY <5>1, <5>2 DEF Edits, x
        <4> QED
          BY <1>2, <1>3, <2>5, <3>0, <3>1, <3>3, <4>1, <4>2 DEF Inv, CallsAreOne
      <3> QED
        BY <3>2, <3>3
    <2>6. \A f \in Up : Lives(f) => node[f].call \notin recorded'
      BY DEF Edits
    <2>7. \A d \in recorded' : d <= called'
      <3>1. \A d \in recorded : d <= called /\ d \in Nat
        BY DEF Inv, CallsAreOne, TypeOK, Calls
      <3>2. win[x].call <= called
        BY <1>1 DEF Inv, Windows
      <3> QED
        BY <1>6, <3>1, <3>2 DEF Edits, x
    <2> QED
      BY <1>4, <1>6, <2>1, <2>3, <2>4, <2>5, <2>6, <2>7 DEF CallsAreOne
  <1>9. /\ Saving' <=> Saving
        /\ l # Main /\ loop[Main].pc # "resuming" => pending' = pending
    <2>1. l # Main /\ loop[Main].pc # "resuming" => pending' = pending
      BY <1>1, FramesAre DEF Inv, Hearing, Edits, Tops, Runs, Alive
    <2>2. Saving' <=> Saving
      BY <1>2, FramesAre DEF Saving, Edits, Working
    <2> QED
      BY <2>1, <2>2
  <1>14. Owners' /\ Apart'
    <2>1. ASSUME NEW y \in Scopes, NEW d \in Pends(win'[y])
          PROVE  d \in Pends(win[y]) \/ (y = x /\ d = called + 1)
      BY <1>3, <1>5, <2>1 DEF Pends
    <2>2. ASSUME NEW y \in Scopes, NEW f \in Up, node[f].call \in Pends(win'[y])
          PROVE  node[f].call \in Pends(win[y])
      BY <1>8, <2>1, <2>2
    <2>3. Owners'
      BY <1>4, <1>6, <1>9, <2>2 DEF Inv, Owners
    <2>4. \A y \in Scopes : called + 1 \notin Pends(win[y])
      BY <1>6 DEF Inv, Windows, Pends, TypeOK, Window, Calls, None
    <2>5. Apart'
      <3>1. ASSUME NEW z \in Frames, NEW y \in Scopes \ {z}, NEW d \in Pends(win'[z]),
                   d \in Pends(win'[y])
            PROVE  y = Main /\ z \in Paused /\ Saving
        <4>1. z \in Scopes /\ y \in Scopes /\ y # z
          BY FramesAre
        <4>2. d \in Pends(win[z]) /\ d \in Pends(win[y])
          BY <2>1, <2>4, <3>1, <4>1
        <4> QED
          BY <4>1, <4>2 DEF Inv, Apart
      <3> QED
        BY <1>9, <3>1 DEF Apart
    <2> QED
      BY <2>3, <2>5
  <1>15. Waits'
    <2>1. ASSUME NEW f \in Serving PROVE node[f].caller # x /\ node[f].caller \in Scopes
      <3>1. win[node[f].caller].call = node[f].call /\ f \in Up /\ Lives(f)
        BY DEF Inv, Waits, Serving
      <3>2. loop[l].pc \notin {"check", "join", "save"}
        BY DEF Edits
      <3> QED
        BY <1>1, <3>1, <3>2, UpIs DEF Inv, Leaves, x
    <2> QED
      BY <1>3, <1>4, <1>6, <2>1 DEF Inv, Waits
  <1>16. Deads'
    <2>1. \A y \in Scopes, f \in Up : node[f].call = win'[y].call => node[f].call = win[y].call
      BY <1>5, <1>8
    <2>2. recorded \subseteq recorded'
      BY DEF Edits
    <2> QED
      BY <1>2, <1>4, <1>6, <2>1, <2>2 DEF Inv, Deads
  <1>17. Bases(base)'
    <2>1. loop'[Main].at = loop[Main].at
      BY <1>2, FramesAre
    <2> QED
      BY <1>2, <1>4, <1>6, <2>1 DEF Inv, Bases
  <1>18. Loops(base)'
    BY <1>1, <1>2, <1>4, <1>6, FramesAre DEF Inv, Loops, Edits, Working, Alive
  <1>19. Leaves'
    <2>1. ASSUME NEW m \in Scopes, Runs(m), NEW f \in Up, Lives(f),
                 node[f].call = win'[loop[m].at].call
          PROVE  /\ m = Main /\ loop[m].at = Main /\ m # l /\ pending'
                 /\ loop[m].pc \in {"check", "join", "save"}
      <3>1. loop[m].at \in Scopes
        BY AtIs, <2>1
      <3>2. node[f].call = win[loop[m].at].call
        BY <1>5, <1>8, <2>1, <3>1
      <3>3. m = Main /\ loop[m].at = Main /\ pending /\ loop[m].pc \in {"check", "join", "save"}
        BY <2>1, <3>2 DEF Inv, Leaves
      <3> QED
        BY <1>9, <3>3 DEF Edits
    <2> QED
      BY <1>2, <1>4, <1>6, <2>1 DEF Leaves
  <1>20. Stacks(base)'
    BY <1>4, <1>6 DEF Inv, Stacks
  <1>21. Places(base, top)'
    <2>1. torn' = torn
      BY DEF Edits
    <2>2. ASSUME NEW m \in Scopes, Runs(m), ~Running(loop[m].at)
          PROVE  Pausing(m)'
      <3>1. Pausing(m)
        BY <2>2 DEF Inv, Places
      <3>2. m # l
        BY <3>1 DEF Edits, Pausing
      <3> QED
        BY <1>1, <1>2, <1>3, <1>9, <3>1, <3>2, FramesAre DEF Pausing
    <2>3. \A m \in Scopes : Runs(m) => Runs(top[m]) /\ (Running(loop[m].at) \/ Pausing(m)')
      BY <2>2 DEF Inv, Places
    <2>4. \A f \in Frames : top[f] \in Scopes
      BY FramesAre
    <2> QED
      BY <1>2, <1>4, <1>6, <2>3, <2>4 DEF Inv, Places
  <1>22. Hearing'
    <2>1. \A m \in Scopes : loop'[m].pc \in {"resuming", "join", "save", "resumed", "off", "crashed"}
                              => m # l
      BY <1>2 DEF Edits, Working
    <2>2. \A m \in Scopes : loop[m].pc \in {"off", "crashed"} <=> loop'[m].pc \in {"off", "crashed"}
      BY <1>2, <2>1 DEF Edits
    <2>3. \A m \in Scopes : loop'[m].pc = "off" <=> loop[m].pc = "off"
      BY <1>2, <2>1 DEF Edits
    <2>4. \A m \in Scopes : loop[m].pc = "resuming" => m # l
      BY DEF Edits
    <2>5. \A m \in Scopes \ {l} : Runs(m) => loop[m].at \in Scopes \ {x}
      BY AtIs, <1>1
    <2>6. \A m \in Scopes : loop'[m].pc \in {"resuming", "resumed", "join", "save"} =>
             loop[m].pc = loop'[m].pc /\ Runs(m) /\ win'[loop[m].at] = win[loop[m].at]
      BY <1>2, <1>3, <2>1, <2>5 DEF Runs, Alive
    <2>7. \A q \in Paused : loop'[q].pc # "off" => loop'[Main].pc = "resuming"
      BY <1>2, <2>3, <2>4, FramesAre DEF Inv, Hearing
    <2>8. loop'[Main].pc \in {"join", "save"} => pending' /\ win'[Main].prog # "none"
      <3>1. loop'[Main].pc \in {"join", "save"} => Main # l /\ loop[Main].pc = loop'[Main].pc
        BY <2>1, <2>6, FramesAre
      <3>2. Main # l => win'[Main] = win[Main]
        BY <1>1, <1>3, FramesAre
      <3> QED
        BY <1>9, <3>1, <3>2 DEF Inv, Hearing
    <2>9. \A m \in Scopes : loop'[m].pc = "join" => loop'[m].at # Main \/ win'[Main].prog # "none"
      BY <1>2, <2>6, FramesAre DEF Inv, Hearing, InProgram
    <2>10. \A m \in Scopes : loop'[m].pc = "resuming" =>
          win'[loop'[m].at].resumable # None /\ loop'[win'[loop'[m].at].resumable].pc # "off"
      <3>1. \A m \in Scopes : loop[m].pc = "resuming" => win[loop[m].at].resumable \in Scopes
        BY AtIs, FramesAre DEF Inv, Windows, Hearing, Runs, Alive
      <3> QED
        BY <1>2, <2>3, <2>6, <3>1 DEF Inv, Hearing
    <2>11. \A k, m \in Tops :
          /\ loop'[k].pc \notin {"off", "crashed"} /\ loop'[m].pc \notin {"off", "crashed"}
          /\ Ord(m) < Ord(k)
          => loop'[k].pc = "resuming" /\ m <= win'[loop'[k].at].resumable
      <3>1. Tops \subseteq Scopes
        BY FramesAre DEF Tops
      <3>2. \A m \in Scopes : loop[m].pc = "resuming" =>
               loop'[m] = loop[m] /\ win'[loop[m].at] = win[loop[m].at]
        BY <1>2, <1>3, <2>4, <2>5 DEF Runs, Alive
      <3> QED
        BY <2>2, <3>1, <3>2 DEF Inv, Hearing
    <2>12. \A m \in Scopes : loop'[m].pc \in {"resuming", "resumed"} =>
              m \in Tops /\ loop'[m].at \in Tops /\ win'[loop'[m].at].prog = "resume"
      BY <1>2, <2>6 DEF Inv, Hearing
    <2>13. loop'[Main].pc = "save" =>
          /\ loop'[Main].at = Main /\ main' = "running" /\ loop'[Main].kids = {}
          /\ \E q \in Paused : Used(q)'
      BY <1>2, <1>4, <1>6, <2>1, FramesAre DEF Inv, Hearing
    <2> QED
      BY <2>7, <2>8, <2>9, <2>10, <2>11, <2>12, <2>13 DEF Hearing, InProgram
  <1> QED
    <2>1. ~torn'
      BY DEF Edits, Inv
    <2>2. Answers'
      <3>1. ASSUME NEW q \in Paused, loop'[q].pc = "answered", loop'[q].at = q PROVE win'[q].prog = "none"
        <4>1. q \in Scopes /\ q # l /\ base[q] = q /\ base[x] = l
          BY <1>1, <1>2, <3>1, FramesAre DEF Inv, Bases, Edits, Working, x
        <4>2. loop[q].pc = "answered" /\ loop[q].at = q /\ q # x
          BY <1>2, <3>1, <4>1
        <4> QED
          BY <1>3, <4>1, <4>2 DEF Inv, Answers
      <3> QED
        BY <3>1 DEF Answers
    <2> QED
      BY <1>10, <1>11, <1>12, <1>13, <1>14, <1>15, <1>16, <1>17, <1>18, <1>19, <1>20, <1>21, <1>22, <2>1, <2>2 DEF Inv

LEMMA RecoverIs ==
    ASSUME NEW w \in Window
    PROVE  /\ Recover(w) \in Window /\ Recover(w).there = w.there
           /\ Recover(w).resumable = w.resumable
           /\ Recover(w).inflight = w.inflight \ recorded
           /\ IF w.prog = "call" /\ w.call \in recorded
              THEN Recover(w).prog = "ready" /\ Recover(w).call = None
              ELSE Recover(w).prog = w.prog /\ Recover(w).call = w.call
  BY DEF Recover, Window

LEMMA HearsIs ==
    ASSUME TypeOK, Tree, NEW l \in Scopes, Used(l) \/ l = Main
    PROVE  Hears(l) <=> l \in Tops
  BY FramesAre DEF Tree, Hears, Tops, Up

LEMMA EditsAre ==
    ASSUME NEW base \in [Scopes -> Scopes], NEW top \in [Scopes -> Scopes],
           Inv(base, top), TypeOK', NEW l \in Scopes,
           \/ WriteProgram(l) \/ Rewrite(l) \/ ProgramCalls(l) \/ ProgramSpawns(l)
           \/ ProgramWaits(l) \/ ProgramResumes(l) \/ ResumeRecorded(l)
           \/ Enter(l) /\ ~ (Running(loop[l].at) /\ Unused(Temps) # {})
    PROVE  Inv(base, top)'
  <1> DEFINE x == loop[l].at
  <1>1. TypeOK /\ Tree /\ Windows /\ Hearing /\ Leaves /\ CallsAreOne
    BY DEF Inv
  <1>2. loop[l].pc \in {"step", "enter", "resumed"} /\ Runs(l)
    BY DEF WriteProgram, Rewrite, ProgramCalls, ProgramSpawns, ProgramWaits, ProgramResumes,
           ResumeRecorded, Enter, Steps, Pending, Runs, Alive
  <1>3. /\ x \in Scopes /\ win[x].there /\ (x = Main => l = Main)
        /\ win[x] \in Window /\ W(l) = Recover(win[x]) /\ (win[x].prog = "call" <=> win[x].call # None)
    BY AtIs, <1>1, <1>2 DEF TypeOK, W, Windows
  <1>4. /\ W(l) \in Window /\ W(l).there = win[x].there /\ W(l).resumable = win[x].resumable
        /\ W(l).inflight = win[x].inflight \ recorded
        /\ IF win[x].prog = "call" /\ win[x].call \in recorded
           THEN W(l).prog = "ready" /\ W(l).call = None
           ELSE W(l).prog = win[x].prog /\ W(l).call = win[x].call
    <2> HIDE DEF x
    <2> QED
      BY <1>3, RecoverIs, Zenon
  <1>5. loop[l] \in Loop /\ loop \in [Scopes -> Loop] /\ pending \in BOOLEAN /\ pending' \in BOOLEAN
    BY <1>1 DEF TypeOK
  <1>6. loop[l].pc # "off"
    BY <1>2
  <1>7. Hears(l) <=> l \in Tops
    <2>1. Used(l) \/ l = Main
      BY <1>1, <1>6, FramesAre DEF Tree, Off
    <2> QED
      BY <1>1, <2>1, HearsIs
  <1>8. Take(l) => pending' = pending \/ (pending' = FALSE /\ l \in Tops)
    BY <1>5, <1>7 DEF Take
  <1>9. Take(l) /\ x = Main => ~pending'
    BY <1>3, <1>5, <1>7 DEF Take, Tops
  <1>10. \A f \in Up : Lives(f) => node[f].call \notin recorded
    BY <1>1 DEF CallsAreOne
  <1>11. loop[l].pc \in {"step", "enter"} => \A f \in Up : Lives(f) => node[f].call # win[x].call
    BY <1>1, <1>2 DEF Leaves
  <1>12. \A pc : loop' = [loop EXCEPT ![l].pc = pc]
                   => loop' = [loop EXCEPT ![l] = [@ EXCEPT !.pc = pc, !.call = loop[l].call]]
    BY <1>5 DEF Loop
  <1>13. \A pc, c : loop' = [loop EXCEPT ![l].pc = pc, ![l].call = c]
                   => loop' = [loop EXCEPT ![l] = [@ EXCEPT !.pc = pc, !.call = c]]
    BY <1>5 DEF Loop
  <1>14. called \in Nat
    BY <1>1 DEF TypeOK
  <1> DEFINE Fits(w) ==
        /\ w.there /\ w.resumable = win[x].resumable /\ (w.prog = "call" <=> w.call # None)
        /\ w.call \in {None, win[x].call} \/ (w.call = called' /\ called' = called + 1)
        /\ \/ w.inflight \subseteq win[x].inflight
           \/ /\ w.inflight \subseteq win[x].inflight \cup {called'}
              /\ called' = called + 1 /\ w.call = None
  <1> HIDE DEF x
  <1>16. CASE WriteProgram(l)
    <2> DEFINE w == [W(l) EXCEPT !.prog = "ready"]
    <2>1. W(l).prog = "none" /\ win[x].prog = "none" /\ win[x].call = None /\ loop[l].pc = "step"
      BY <1>3, <1>4, <1>16 DEF WriteProgram, Steps
    <2>2. Fits(w)
      BY <1>3, <1>4, <2>1 DEF Window
    <2>3. /\ loop' = [loop EXCEPT ![l] = [@ EXCEPT !.pc = "check", !.call = loop[l].call]]
          /\ Put(x, w) /\ Take(l)
      BY <1>12, <1>16, Zenon DEF WriteProgram, Go, x
    <2>4. /\ node' = node /\ main' = main /\ torn' = torn /\ sent' = sent /\ crashes' = crashes
          /\ called' = called /\ recorded' = recorded
      BY <1>16 DEF WriteProgram
    <2> HIDE DEF Fits, w
    <2>5. "check" \in Working /\ "check" # "spawn" /\ called' \in {called, called + 1}
      BY <2>4 DEF Working
    <2>6. \A f \in Up : Lives(f) => node[f].call \notin recorded'
      BY <1>10, <2>4
    <2>7. pending' /\ x = Main /\ w.prog # "none" => win[Main].prog # "none"
      BY <1>9, <2>3
    <2>20. Edits(l, w, "check", loop[l].call)
      BY <1>8, <2>1, <2>2, <2>3, <2>4, <2>5, <2>6, <2>7 DEF Edits, Put, Fits, x
    <2> QED
      BY <2>20, EditsKeep
  <1>17. CASE Rewrite(l)
    <2> DEFINE w == [W(l) EXCEPT !.prog = "none", !.inflight = {}]
    <2>1. W(l).prog = "ready" /\ W(l).call = None /\ loop[l].pc = "step"
      BY <1>3, <1>4, <1>17 DEF Rewrite, Steps
    <2>2. Fits(w) /\ w.prog = "none"
      BY <1>3, <1>4, <2>1 DEF Window
    <2>3. /\ loop' = [loop EXCEPT ![l] = [@ EXCEPT !.pc = "check", !.call = loop[l].call]]
          /\ Put(x, w) /\ Take(l)
      BY <1>12, <1>17, Zenon DEF Rewrite, Go, x
    <2>4. /\ node' = node /\ main' = main /\ torn' = torn /\ sent' = sent /\ crashes' = crashes
          /\ called' = called /\ recorded' = recorded
      BY <1>17 DEF Rewrite, tally
    <2> HIDE DEF Fits, w
    <2>5. "check" \in Working /\ called' \in {called, called + 1} /\ "check" # "spawn"
      BY <2>4 DEF Working
    <2>6. \A f \in Up : Lives(f) => node[f].call \notin recorded'
      BY <1>10, <2>4
    <2>7. pending' /\ x = Main /\ w.prog # "none" => win[Main].prog # "none"
      BY <1>9, <2>3
    <2>20. Edits(l, w, "check", loop[l].call)
      BY <2>1, <2>2, <2>3, <2>4, <2>5, <2>6, <1>8, <2>7 DEF Edits, Put, Fits, x
    <2> QED
      BY <2>20, EditsKeep
  <1>18. CASE ProgramCalls(l)
    <2> DEFINE w == [W(l) EXCEPT !.prog = "call", !.call = called']
    <2>1. W(l).prog = "ready" /\ loop[l].pc = "step" /\ called' = called + 1
      BY <1>18 DEF ProgramCalls, Steps
    <2>2. Fits(w)
      <3>1. /\ w.prog = "call" /\ w.call = called' /\ w.there = W(l).there
            /\ w.resumable = W(l).resumable /\ w.inflight = W(l).inflight
        BY <1>4 DEF Window
      <3>2. called' # None
        BY <1>14, <2>1 DEF None
      <3> HIDE DEF w
      <3> QED
        BY <1>3, <1>4, <2>1, <3>1, <3>2
    <2>3. /\ loop' = [loop EXCEPT ![l] = [@ EXCEPT !.pc = "enter", !.call = loop[l].call]]
          /\ Put(x, w) /\ Take(l)
      BY <1>12, <1>18, Zenon DEF ProgramCalls, Go, x
    <2>4. /\ node' = node /\ main' = main /\ torn' = torn /\ sent' = sent /\ crashes' = crashes
          /\ called' = called + 1 /\ recorded' = recorded
      BY <1>18 DEF ProgramCalls
    <2> HIDE DEF Fits, w
    <2>5. "enter" \in Working /\ called' \in {called, called + 1} /\ "enter" # "spawn"
      BY <2>4 DEF Working
    <2>6. \A f \in Up : Lives(f) => node[f].call \notin recorded'
      BY <1>10, <2>4
    <2>7. pending' /\ x = Main /\ w.prog # "none" => win[Main].prog # "none"
      BY <1>9, <2>3
    <2>20. Edits(l, w, "enter", loop[l].call)
      BY <2>1, <2>2, <2>3, <2>4, <2>5, <2>6, <1>8, <2>7 DEF Edits, Put, Fits, x
    <2> QED
      BY <2>20, EditsKeep
  <1>19. CASE ProgramSpawns(l)
    <2> DEFINE w == [W(l) EXCEPT !.inflight = @ \cup {called'}]
    <2>1. W(l).prog = "ready" /\ W(l).call = None /\ loop[l].pc = "step" /\ called' = called + 1
      BY <1>3, <1>4, <1>19 DEF ProgramSpawns, Steps
    <2>2. Fits(w) /\ called' \in w.inflight
      BY <1>3, <1>4, <1>14, <2>1 DEF Window
    <2>3. /\ loop' = [loop EXCEPT ![l] = [@ EXCEPT !.pc = "spawn", !.call = called']]
          /\ Put(x, w) /\ Take(l)
      BY <1>13, <1>19, Zenon DEF ProgramSpawns, x
    <2>4. /\ node' = node /\ main' = main /\ torn' = torn /\ sent' = sent /\ crashes' = crashes
          /\ called' = called + 1 /\ recorded' = recorded
      BY <1>19 DEF ProgramSpawns
    <2> HIDE DEF Fits, w
    <2>5. "spawn" \in Working /\ called' \in {called, called + 1}
      BY <2>4 DEF Working
    <2>6. \A f \in Up : Lives(f) => node[f].call \notin recorded'
      BY <1>10, <2>4
    <2>7. pending' /\ x = Main /\ w.prog # "none" => win[Main].prog # "none"
      BY <1>9, <2>3
    <2>20. Edits(l, w, "spawn", called')
      BY <2>1, <2>2, <2>3, <2>4, <2>5, <2>6, <1>8, <2>7 DEF Edits, Put, Fits, x
    <2> QED
      BY <2>20, EditsKeep
  <1>20. CASE ProgramWaits(l)
    <2> DEFINE w == W(l)
    <2>1. W(l).prog = "ready" /\ W(l).call = None /\ loop[l].pc = "step"
      BY <1>3, <1>4, <1>20 DEF ProgramWaits, Steps
    <2>2. Fits(w)
      BY <1>3, <1>4, <2>1
    <2>3. /\ loop' = [loop EXCEPT ![l] = [@ EXCEPT !.pc = "waiting", !.call = loop[l].call]]
          /\ Put(x, w) /\ Take(l)
      BY <1>12, <1>20, Zenon DEF ProgramWaits, Go, x
    <2>4. /\ node' = node /\ main' = main /\ torn' = torn /\ sent' = sent /\ crashes' = crashes
          /\ called' = called /\ recorded' = recorded
      BY <1>20 DEF ProgramWaits, tally
    <2> HIDE DEF Fits, w
    <2>5. "waiting" \in Working /\ called' \in {called, called + 1} /\ "waiting" # "spawn"
      BY <2>4 DEF Working
    <2>6. \A f \in Up : Lives(f) => node[f].call \notin recorded'
      BY <1>10, <2>4
    <2>7. pending' /\ x = Main /\ w.prog # "none" => win[Main].prog # "none"
      BY <1>9, <2>3
    <2>20. Edits(l, w, "waiting", loop[l].call)
      BY <2>1, <2>2, <2>3, <2>4, <2>5, <2>6, <1>8, <2>7 DEF Edits, Put, Fits, x
    <2> QED
      BY <2>20, EditsKeep
  <1>21. CASE ProgramResumes(l)
    <2> DEFINE w == [W(l) EXCEPT !.prog = "resume"]
    <2>1. W(l).prog = "ready" /\ W(l).call = None /\ loop[l].pc = "step" /\ called' = called + 1
      BY <1>3, <1>4, <1>21 DEF ProgramResumes, Steps
    <2>2. Fits(w)
      BY <1>3, <1>4, <2>1 DEF Window
    <2>3. /\ loop' = [loop EXCEPT ![l] = [@ EXCEPT !.pc = "enter", !.call = loop[l].call]]
          /\ Put(x, w) /\ Take(l)
      BY <1>12, <1>21, Zenon DEF ProgramResumes, Go, x
    <2>4. /\ node' = node /\ main' = main /\ torn' = torn /\ sent' = sent /\ crashes' = crashes
          /\ called' = called + 1 /\ recorded' = recorded
      BY <1>21 DEF ProgramResumes
    <2> HIDE DEF Fits, w
    <2>5. "enter" \in Working /\ called' \in {called, called + 1} /\ "enter" # "spawn"
      BY <2>4 DEF Working
    <2>6. \A f \in Up : Lives(f) => node[f].call \notin recorded'
      BY <1>10, <2>4
    <2>7. pending' /\ x = Main /\ w.prog # "none" => win[Main].prog # "none"
      BY <1>9, <2>3
    <2>20. Edits(l, w, "enter", loop[l].call)
      BY <2>1, <2>2, <2>3, <2>4, <2>5, <2>6, <1>8, <2>7 DEF Edits, Put, Fits, x
    <2> QED
      BY <2>20, EditsKeep
  <1>22. CASE ResumeRecorded(l)
    <2> DEFINE w == [win[x] EXCEPT !.prog = "ready"]
    <2>1. win[x].prog = "resume" /\ loop[l].pc = "resumed"
      BY <1>1, <1>22 DEF ResumeRecorded, Hearing, x
    <2>2. Fits(w)
      BY <1>3, <2>1 DEF Window
    <2>3. /\ loop' = [loop EXCEPT ![l] = [@ EXCEPT !.pc = "check", !.call = loop[l].call]]
          /\ Put(x, w)
      BY <1>12, <1>22, Zenon DEF ResumeRecorded, Go, x
    <2>4. /\ node' = node /\ main' = main /\ torn' = torn /\ sent' = sent /\ crashes' = crashes
          /\ called' = called /\ recorded' = recorded
      BY <1>22 DEF ResumeRecorded, tally
    <2> HIDE DEF Fits, w
    <2>5. "check" \in Working /\ called' \in {called, called + 1} /\ "check" # "spawn"
      BY <2>4 DEF Working
    <2>6. \A f \in Up : Lives(f) => node[f].call \notin recorded'
      BY <1>10, <2>4
    <2>7. pending' /\ x = Main /\ w.prog # "none" => win[Main].prog # "none"
      BY <2>1
    <2>8. pending' = pending \/ (pending' = FALSE /\ l \in Tops)
      BY <1>22 DEF ResumeRecorded
    <2>20. Edits(l, w, "check", loop[l].call)
      BY <2>1, <2>2, <2>3, <2>4, <2>5, <2>6, <2>7, <2>8 DEF Edits, Put, Fits, x
    <2> QED
      BY <2>20, EditsKeep
  <1>23. CASE Enter(l) /\ ~ (Running(loop[l].at) /\ Unused(Temps) # {})
    <2> DEFINE w == W(l)
    <2>1. /\ W(l).prog = "call" /\ loop[l].pc \in {"step", "enter"}
          /\ win[x].prog = "call" /\ W(l).call = win[x].call
      BY <1>3, <1>4, <1>23 DEF Enter, Pending
    <2>2. Fits(w)
      BY <1>3, <1>4, <2>1
    <2>3. /\ loop' = [loop EXCEPT ![l] = [@ EXCEPT !.pc = "check", !.call = loop[l].call]]
          /\ Put(x, w) /\ recorded' = recorded \cup {win[x].call}
          /\ node' = node /\ main' = main
      BY <1>12, <1>23, <2>1, Zenon DEF Enter, Go, x
    <2>4. pending' = pending \/ (pending' = FALSE /\ l \in Tops)
      BY <1>8, <1>23 DEF Enter
    <2>5. \A f \in Up : Lives(f) => node[f].call \notin recorded'
      BY <1>10, <1>11, <2>1, <2>3
    <2>8. /\ node' = node /\ main' = main /\ torn' = torn /\ sent' = sent /\ crashes' = crashes
          /\ called' = called
      BY <1>23, <2>3 DEF Enter, tally
    <2> HIDE DEF Fits, w
    <2>9. "check" \in Working /\ called' \in {called, called + 1} /\ "check" # "spawn"
      BY <2>8 DEF Working
    <2>11. pending' /\ x = Main /\ w.prog # "none" => win[Main].prog # "none"
      BY <2>1
    <2>12. recorded \subseteq recorded'
      BY <2>3
    <2>20. Edits(l, w, "check", loop[l].call)
      BY <2>1, <2>2, <2>3, <2>8, <2>9, <2>4, <2>5, <2>11, <2>12 DEF Edits, Put, Fits, x
    <2> QED
      BY <2>20, EditsKeep
  <1> QED
    BY <1>16, <1>17, <1>18, <1>19, <1>20, <1>21, <1>22, <1>23

-----------------------------------------------------------------------------
(* What the tree says of stacks and loops.                                 *)

LEMMA UpwardsIs ==
    ASSUME NEW base \in [Scopes -> Scopes], NEW top \in [Scopes -> Scopes],
           Inv(base, top), NEW f \in Up
    PROVE  /\ f \in Temps /\ f \in Frames /\ f \in Scopes /\ Used(f)
           /\ f \in Nat /\ f # Main /\ f \notin Tops
           /\ node[f].caller \in Scopes /\ node[f].caller # f /\ node[f].caller \in Nat
           /\ node[f].caller \in Up \/ node[f].caller \in Tops
           /\ node[f].caller \in Paused => Used(node[f].caller)
           /\ node[f].caller \in Up => node[f].caller < f
           /\ node[f].kind \in {"serial", "concurrent"} /\ node[f].call # None
           /\ base[f] = IF node[f].kind = "concurrent" THEN f ELSE base[node[f].caller]
           /\ top[f] = top[node[f].caller] /\ top[base[f]] = top[f] /\ top[f] \in Tops
  <1>1. f \in Temps /\ f \in Frames /\ f \in Scopes /\ Used(f)
    BY FramesAre DEF Up
  <1>2. node[f].caller \in Scopes /\ node[f].caller # f
    BY <1>1, FramesAre DEF Inv, Tree, TypeOK, Node, Temps
  <1>3. node[f].caller \in Up \cup {Main} \cup {q \in Paused : Used(q)}
    BY <1>2, FramesAre DEF Inv, Tree, Up
  <1>4. node[f].caller \in Up => node[f].caller < f
    BY DEF Inv, Tree, Up
  <1>5. /\ f \in Nat /\ f # Main /\ f \notin Tops /\ node[f].caller \in Nat
        /\ node[f].caller \in Up \/ node[f].caller \in Tops
        /\ node[f].caller \in Paused => Used(node[f].caller)
    BY <1>1, <1>2, <1>3, FramesAre, ScopesAre DEF Tops, Up
  <1> QED
    BY <1>1, <1>2, <1>4, <1>5 DEF Inv, Tree, Bases, Places

\* A stack begins at the main task, at a paused program, or at a concurrent call above.
LEMMA BaseIs ==
    ASSUME NEW base \in [Scopes -> Scopes], NEW top \in [Scopes -> Scopes], Inv(base, top)
    PROVE  \A f \in Up : \/ base[f] \in Tops
                         \/ base[f] \in Up /\ base[f] <= f /\ node[base[f]].kind = "concurrent"
  <1> DEFINE Good(f) == \/ base[f] \in Tops
                        \/ base[f] \in Up /\ base[f] <= f /\ node[base[f]].kind = "concurrent"
             bad == {f \in Up : ~Good(f)}
  <1>1. SUFFICES ASSUME bad # {} PROVE FALSE
    OBVIOUS
  <1>2. PICK f \in bad : \A g \in bad : f <= g
    <2>1. bad \subseteq Frames
      BY FramesAre DEF Up
    <2> QED
      BY <1>1, <2>1, FirstIs
  <1>3. f \in Up /\ f \in Nat /\ ~Good(f)
    BY <1>2, UpwardsIs
  <1>6. node[f].kind = "serial" /\ base[f] = base[node[f].caller]
    BY <1>3, UpwardsIs
  <1>4. CASE node[f].caller \in Up
    <2>1. node[f].caller < f /\ node[f].caller \in Nat
      BY <1>3, <1>4, UpwardsIs
    <2>2. Good(node[f].caller)
      BY <1>2, <1>3, <1>4, <2>1
    <2>3. base[f] \in Up => base[f] \in Nat
      BY FramesAre DEF Up
    <2> QED
      BY <1>3, <1>6, <2>1, <2>2, <2>3
  <1>5. CASE node[f].caller \in Tops
    BY <1>3, <1>5, <1>6 DEF Inv, Bases, Tops
  <1> QED
    BY <1>3, <1>4, <1>5, UpwardsIs

\* While a serial call of the main program runs, the main task waits.
LEMMA MainWaits ==
    ASSUME NEW base \in [Scopes -> Scopes], NEW top \in [Scopes -> Scopes], Inv(base, top)
    PROVE  \A f \in Up : Lives(f) /\ base[f] = Main => main = "suspended" /\ win[Main].prog = "call"
  <1> DEFINE bad == {f \in Up : Lives(f) /\ base[f] = Main
                                 /\ ~(main = "suspended" /\ win[Main].prog = "call")}
  <1>1. SUFFICES ASSUME bad # {} PROVE FALSE
    OBVIOUS
  <1>2. PICK f \in bad : \A g \in bad : f <= g
    <2>1. bad \subseteq Frames
      BY FramesAre DEF Up
    <2> QED
      BY <1>1, <2>1, FirstIs
  <1>7. /\ f \in Up /\ Lives(f) /\ base[f] = Main /\ f # Main /\ f \in Nat
        /\ ~(main = "suspended" /\ win[Main].prog = "call")
    BY <1>2, UpwardsIs
  <1>3. f \in Serving /\ base[node[f].caller] = Main
    BY <1>7, UpwardsIs DEF Serving
  <1>4. CASE node[f].caller \in Up
    <2>1. Lives(node[f].caller)
      BY <1>3, <1>4 DEF Inv, Waits, Lives, Live, Up
    <2>2. node[f].caller < f /\ node[f].caller \in Nat
      BY <1>7, <1>4, UpwardsIs
    <2> QED
      BY <1>2, <1>3, <1>4, <1>7, <2>1, <2>2
  <1>5. CASE node[f].caller = Main
    <2>1. main = "suspended" /\ win[Main].call = node[f].call /\ node[f].call # None
      BY <1>3, <1>5, <1>7, UpwardsIs DEF Inv, Waits
    <2>2. Main \in Scopes
      BY FramesAre
    <2> QED
      BY <1>7, <2>1, <2>2 DEF Inv, Windows
  <1>6. CASE node[f].caller \in Paused
    BY <1>3, <1>6, FramesAre DEF Inv, Bases
  <1>8. node[f].caller \in Up \/ node[f].caller = Main \/ node[f].caller \in Paused
    BY <1>7, UpwardsIs DEF Tops
  <1> QED
    BY <1>4, <1>5, <1>6, <1>8

\* A concurrent call's loop belongs to a loop that runs, of the same program.
LEMMA Climb ==
    ASSUME NEW base \in [Scopes -> Scopes], NEW top \in [Scopes -> Scopes], Inv(base, top),
           NEW m \in Temps, loop[m].pc # "off"
    PROVE  /\ m \in Up /\ node[m].kind = "concurrent" /\ base[m] = m
           /\ \E p \in Scopes : /\ m \in loop[p].kids /\ Runs(p) /\ top[p] = top[m]
                                /\ p \in Tops \cup Temps
                                /\ p \in Temps => p < m
           /\ Runs(top[m]) /\ top[m] \in Tops
  <1>1. m \in Up /\ node[m].kind = "concurrent"
    BY DEF Inv, Loops, Up
  <1>2. PICK p \in Scopes : m \in loop[p].kids
    BY DEF Inv, Loops
  <1>3. base[node[m].caller] = p /\ Runs(p)
    BY <1>2 DEF Inv, Loops
  <1>4. top[p] = top[m]
    <2>1. CASE node[m].caller \in Up
      BY <1>1, <1>3, <2>1, UpwardsIs
    <2>2. CASE node[m].caller \in Tops
      BY <1>1, <1>3, <2>2, UpwardsIs DEF Inv, Bases, Tops
    <2> QED
      BY <1>1, <2>1, <2>2, UpwardsIs
  <1>5. p \in Temps => p < m
    <2>1. CASE node[m].caller \in Up
      <3>1. p \in Tops \/ p <= node[m].caller
        BY <1>3, <2>1, BaseIs
      <3>2. node[m].caller < m /\ node[m].caller \in Nat /\ m \in Nat
        BY <1>1, <2>1, UpwardsIs
      <3>3. p \in Nat
        BY ScopesAre
      <3>4. p \in Tops => p \notin Temps
        BY FramesAre DEF Tops
      <3> QED
        BY <3>1, <3>2, <3>3, <3>4
    <2>2. CASE node[m].caller \in Tops
      BY <1>3, <2>2, FramesAre DEF Inv, Bases, Tops
    <2> QED
      BY <1>1, <2>1, <2>2, UpwardsIs
  <1>6. Runs(top[m]) /\ top[m] \in Tops
    BY <1>1, <1>3, <1>4, UpwardsIs DEF Inv, Places
  <1>7. base[m] = m
    BY <1>1, UpwardsIs
  <1>8. p \in Tops \cup Temps
    BY FramesAre DEF Tops
  <1> QED
    BY <1>1, <1>2, <1>3, <1>4, <1>5, <1>6, <1>7, <1>8

\* When the turn's own loop does not run, no loop does.
LEMMA Quiet ==
    ASSUME NEW base \in [Scopes -> Scopes], NEW top \in [Scopes -> Scopes], Inv(base, top),
           ~Runs(Main)
    PROVE  \A m \in Frames : loop[m].pc = "off"
  <1>1. \A q \in Paused : loop[q].pc = "off"
    BY DEF Inv, Hearing, Runs, Alive
  <1>2. ASSUME NEW m \in Temps, loop[m].pc # "off" PROVE FALSE
    BY <1>1, <1>2, Climb DEF Tops, Runs, Alive
  <1> QED
    BY <1>1, <1>2, FramesAre

\* The loops below one are those of the concurrent calls made below it.
LEMMA NestedAre ==
    ASSUME NEW base \in [Scopes -> Scopes], NEW top \in [Scopes -> Scopes], Inv(base, top),
           NEW l \in Scopes, Runs(l), loop[l].pc # "resuming"
    PROVE  /\ Nested(l) \subseteq Up /\ l \notin Nested(l)
           /\ \A k \in Nested(l) : /\ node[k].kind = "concurrent" /\ loop[k].pc # "off"
                                   /\ l \in Temps => l < k
                                   /\ \E m \in Nested(l) \cup {l} : k \in loop[m].kids
           /\ \A m \in Nested(l) \cup {l} : loop[m].kids \subseteq Nested(l)
           /\ l \in Tops => \A m \in Temps : loop[m].pc # "off" /\ top[m] = l => m \in Nested(l)
  <1> DEFINE Kid(k) == k \in Nested(l) /\ k \in Up /\ (l \in Temps => l < k)
                       /\ \E m \in Nested(l) \cup {l} : k \in loop[m].kids
             T == {l} \cup {k \in Frames : Kid(k)}
  <1>1. /\ Nested(l) \subseteq Scopes \ {l}
        /\ \A m \in Nested(l) \cup {l}, k \in Frames :
              k \in loop[m].kids \cup ResumedBy(m) => k \in Nested(l) \cup {l}
    BY NestedIs
  <1>2. \A m \in T : m \in Scopes /\ m \in Nested(l) \cup {l} /\ ResumedBy(m) = {}
    <2>1. \A m \in Temps : loop[m].pc # "resuming"
      BY FramesAre DEF Inv, Loops
    <2> QED
      BY <2>1, FramesAre DEF ResumedBy, Up
  <1>3. ASSUME NEW m \in T, NEW k \in Frames, k \in loop[m].kids PROVE Kid(k)
    <2>1. m \in Scopes /\ m \in Nested(l) \cup {l} /\ k \in Nested(l) \cup {l}
      BY <1>1, <1>2, <1>3
    <2>2. k \in Up /\ loop[k].pc # "off" /\ base[node[k].caller] = m /\ node[k].kind = "concurrent"
      BY <1>3, <2>1 DEF Inv, Loops
    <2>3. m \in Temps => m < k
      <3>1. CASE node[k].caller \in Up
        <4>1. m \in Tops \/ m <= node[k].caller
          BY <2>2, <3>1, BaseIs
        <4>2. node[k].caller < k /\ node[k].caller \in Nat /\ k \in Nat
          BY <2>2, <3>1, UpwardsIs
        <4>3. m \in Nat
          BY <2>1, ScopesAre
        <4>4. m \in Tops => m \notin Temps
          BY FramesAre DEF Tops
        <4> QED
          BY <4>1, <4>2, <4>3, <4>4
      <3>2. CASE node[k].caller \in Tops
        BY <2>2, <3>2, FramesAre DEF Inv, Bases, Tops
      <3> QED
        BY <2>2, <3>1, <3>2, UpwardsIs
    <2>4. m = l \/ (m \in Up /\ (l \in Temps => l < m))
      OBVIOUS
    <2>5. l \in Temps => l < k
      BY <2>2, <2>3, <2>4, FramesAre DEF Up
    <2>6. k # l
      BY <2>2, <2>5, FramesAre DEF Up
    <2> QED
      BY <1>3, <2>1, <2>2, <2>5, <2>6
  <1>4. Nested(l) \subseteq T
    <2>1. T \in SUBSET Scopes /\ l \in T
      BY FramesAre
    <2>2. \A m \in T, k \in Frames : k \in loop[m].kids \cup ResumedBy(m) => k \in T
      BY <1>2, <1>3
    <2> HIDE DEF T
    <2> QED
      BY <2>1, <2>2, NestedIs
  <1>5. \A k \in Nested(l) : Kid(k)
    BY <1>1, <1>4
  <1>6. \A m \in Nested(l) \cup {l} : loop[m].kids \subseteq Nested(l)
    <2>1. \A m \in Scopes : loop[m].kids \subseteq Frames
      BY DEF Inv, Loops, Up, Frames
    <2> QED
      BY <1>1, <1>3, <1>5, <2>1, FramesAre DEF Up
  <1>7. \A k \in Nested(l) : node[k].kind = "concurrent" /\ loop[k].pc # "off"
    BY <1>1, <1>5 DEF Inv, Loops
  <1>8. ASSUME l \in Tops PROVE \A m \in Temps : loop[m].pc # "off" /\ top[m] = l => m \in Nested(l)
    <2> DEFINE bad == {m \in Temps : loop[m].pc # "off" /\ top[m] = l /\ m \notin Nested(l)}
    <2>1. SUFFICES ASSUME bad # {} PROVE FALSE
      OBVIOUS
    <2>2. PICK m \in bad : \A g \in bad : m <= g
      <3>1. bad \subseteq Frames
        BY FramesAre
      <3> QED
        BY <2>1, <3>1, FirstIs
    <2>3. PICK p \in Scopes : /\ m \in loop[p].kids /\ Runs(p) /\ top[p] = l
                              /\ p \in Tops \cup Temps
                              /\ p \in Temps => p < m
      BY <2>2, Climb
    <2>4. p \in Nested(l) \cup {l}
      <3>1. CASE p \in Tops
        BY <2>3, <3>1 DEF Inv, Places, Tops
      <3>2. CASE p \in Temps
        <4>1. p < m /\ p \in Nat /\ m \in Nat /\ loop[p].pc # "off"
          BY <2>2, <2>3, <3>2, FramesAre DEF Runs, Alive
        <4>2. p \notin bad
          BY <2>2, <4>1
        <4> QED
          BY <2>3, <3>2, <4>1, <4>2
      <3> QED
        BY <2>3, <3>1, <3>2
    <2> QED
      BY <1>6, <2>2, <2>3, <2>4
  <1> QED
    BY <1>1, <1>5, <1>6, <1>7, <1>8

\* A program below which a loop runs has a concurrent call that runs.
LEMMA FirstKid ==
    ASSUME NEW base \in [Scopes -> Scopes], NEW top \in [Scopes -> Scopes], Inv(base, top),
           NEW l \in Tops, NEW n \in Temps, Runs(n), top[n] = l
    PROVE  \E k \in loop[l].kids : Runs(k)
  <1> DEFINE low == {m \in Temps : Runs(m) /\ top[m] = l}
  <1>1. PICK m \in low : \A g \in low : m <= g
    <2>1. low \subseteq Frames /\ low # {}
      BY FramesAre
    <2> QED
      BY <2>1, FirstIs
  <1>2. loop[m].pc # "off" /\ Runs(m) /\ top[m] = l /\ m \in Nat
    BY <1>1, FramesAre DEF Runs, Alive
  <1>3. PICK p \in Scopes : /\ m \in loop[p].kids /\ Runs(p) /\ top[p] = l
                            /\ p \in Tops \cup Temps
                            /\ p \in Temps => p < m
    BY <1>1, <1>2, Climb
  <1>4. p \notin Temps
    <2>1. p \in Nat
      BY ScopesAre
    <2> QED
      BY <1>1, <1>2, <1>3, <2>1
  <1>5. top[p] = p
    BY <1>3, <1>4 DEF Inv, Places, Tops
  <1> QED
    BY <1>2, <1>3, <1>5

-----------------------------------------------------------------------------
(* Steps that only change loops.                                           *)

\* The loop l takes in the ended loops K and goes on, or stops.
Joins(l, K, pc, x) ==
    /\ loop[l].pc \in {"check", "join", "waiting"}
    /\ K \subseteq loop[l].kids /\ \A k \in K : loop[k].pc = "ended"
    /\ loop' = [k \in Scopes |->
                 IF k = l THEN [loop[l] EXCEPT !.kids = @ \ K, !.pc = pc, !.at = x]
                 ELSE IF k \in K THEN Off ELSE loop[k]]
    /\ UNCHANGED <<main, node, win, recorded, pending, tally>>
    /\ \/ /\ loop[l].pc = "check" /\ x = loop[l].at
          /\ pc = IF InProgram(x) /\ pending THEN "join" ELSE "step"
       \/ /\ loop[l].pc = "join" /\ x = loop[l].at /\ l # Main /\ K = loop[l].kids
          /\ pc = IF l \in Paused THEN "paused" ELSE "ended"
       \/ /\ loop[l].pc = "join" /\ x = Main /\ l = Main /\ loop[l].at # Main
          /\ pc = "check"
       \/ loop[l].pc = "waiting" /\ x = loop[l].at /\ pc = "check"

LEMMA JoinsKeep ==
    ASSUME NEW base \in [Scopes -> Scopes], NEW top \in [Scopes -> Scopes],
           Inv(base, top), TypeOK', NEW l \in Scopes, NEW K, NEW pc, NEW x,
           Joins(l, K, pc, x)
    PROVE  Inv(base, top)'
  <1>1. /\ Runs(l) /\ loop[l].at \in Scopes /\ loop[l] \in Loop
        /\ loop[l].at \in Frames => Lives(loop[l].at)
        /\ loop[l].at = Main => l = Main
        /\ base[loop[l].at] = l
        /\ l \in Frames => Used(l)
    <2>1. Runs(l)
      BY DEF Joins, Runs, Alive
    <2>2. l \in Frames => Used(l)
      BY <2>1 DEF Inv, Tree, Runs, Alive, Off
    <2> QED
      BY <2>1, <2>2, AtIs DEF Inv, TypeOK, Bases
  <1>2. \A k \in K : /\ k \in Temps /\ k # l /\ loop'[k] = Off /\ loop[k].pc = "ended" /\ k \in Scopes
                     /\ ~Runs(k) /\ base[node[k].caller] = l
    BY <1>1, FramesAre DEF Joins, Inv, Loops, Up, Runs, Alive
  <1>3. /\ \A m \in Scopes \ {l} : m \notin K => loop'[m] = loop[m]
        /\ loop'[l].kids = loop[l].kids \ K /\ loop'[l].pc = pc /\ loop'[l].at = x
        /\ loop'[l].call = loop[l].call
    BY <1>1, <1>2 DEF Joins, Loop
  <1>4. /\ x = loop[l].at \/ (l = Main /\ x = Main)
        /\ x \in Scopes
        /\ pc \in {"check", "join", "step"} \/ (pc = "paused" /\ l \in Paused /\ loop'[l].kids = {})
             \/ (pc = "ended" /\ l \in Temps /\ loop'[l].kids = {})
    BY <1>1, <1>3, FramesAre DEF Joins
  <1>5. /\ Up' = Up /\ Serving' = Serving /\ \A f : Lives(f)' = Lives(f) /\ Used(f)' = Used(f)
        /\ \A f : Running(f)' = Running(f)
        /\ node' = node /\ win' = win /\ main' = main /\ recorded' = recorded /\ pending' = pending
        /\ called' = called /\ sent' = sent /\ crashes' = crashes /\ torn' = torn
    BY DEF Joins, Up, Serving, Lives, Used, Running, tally
  <1>6. \A m \in Scopes : Runs(m)' => Runs(m)
    BY <1>1, <1>2, <1>3 DEF Runs, Off, Alive
  <1>7. \A m \in Scopes : Runs(m) /\ m # l => Runs(m)' /\ loop'[m] = loop[m]
    BY <1>2, <1>3 DEF Runs
  <1>8. /\ Saving' <=> Saving
        /\ \A m \in Scopes : loop'[m].pc \in {"save", "spawn", "resuming", "resumed"}
                               => m # l /\ Runs(m) /\ loop'[m] = loop[m]
        /\ \A m \in Scopes : loop[m].pc \in {"save", "resuming", "resumed"} => loop'[m] = loop[m]
    <2>1. loop[l].pc # "save" /\ pc \notin {"save", "spawn", "resuming", "resumed"}
      BY <1>4 DEF Joins
    <2>2. \A m \in Scopes : loop'[m].pc \in {"save", "spawn", "resuming", "resumed"}
                               => m # l /\ Runs(m) /\ loop'[m] = loop[m]
      BY <1>2, <1>3, <2>1 DEF Off, Runs, Alive
    <2>3. \A m \in Scopes : loop[m].pc \in {"save", "resuming", "resumed"} => loop'[m] = loop[m]
      BY <1>2, <1>3 DEF Joins
    <2> QED
      BY <2>2, <2>3, FramesAre DEF Saving
  <1>9. Tree'
    <2>1. \A f \in Frames : ~Used(f) => loop'[f] = Off
      BY <1>1, <1>2, <1>3, FramesAre DEF Inv, Tree
    <2> QED
      BY <1>5, <2>1 DEF Inv, Tree
  <1>10. Numbered'
    BY <1>5, <1>8 DEF Inv, Numbered, Saving
  <1>11. Windows'
    <2>1. loop'[Main].pc \notin {"off", "crashed"} => loop[Main].pc \notin {"off", "crashed"}
      BY <1>1, <1>2, <1>3, FramesAre DEF Runs, Alive
    <2> QED
      BY <1>5, <2>1 DEF Inv, Windows
  <1>12. CallsAreOne'
    BY <1>5, <1>8 DEF Inv, CallsAreOne, CallOnce
  <1>13. Owners' /\ Apart' /\ Waits' /\ Deads' /\ Stacks(base)'
    BY <1>5, <1>8, Zenon DEF Inv, Owners, Apart, Waits, Deads, Stacks
  <1>14. Bases(base)'
    <2>1. \A m \in Scopes : Runs(m)' =>
             base[loop'[m].at] = m /\ (loop'[m].at = Main \/ Lives(loop'[m].at))
      BY <1>1, <1>3, <1>4, <1>6, <1>7, FramesAre DEF Inv, Bases
    <2>2. base[loop'[Main].at] = Main
      BY <1>2, <1>3, <1>4, FramesAre DEF Inv, Bases
    <2> QED
      BY <1>5, <2>1, <2>2 DEF Inv, Bases
  <1>15. Loops(base)'
    <2>1. ASSUME NEW k \in Temps, loop'[k].pc # "off"
          PROVE  /\ loop[k].pc # "off" /\ \E m \in Scopes : k \in loop'[m].kids
                 /\ loop'[k].pc \in (Alive \ {"resuming", "resumed", "save"}) \cup {"ended"}
      <3>1. k \in Scopes /\ k \notin K /\ loop[k].pc # "off"
        BY <1>1, <1>2, <1>3, <2>1, FramesAre DEF Off, Runs, Alive
      <3>2. PICK m \in Scopes : k \in loop[m].kids
        BY <3>1 DEF Inv, Loops
      <3>3. m \notin K /\ Runs(m)
        BY <1>2, <3>2 DEF Inv, Loops
      <3>4. k \in loop'[m].kids
        BY <1>3, <3>1, <3>2, <3>3
      <3>5. loop'[k].pc \in (Alive \ {"resuming", "resumed", "save"}) \cup {"ended"}
        BY <1>3, <1>4, <2>1, <3>1, FramesAre DEF Inv, Loops, Alive
      <3> QED
        BY <3>1, <3>4, <3>5
    <2>2. ASSUME NEW m \in Scopes, NEW k \in loop'[m].kids
          PROVE  k \in loop[m].kids /\ loop'[k].pc # "off" /\ Runs(m)'
      <3>1. m \notin K /\ k \in loop[m].kids
        BY <1>2, <1>3, <2>2 DEF Off
      <3>2. k \in Scopes /\ base[node[k].caller] = m /\ loop[k].pc # "off" /\ Runs(m)
        BY <3>1, FramesAre DEF Inv, Loops, Up
      <3>3. k \notin K
        BY <1>2, <1>3, <2>2, <3>2
      <3>4. loop'[k].pc # "off"
        BY <1>3, <1>4, <3>2, <3>3
      <3>5. Runs(m)'
        BY <1>3, <1>4, <1>7, <2>2, <3>2 DEF Runs, Alive
      <3> QED
        BY <3>1, <3>4, <3>5
    <2>3. ASSUME NEW q \in Paused
          PROVE  loop'[q].pc \in (Alive \ {"save"}) \cup {"off", "paused", "answered", "failed"}
      BY <1>2, <1>3, <1>4, FramesAre DEF Inv, Loops, Alive
    <2>4. loop'[Main].pc \in Alive \cup {"off", "crashed", "answered", "failed", "cleanup"}
      BY <1>2, <1>3, <1>4, FramesAre DEF Inv, Loops, Alive
    <2> QED
      BY <1>5, <2>1, <2>2, <2>3, <2>4 DEF Inv, Loops
  <1>16. Leaves'
    <2>1. ASSUME NEW m \in Scopes, Runs(m)', NEW f \in Up, Lives(f),
                 node[f].call = win[loop'[m].at].call
          PROVE  /\ m = Main /\ loop'[m].at = Main
                 /\ loop'[m].pc \in {"check", "join", "save"} /\ pending
      <3>1. CASE m # l
        BY <1>6, <1>7, <2>1, <3>1 DEF Inv, Leaves
      <3>2. CASE m = l /\ x = loop[l].at
        <4>1. /\ l = Main /\ x = Main /\ pending /\ loop[l].pc \in {"check", "join", "save"}
          BY <1>1, <1>3, <2>1, <3>2 DEF Inv, Leaves
        <4>2. win[Main].call # None
          BY <1>3, <2>1, <3>2, <4>1, UpwardsIs
        <4>3. InProgram(Main)
          BY <4>2, FramesAre DEF InProgram, Inv, Windows
        <4> QED
          BY <1>3, <3>2, <4>1, <4>3 DEF Joins
      <3>3. CASE m = l /\ x # loop[l].at
        <4>1. l = Main /\ x = Main /\ pc = "check" /\ loop[Main].pc = "join"
          BY <3>3 DEF Joins
        <4> QED
          BY <1>3, <3>3, <4>1 DEF Inv, Hearing
      <3> QED
        BY <3>1, <3>2, <3>3
    <2> QED
      BY <1>5, <2>1 DEF Leaves
  <1>17. Places(base, top)'
    <2>1. ASSUME NEW m \in Scopes, Runs(m)' PROVE Runs(top[m])'
      <3>1. Runs(m) /\ Runs(top[m]) /\ top[m] \in Scopes
        BY <1>6, <2>1 DEF Inv, Places
      <3>2. CASE top[m] # l \/ Runs(l)'
        BY <1>7, <3>1, <3>2
      <3>3. CASE top[m] = l /\ ~Runs(l)'
        <4>1. l # m /\ K = loop[l].kids
          <5>1. l # m /\ pc \notin Alive
            BY <1>3, <2>1, <3>3 DEF Runs
          <5> QED
            BY <5>1 DEF Joins, Alive
        <4>2. m \in Temps /\ l \in Tops
          <5>1. m \notin Tops
            BY <3>3, <4>1 DEF Inv, Places, Tops
          <5>2. m \in Temps
            BY <5>1, FramesAre DEF Tops
          <5> QED
            BY <3>1, <3>3, <5>2, Climb DEF Runs, Alive
        <4> QED
          BY <1>2, <3>1, <3>3, <4>1, <4>2, FirstKid
      <3> QED
        BY <3>2, <3>3
    <2>2. ASSUME NEW m \in Scopes, Runs(m)', ~Running(loop'[m].at) PROVE Pausing(m)'
      <3>1. CASE m # l
        <4>1. Pausing(m) /\ loop'[m] = loop[m]
          BY <1>6, <1>7, <2>2, <3>1 DEF Inv, Places
        <4> QED
          BY <1>5, <4>1 DEF Pausing
      <3>2. CASE m = l /\ x = loop[l].at
        <4>1. Pausing(l)
          BY <1>1, <1>3, <2>2, <3>2 DEF Inv, Places
        <4>2. pc = "join"
          BY <3>2, <4>1 DEF Joins, Pausing, InProgram
        <4> QED
          BY <1>3, <1>5, <3>2, <4>1, <4>2 DEF Pausing
      <3>3. CASE m = l /\ x # loop[l].at
        <4>1. l = Main /\ x = Main /\ pc = "check" /\ loop[Main].pc = "join"
          BY <3>3 DEF Joins
        <4> QED
          BY <1>3, <1>5, <3>3, <4>1 DEF Inv, Hearing, Pausing
      <3> QED
        BY <3>1, <3>2, <3>3
    <2>3. ASSUME NEW f \in Frames, node[f].status = "paused" PROVE top[f] \in Paused /\ ~Runs(top[f])'
      <3>1. top[f] \in Paused /\ ~Runs(top[f])
        BY <2>3 DEF Inv, Places
      <3> QED
        BY <1>6, <3>1, FramesAre
    <2> QED
      BY <1>5, <2>1, <2>2, <2>3 DEF Inv, Places
  <1>18. Hearing'
    <2>1. \A m \in Tops : m \in Scopes /\ m \notin K
      BY <1>2, FramesAre DEF Tops
    <2>2. \A m \in Tops : loop'[m].pc \in {"off", "crashed"} <=> loop[m].pc \in {"off", "crashed"}
      BY <1>3, <1>4, <2>1 DEF Joins
    <2>3. \A m \in Paused : loop'[m].pc = "off" <=> loop[m].pc = "off"
      BY <1>3, <1>4, <2>1 DEF Joins, Tops
    <2>4. \A k, m \in Tops :
          /\ loop'[k].pc \notin {"off", "crashed"} /\ loop'[m].pc \notin {"off", "crashed"}
          /\ Ord(m) < Ord(k)
          => loop'[k].pc = "resuming" /\ m <= win[loop'[k].at].resumable
      BY <1>8, <2>1, <2>2 DEF Inv, Hearing
    <2>5. \A m \in Scopes : loop'[m].pc \in {"resuming", "resumed"} =>
              m \in Tops /\ loop'[m].at \in Tops /\ win[loop'[m].at].prog = "resume"
      BY <1>8 DEF Inv, Hearing
    <2>6. \A m \in Scopes : loop'[m].pc = "resuming" =>
              win[loop'[m].at].resumable # None /\ loop'[win[loop'[m].at].resumable].pc # "off"
      <3>1. \A m \in Scopes : loop[m].pc = "resuming" =>
               loop[m].at \in Scopes /\ win[loop[m].at].resumable \in Paused
        BY AtIs, FramesAre DEF Inv, Windows, Hearing, Runs, Alive
      <3> QED
        BY <1>8, <2>3, <3>1 DEF Inv, Hearing
    <2>7. \A q \in Paused : loop'[q].pc # "off" => loop'[Main].pc = "resuming"
      BY <1>8, <2>3, FramesAre DEF Inv, Hearing
    <2>8. \A m \in Scopes : loop'[m].pc = "join" => InProgram(loop'[m].at)
      BY <1>1, <1>2, <1>3, <1>7 DEF Inv, Hearing, Joins, Off
    <2>9. loop'[Main].pc \in {"join", "save"} => pending /\ win[Main].prog # "none"
      <3>1. CASE l # Main
        BY <1>2, <1>3, <3>1, FramesAre DEF Inv, Hearing
      <3>2. CASE l = Main
        <4>1. pc = "join" => pending /\ InProgram(loop[Main].at)
          BY <3>2 DEF Joins
        <4>2. CASE loop[Main].at = Main
          BY <1>3, <1>4, <3>2, <4>1, <4>2 DEF InProgram
        <4>3. CASE loop[Main].at # Main
          <5>1. loop[Main].at \in Up
            BY <1>1, <3>2, <4>3, UpIs, FramesAre DEF Inv, Bases
          <5>2. win[Main].prog = "call"
            BY <1>1, <3>2, <5>1, MainWaits, UpwardsIs
          <5> QED
            BY <1>3, <1>4, <3>2, <4>1, <5>2
        <4> QED
          BY <4>2, <4>3
      <3> QED
        BY <3>1, <3>2
    <2>10. loop'[Main].pc = "save" =>
          /\ loop'[Main].at = Main /\ main = "running" /\ loop'[Main].kids = {}
          /\ \E q \in Paused : Used(q)
      BY <1>8, FramesAre DEF Inv, Hearing
    <2>11. \A y : InProgram(y)' <=> InProgram(y)
      BY <1>5 DEF InProgram
    <2> QED
      BY <1>5, <2>4, <2>5, <2>6, <2>7, <2>8, <2>9, <2>10, <2>11 DEF Hearing
  <1>19. Answers'
    <2>1. ASSUME NEW q \in Paused, loop'[q].pc = "answered", loop'[q].at = q PROVE win'[q].prog = "none"
      <3>1. q \in Scopes /\ q # l /\ q \notin K
        BY <1>2, <1>3, <1>4, <2>1, FramesAre
      <3> QED
        BY <1>3, <1>5, <2>1, <3>1 DEF Inv, Answers
    <2> QED
      BY <2>1 DEF Answers
  <1> QED
    BY <1>5, <1>9, <1>10, <1>11, <1>12, <1>13, <1>14, <1>15, <1>16, <1>17, <1>18, <1>19 DEF Inv

LEMMA JoinsAre ==
    ASSUME NEW base \in [Scopes -> Scopes], NEW top \in [Scopes -> Scopes],
           Inv(base, top), TypeOK', NEW l \in Scopes,
           Check(l) \/ StopNested(l) \/ JoinNext(l) \/ (l = Main /\ StopInFunction)
    PROVE  Inv(base, top)'
  <1>1. loop \in [Scopes -> Loop] /\ loop[l] \in Loop
    BY DEF Inv, TypeOK
  <1>2. CASE Check(l)
    <2> DEFINE pc == IF InProgram(loop[l].at) /\ pending THEN "join" ELSE "step"
    <2>1. loop' = [k \in Scopes |->
                 IF k = l THEN [loop[l] EXCEPT !.kids = @ \ {}, !.pc = pc, !.at = loop[l].at]
                 ELSE IF k \in {} THEN Off ELSE loop[k]]
      BY <1>1, <1>2 DEF Check, Go, Loop
    <2>2. Joins(l, {}, pc, loop[l].at)
      BY <1>2, <2>1 DEF Check, Joins, tally
    <2> QED
      BY <2>2, JoinsKeep
  <1>3. CASE StopNested(l)
    <2> DEFINE pc == IF l \in Paused THEN "paused" ELSE "ended"
    <2>1. pc = IF node[l].kind = "previous" THEN "paused" ELSE "ended"
      <3>1. Used(l) /\ l \in Frames
        BY <1>3, FramesAre DEF StopNested, Stopped, Inv, Tree, Off
      <3> QED
        BY <3>1, FramesAre DEF Inv, Tree, Up
    <2>2. loop' = [k \in Scopes |->
                 IF k = l THEN [loop[l] EXCEPT !.kids = @ \ loop[l].kids, !.pc = pc, !.at = loop[l].at]
                 ELSE IF k \in loop[l].kids THEN Off ELSE loop[k]]
      BY <1>1, <1>3, <2>1 DEF StopNested, Loop
    <2>3. Joins(l, loop[l].kids, pc, loop[l].at)
      BY <1>3, <2>2 DEF StopNested, Stopped, Joins, tally
    <2> QED
      BY <2>3, JoinsKeep
  <1>4. CASE JoinNext(l)
    <2>1. PICK k \in loop[l].kids :
             /\ loop[k].pc = "ended"
             /\ loop' = [loop EXCEPT ![l].pc = "check", ![l].kids = @ \ {k}, ![k] = Off]
      BY <1>4 DEF JoinNext
    <2>2. k \in Scopes /\ k # l
      BY <1>4, <2>1, FramesAre DEF JoinNext, Inv, Loops, Up
    <2>3. loop' = [m \in Scopes |->
                 IF m = l THEN [loop[l] EXCEPT !.kids = @ \ {k}, !.pc = "check", !.at = loop[l].at]
                 ELSE IF m \in {k} THEN Off ELSE loop[m]]
      BY <1>1, <2>1, <2>2 DEF Loop
    <2>4. Joins(l, {k}, "check", loop[l].at)
      BY <1>4, <2>1, <2>3, Zenon DEF JoinNext, Joins, tally
    <2> QED
      BY <2>4, JoinsKeep
  <1>5. CASE l = Main /\ StopInFunction
    <2>1. loop' = [k \in Scopes |->
                 IF k = l THEN [loop[l] EXCEPT !.kids = @ \ loop[l].kids, !.pc = "check", !.at = Main]
                 ELSE IF k \in loop[l].kids THEN Off ELSE loop[k]]
      BY <1>1, <1>5 DEF StopInFunction, JoinedKids, Loop
    <2>2. Joins(l, loop[l].kids, "check", Main)
      BY <1>5, <2>1 DEF StopInFunction, Stopped, Joins, tally
    <2> QED
      BY <2>2, JoinsKeep
  <1> QED
    BY <1>2, <1>3, <1>4, <1>5

\* The user speaks.
LEMMA SayKeeps ==
    ASSUME NEW base \in [Scopes -> Scopes], NEW top \in [Scopes -> Scopes],
           Inv(base, top), TypeOK', Say
    PROVE  Inv(base, top)'
  <1>1. /\ Up' = Up /\ Serving' = Serving /\ \A f : Lives(f)' = Lives(f) /\ Used(f)' = Used(f)
        /\ \A f : Running(f)' = Running(f) /\ Runs(f)' = Runs(f) /\ (Pausing(f) => Pausing(f)')
        /\ \A f : InProgram(f)' = InProgram(f)
        /\ node' = node /\ win' = win /\ main' = main /\ recorded' = recorded /\ pending' = TRUE
        /\ called' = called /\ sent' = sent + 1 /\ crashes' = crashes /\ torn' = torn
        /\ loop' = loop /\ Saving' = Saving
    BY DEF Say, Up, Serving, Lives, Used, Running, Runs, Pausing, InProgram, Saving
  <1>2. Numbered'
    <2>1. PICK n \in Nat : /\ \A q \in Paused : Used(q) <=> q <= MaxFrames + n
                           /\ n <= sent + crashes
      BY DEF Inv, Numbered
    <2>2. sent \in Nat /\ crashes \in Nat
      BY DEF Inv, TypeOK
    <2>3. n < sent' + crashes' /\ n <= sent' + crashes'
      BY <1>1, <2>1, <2>2
    <2> QED
      BY <1>1, <2>1, <2>3 DEF Numbered
  <1>3. Tree' /\ Windows' /\ Owners' /\ Apart' /\ Waits'
    BY <1>1 DEF Inv, Tree, Windows, Owners, Apart, Waits
  <1>4. CallsAreOne'
    BY <1>1 DEF Inv, CallsAreOne, CallOnce
  <1>5. Deads' /\ Bases(base)' /\ Loops(base)' /\ Leaves' /\ Answers' /\ Stacks(base)'
    BY <1>1 DEF Inv, Deads, Bases, Loops, Leaves, Answers, Stacks
  <1>6. Places(base, top)' /\ Hearing'
    BY <1>1 DEF Inv, Places, Hearing
  <1> QED
    BY <1>1, <1>2, <1>3, <1>4, <1>5, <1>6 DEF Inv

\* The process dies: all loops are gone, the database stays.
LEMMA CrashKeeps ==
    ASSUME NEW base \in [Scopes -> Scopes], NEW top \in [Scopes -> Scopes],
           Inv(base, top), TypeOK', ~torn', Crash
    PROVE  Inv(base, top)'
  <1>1. /\ Up' = Up /\ Serving' = Serving /\ \A f : Lives(f)' = Lives(f) /\ Used(f)' = Used(f)
        /\ \A f : Running(f)' = Running(f)
        /\ \A f : InProgram(f)' = InProgram(f)
        /\ node' = node /\ win' = win /\ main' = main /\ recorded' = recorded /\ pending' = pending
        /\ called' = called /\ sent' = sent /\ crashes' = crashes + 1
    BY DEF Crash, Up, Serving, Lives, Used, Running, InProgram
  <1>2. /\ \A l \in Frames : loop'[l] = Off
        /\ loop'[Main].pc = "crashed" /\ loop'[Main].at = Main /\ loop'[Main].kids = {}
        /\ \A l \in Scopes : ~Runs(l)' /\ loop'[l].kids = {} /\ loop'[l].pc \in {"off", "crashed"}
        /\ ~Saving /\ ~Saving'
    BY FramesAre DEF Crash, Off, Runs, Alive, Saving
  <1>3. Numbered'
    <2>1. PICK n \in Nat : /\ \A q \in Paused : Used(q) <=> q <= MaxFrames + n
                           /\ n <= sent + crashes
      BY DEF Inv, Numbered
    <2>2. sent \in Nat /\ crashes \in Nat
      BY DEF Inv, TypeOK
    <2>3. n < sent' + crashes' /\ n <= sent' + crashes'
      BY <1>1, <2>1, <2>2
    <2> QED
      BY <1>1, <2>1, <2>3 DEF Numbered
  <1>4. Tree' /\ Windows'
    BY <1>1, <1>2 DEF Inv, Tree, Windows
  <1>5. Owners' /\ Apart' /\ Waits' /\ Deads' /\ Stacks(base)'
    BY <1>1, <1>2 DEF Inv, Owners, Apart, Waits, Deads, Stacks
  <1>6. CallsAreOne'
    BY <1>1, <1>2 DEF Inv, CallsAreOne, CallOnce
  <1>7. Bases(base)'
    BY <1>1, <1>2 DEF Inv, Bases
  <1>8. Loops(base)'
    BY <1>2, FramesAre DEF Loops, Off
  <1>9. Leaves' /\ Answers'
    BY <1>2, FramesAre DEF Leaves, Answers
  <1>10. Places(base, top)'
    <2>1. \A f \in Frames : top[f] \in Scopes
      BY FramesAre
    <2> QED
      BY <1>1, <1>2, <2>1 DEF Inv, Places
  <1>11. Hearing'
    <2>1. \A l \in Tops : loop'[l].pc \in {"off", "crashed"}
      BY <1>2, FramesAre DEF Tops
    <2>2. \A q \in Paused : loop'[q].pc = "off"
      BY <1>2, FramesAre DEF Off
    <2>3. \A l \in Scopes : loop'[l].pc \notin {"resuming", "resumed", "join", "save"}
      BY <1>2
    <2> QED
      BY <2>1, <2>2, <2>3, FramesAre DEF Hearing
  <1> QED
    BY <1>3, <1>4, <1>5, <1>6, <1>7, <1>8, <1>9, <1>10, <1>11 DEF Inv

\* The second write of a pause frees the main window.
LEMMA SaveKeeps ==
    ASSUME NEW base \in [Scopes -> Scopes], NEW top \in [Scopes -> Scopes],
           Inv(base, top), TypeOK', PauseSaved
    PROVE  Inv(base, top)'
  <1> DEFINE taken == Paused \ Unused(Paused)
             p == CHOOSE f \in taken : \A g \in taken : g <= f
             w == [Fresh EXCEPT !.resumable = p]
  <1>1. /\ loop[Main].pc = "save" /\ loop[Main].at = Main /\ main = "running" /\ loop[Main].kids = {}
        /\ pending /\ Runs(Main) /\ Main \in Scopes /\ loop[Main] \in Loop
    BY FramesAre DEF PauseSaved, Inv, Hearing, Runs, Alive, TypeOK
  <1>2. p \in Paused /\ Used(p) /\ p \in Frames
    <2>1. taken \subseteq Frames /\ taken # {}
      BY <1>1, FramesAre DEF Inv, Hearing, Unused, Used
    <2>2. p \in taken
      BY <2>1, LastExists
    <2> QED
      BY <2>2, FramesAre DEF Unused, Used
  <1>3. /\ w.there /\ w.prog = "none" /\ w.call = None /\ w.inflight = {} /\ w.resumable = p
        /\ win'[Main] = w /\ \A y \in Scopes \ {Main} : win'[y] = win[y]
    BY <1>1 DEF PauseSaved, Put, Fresh, Inv, TypeOK
  <1> HIDE DEF taken, p, w
  <1>4. /\ \A m \in Scopes \ {Main} : loop'[m] = loop[m]
        /\ loop'[Main].pc = "step" /\ loop'[Main].at = Main /\ loop'[Main].kids = {}
        /\ \A m \in Scopes : Runs(m)' <=> Runs(m)
        /\ \A m \in Scopes : loop'[m].at = loop[m].at /\ loop'[m].kids = loop[m].kids
        /\ ~Saving'
    BY <1>1 DEF PauseSaved, Go, Runs, Alive, Saving, Inv, TypeOK, Loop
  <1>5. /\ Up' = Up /\ Serving' = Serving /\ \A f : (Lives(f)' <=> Lives(f)) /\ (Used(f)' <=> Used(f))
        /\ \A f : Running(f)' <=> Running(f)
        /\ node' = node /\ main' = main /\ recorded' = recorded /\ pending' = pending
        /\ called' = called /\ sent' = sent /\ crashes' = crashes /\ torn' = torn
    BY DEF PauseSaved, Up, Serving, Lives, Used, Running, tally
  <1>6. Tree'
    BY <1>3, <1>4, <1>5, FramesAre DEF Inv, Tree
  <1>40. Answers'
    <2>1. \A q \in Paused : q \in Scopes \ {Main}
      BY FramesAre
    <2> QED
      BY <1>3, <1>4, <2>1 DEF Inv, Answers
  <1>7. Numbered'
    BY <1>3, <1>5 DEF Inv, Numbered
  <1>8. Windows'
    <2>1. ASSUME NEW y \in Scopes
          PROVE
          /\ ~win'[y].there => win'[y] = NoWindow
          /\ win'[y].prog = "call" <=> win'[y].call # None
          /\ win'[y].call <= called /\ \A c \in win'[y].inflight : c <= called
          /\ win'[y].resumable # None =>
                /\ y \in Tops /\ win'[y].resumable \in Paused /\ Used(win'[y].resumable)
                /\ y \in Paused => win'[y].resumable < y
      <3>1. None <= called
        BY DEF Inv, TypeOK, None
      <3>2. CASE y = Main
        BY <1>2, <1>3, <3>1, <3>2, FramesAre DEF Tops
      <3>3. CASE y # Main
        BY <1>3, <3>3 DEF Inv, Windows
      <3> QED
        BY <3>2, <3>3
    <2>2. \A f \in Frames : f \in Scopes /\ f # Main
      BY FramesAre
    <2>3. \A q \in Paused : q \in Frames
      BY FramesAre
    <2> QED
      BY <1>1, <1>3, <1>5, <2>1, <2>2, <2>3 DEF Inv, Windows
  <1>9. CallsAreOne'
    <2>1. \A y \in Scopes : /\ win'[y].call \in {None, win[y].call}
                            /\ win'[y].inflight \subseteq win[y].inflight
      BY <1>3
    <2>2. \A f \in Up : node[f].call # None
      BY UpwardsIs
    <2>3. \A m \in Scopes : loop'[m].pc = "spawn" => m # Main /\ loop'[m] = loop[m] /\ loop[m].at # Main
                                                   /\ loop[m].at \in Scopes
      BY <1>4, AtIs DEF Runs, Alive
    <2>4. \A m \in Scopes : loop'[m].pc = "spawn" =>
          /\ loop'[m].call \in win'[loop'[m].at].inflight
          /\ \A f \in Up : node[f].call # loop'[m].call
          /\ \A k \in Scopes \ {m} : loop'[k].pc = "spawn" => loop'[k].call # loop'[m].call
          /\ loop'[m].call \notin recorded
      BY <1>3, <2>3 DEF Inv, CallsAreOne
    <2>5. \A y, z \in Scopes : win'[y].call # None => win'[y].call \notin win'[z].inflight
      BY <2>1 DEF Inv, CallsAreOne
    <2>6. \A y \in Scopes : \A f \in Up :
          /\ node[f].call \in win'[y].inflight => node[f].kind = "concurrent"
          /\ node[f].call = win'[y].call => node[f].kind = "serial"
      BY <2>1, <2>2 DEF Inv, CallsAreOne
    <2> QED
      BY <1>5, <2>4, <2>5, <2>6 DEF Inv, CallsAreOne, CallOnce
  <1>10. Owners' /\ Apart'
    <2>1. Pends(win'[Main]) = {} /\ \A y \in Scopes \ {Main} : Pends(win'[y]) = Pends(win[y])
      BY <1>3 DEF Pends
    <2>2. Owners'
      BY <1>5, <2>1 DEF Inv, Owners
    <2>3. \A y \in Frames : y \in Scopes \ {Main}
      BY FramesAre
    <2>4. Apart'
      BY <2>1, <2>3 DEF Inv, Apart
    <2> QED
      BY <2>2, <2>4
  <1>11. Waits'
    <2>1. \A f \in Serving : node[f].caller \in Scopes \ {Main}
      BY <1>1, UpwardsIs DEF Inv, Waits, Serving
    <2> QED
      BY <1>3, <1>5, <2>1 DEF Inv, Waits
  <1>12. Deads'
    <2>1. \A f \in Up : node[f].call # None
      BY UpwardsIs
    <2> QED
      BY <1>3, <1>5, <2>1 DEF Inv, Deads
  <1>13. Bases(base)'
    BY <1>1, <1>4, <1>5 DEF Inv, Bases
  <1>14. Loops(base)'
    <2>1. \A k \in Frames : k \in Scopes /\ loop'[k] = loop[k]
      BY <1>4, FramesAre
    <2>2. \A k \in Up \cup Temps \cup Paused : k \in Frames
      BY FramesAre DEF Up
    <2> QED
      BY <1>4, <1>5, <2>1, <2>2 DEF Inv, Loops, Alive
  <1>15. Leaves'
    <2>1. \A m \in Scopes \ {Main} : Runs(m) => loop[m].at \in Scopes \ {Main}
      BY AtIs
    <2>2. \A f \in Up : node[f].call # None
      BY UpwardsIs
    <2> QED
      BY <1>3, <1>4, <1>5, <2>1, <2>2 DEF Inv, Leaves
  <1>16. Stacks(base)'
    BY <1>5 DEF Inv, Stacks
  <1>17. Places(base, top)'
    <2>1. \A f \in Frames : top[f] \in Scopes
      BY FramesAre
    <2>2. \A m \in Scopes : Runs(m) => Runs(top[m]) /\ Running(loop[m].at)
      BY <1>1 DEF Inv, Places, Running, Pausing
    <2>3. \A m \in Scopes : top[m] \in Scopes
      OBVIOUS
    <2> QED
      BY <1>4, <1>5, <2>1, <2>2, <2>3 DEF Inv, Places
  <1>18. Hearing'
    <2>1. \A q \in Paused : q \in Scopes /\ loop'[q].pc = "off"
      BY <1>1, <1>4, FramesAre DEF Inv, Hearing
    <2>2. \A m \in Scopes \ {Main} : Runs(m) => loop[m].at \in Scopes \ {Main}
      BY AtIs
    <2>3. \A m \in Temps : loop'[m].pc \notin {"resuming", "resumed", "save"}
      BY <1>4, FramesAre DEF Inv, Loops, Alive
    <2>4. \A m \in Scopes : loop'[m].pc \notin {"resuming", "resumed", "save"}
      BY <1>4, <2>1, <2>3, FramesAre
    <2>5. \A m \in Scopes : loop'[m].pc = "join" => loop'[m].at # Main
      BY <1>4, <2>2 DEF Runs, Alive
    <2>6. ASSUME NEW k \in Tops, NEW m \in Tops, Ord(m) < Ord(k)
          PROVE loop'[m].pc = "off" \/ loop'[k].pc = "off"
      <3>1. Ord(Main) \in Nat
        BY ScopesAre DEF Ord
      <3>2. k # m
        <4> SUFFICES ASSUME k = m PROVE FALSE
          OBVIOUS
        <4>1. CASE m = Main
          BY <2>6, <3>1, <4>1
        <4>2. CASE m \in Paused
          BY <2>6, <4>2, ScopesAre DEF Ord, Paused, Main
        <4> QED
          BY <4>1, <4>2 DEF Tops
      <3>3. m \in Paused \/ k \in Paused
        BY <3>2 DEF Tops
      <3> QED
        BY <2>1, <3>3
    <2> QED
      BY <1>4, <2>1, <2>4, <2>5, <2>6 DEF Hearing, InProgram
  <1> QED
    BY <1>40, <1>5, <1>6, <1>7, <1>8, <1>9, <1>10, <1>11, <1>12, <1>13, <1>14, <1>15, <1>16, <1>17, <1>18 DEF Inv

-----------------------------------------------------------------------------
(* Steps that open a frame.                                                *)

\* The loop l opens the frame g for the call c of the frame x it is in.
Opens(l, g, x, kind, c) ==
    /\ x = loop[l].at /\ Running(x)
    /\ g \in Temps /\ ~Used(g) /\ \A h \in Temps : h < g => Used(h)
    /\ node' = [f \in Frames |->
                 IF f = g THEN NewNode(kind, x, c)
                 ELSE IF kind = "serial" /\ f = x THEN [node[f] EXCEPT !.status = "suspended"]
                 ELSE node[f]]
    /\ main' = IF kind = "serial" /\ x = Main THEN "suspended" ELSE main
    /\ win'[g].there /\ win'[g].prog \in {"none", "ready"} /\ win'[g].call = None
    /\ win'[g].inflight = {} /\ win'[g].resumable = None
    /\ win'[x].there /\ win'[x].prog = win[x].prog /\ win'[x].call = win[x].call
    /\ win'[x].inflight \subseteq win[x].inflight /\ win'[x].resumable = win[x].resumable
    /\ \A y \in Scopes \ {g, x} : win'[y] = win[y]
    /\ \/ /\ kind = "serial" /\ loop[l].pc \in {"step", "enter"}
          /\ win[x].prog = "call" /\ c = win[x].call /\ c \notin recorded
          /\ loop' = [loop EXCEPT ![l].at = g, ![l].pc = "check"]
          /\ pending' = pending \/ (pending' = FALSE /\ l \in Tops)
       \/ /\ kind = "concurrent" /\ loop[l].pc = "spawn" /\ c = loop[l].call
          /\ loop' = [loop EXCEPT ![l].pc = "check", ![l].call = None, ![l].kids = @ \cup {g},
                                  ![g] = [Off EXCEPT !.pc = "check", !.at = g]]
          /\ pending' = pending
    /\ UNCHANGED <<recorded, called, sent, crashes, torn>>

LEMMA OpensKeep ==
    ASSUME NEW base \in [Scopes -> Scopes], NEW top \in [Scopes -> Scopes],
           Inv(base, top), TypeOK', NEW l \in Scopes, NEW g, NEW x, NEW kind, NEW c,
           Opens(l, g, x, kind, c)
    PROVE  \E b, t \in [Scopes -> Scopes] : Inv(b, t)'
  <1>1. /\ Runs(l) /\ x \in Scopes /\ win[x].there /\ win[x] \in Window /\ x = loop[l].at
        /\ x \in Frames => Lives(x) /\ Used(x)
        /\ \A m \in Scopes : Runs(m) /\ loop[m].at = x => m = l
        /\ x = Main => l = Main
        /\ base[x] = l /\ loop[l] \in Loop /\ loop \in [Scopes -> Loop]
        /\ loop[l].pc \in {"step", "enter", "spawn"} /\ kind \in {"serial", "concurrent"}
    <2>1. Runs(l) /\ x = loop[l].at
      BY DEF Opens, Runs, Alive
    <2> QED
      BY <2>1, AtIs DEF Inv, TypeOK, Opens, Bases
  <1>2. /\ g \in Temps /\ g \in Frames /\ g \in Scopes /\ g # Main /\ g \notin Paused /\ g \notin Tops
        /\ g # x /\ g \notin Up /\ ~Used(g) /\ g # l /\ g \in Nat
        /\ node[g] = NoNode /\ win[g] = NoWindow /\ loop[g] = Off
        /\ \A h \in Temps : h < g => Used(h)
    <2>1. /\ g \in Temps /\ ~Used(g) /\ \A h \in Temps : h < g => Used(h)
      BY DEF Opens
    <2>2. g \in Frames /\ g # Main /\ g \notin Paused /\ g \in Scopes /\ g \notin Tops /\ g \in Nat
      BY <2>1, FramesAre DEF Tops
    <2>3. node[g] = NoNode /\ win[g] = NoWindow /\ loop[g] = Off
      BY <2>1, <2>2 DEF Inv, Tree
    <2>4. g # l
      BY <1>1, <2>3 DEF Runs, Alive, Off
    <2> QED
      BY <1>1, <2>1, <2>2, <2>3, <2>4 DEF Up
  <1>3. /\ \A f \in Up : f < g /\ f # g /\ node[f].caller # g
        /\ \A m \in Scopes : Runs(m) => loop[m].at # g
        /\ \A m \in Scopes : g \notin loop[m].kids
        /\ x \in Up => x < g
    <2>1. \A f \in Up : f < g
      <3>1. \A f \in Temps : g < f /\ Used(f) => Used(g)
        BY <1>2 DEF Inv, Tree
      <3>2. \A f \in Up : f \in Nat /\ f \in Temps /\ Used(f) /\ f # g
        BY <1>2, UpwardsIs DEF Up
      <3>3. \A f \in Nat : f < g \/ f = g \/ g < f
        BY <1>2
      <3> QED
        BY <1>2, <3>1, <3>2, <3>3
    <2>2. \A f \in Up : f # g /\ node[f].caller # g
      BY <1>2, UpwardsIs
    <2>3. \A m \in Scopes : Runs(m) => loop[m].at # g
      BY <1>2, AtIs
    <2>4. \A m \in Scopes : g \notin loop[m].kids
      BY <1>2 DEF Inv, Loops
    <2> QED
      BY <2>1, <2>2, <2>3, <2>4
  <1>4. /\ c \in Calls /\ c # None /\ c \in Pends(win[x]) /\ c \notin recorded /\ c <= called
        /\ \A f \in Frames : node[f].call # c
        /\ kind = "serial" => c = win[x].call
        /\ kind = "concurrent" => c \in win[x].inflight /\ c = loop[l].call /\ loop[l].pc = "spawn"
    <2>1. CASE kind = "serial"
      <3>1. c = win[x].call /\ c \notin recorded /\ win[x].prog = "call" /\ loop[l].pc \in {"step", "enter"}
        BY <2>1 DEF Opens
      <3>2. c # None /\ c \in Calls /\ c <= called
        BY <1>1, <3>1 DEF Inv, Windows, Window, None
      <3>3. ASSUME NEW f \in Up, node[f].call = c PROVE FALSE
        <4>1. ~Lives(f)
          BY <1>1, <3>1, <3>3 DEF Inv, Leaves
        <4>2. node[f].kind = "serial"
          BY <1>1, <3>1, <3>3 DEF Inv, CallsAreOne
        <4>3. x # Main /\ ~Lives(x)
          BY <1>1, <3>1, <3>3, <4>1, <4>2 DEF Inv, Deads
        <4> QED
          BY <1>1, <4>3, FramesAre
      <3>4. ASSUME NEW f \in Frames, f \notin Up PROVE node[f].call = None
        BY <3>4, FramesAre DEF Inv, Tree, Up, NoNode
      <3> QED
        BY <2>1, <3>1, <3>2, <3>3, <3>4 DEF Pends
    <2>2. CASE kind = "concurrent"
      <3>1. loop[l].pc = "spawn" /\ c = loop[l].call
        BY <2>2 DEF Opens
      <3>2. c \in win[x].inflight /\ c \notin recorded /\ \A f \in Up : node[f].call # c
        BY <1>1, <3>1 DEF Inv, CallsAreOne
      <3>3. c # None /\ c \in Calls /\ c <= called
        BY <1>1, <3>2, FramesAre DEF Inv, Windows, Window, Calls, None
      <3>4. ASSUME NEW f \in Frames, f \notin Up PROVE node[f].call = None
        BY <3>4, FramesAre DEF Inv, Tree, Up, NoNode
      <3> QED
        BY <2>2, <3>1, <3>2, <3>3, <3>4 DEF Pends
    <2> QED
      BY <1>1, <2>1, <2>2
  <1>5. /\ node'[g].status = "running" /\ node'[g].kind = kind /\ node'[g].call = c
        /\ node'[g].caller = x /\ node'[g].parent = x
        /\ node'[g].parallel <=> kind = "concurrent" \/ (x # Main /\ node[x].parallel)
        /\ \A f \in Frames \ {g} : /\ node'[f].kind = node[f].kind /\ node'[f].call = node[f].call
                                   /\ node'[f].caller = node[f].caller /\ node'[f].parent = node[f].parent
                                   /\ node'[f].parallel = node[f].parallel
                                   /\ (Lives(f)' <=> Lives(f)) /\ (Used(f)' <=> Used(f))
        /\ \A f \in Frames \ {g} : f # x => node'[f] = node[f]
        /\ kind = "concurrent" => \A f \in Frames \ {g} : node'[f] = node[f]
        /\ kind = "serial" /\ x \in Frames => node'[x].status = "suspended"
    <2>1. \A f \in Frames : node[f] \in Node
      BY DEF Inv, TypeOK
    <2>2. node'[g] = NewNode(kind, x, c)
      BY <1>2 DEF Opens
    <2>3. \A f \in Frames \ {g} : f # x => node'[f] = node[f]
      BY DEF Opens
    <2>4. kind = "concurrent" => \A f \in Frames \ {g} : node'[f] = node[f]
      BY DEF Opens
    <2>5. kind = "serial" /\ x \in Frames => node'[x] = [node[x] EXCEPT !.status = "suspended"]
      BY <1>2 DEF Opens
    <2>6. /\ node'[g].status = "running" /\ node'[g].kind = kind /\ node'[g].call = c
          /\ node'[g].caller = x /\ node'[g].parent = x
      BY <2>2 DEF NewNode, NoNode
    <2>10. node'[g].parallel = (kind = "concurrent" \/ (x # Main /\ node[x].parallel))
      BY <2>2 DEF NewNode, NoNode
    <2>7. /\ node'[g].status = "running" /\ node'[g].kind = kind /\ node'[g].call = c
          /\ node'[g].caller = x /\ node'[g].parent = x
          /\ node'[g].parallel <=> kind = "concurrent" \/ (x # Main /\ node[x].parallel)
      BY <2>6, <2>10
    <2>8. ASSUME NEW f \in Frames \ {g}
          PROVE /\ node'[f].kind = node[f].kind /\ node'[f].call = node[f].call
                /\ node'[f].caller = node[f].caller /\ node'[f].parent = node[f].parent
                /\ node'[f].parallel = node[f].parallel
                /\ (Lives(f)' <=> Lives(f)) /\ (Used(f)' <=> Used(f))
      <3>1. CASE f = x /\ kind = "serial"
        <4>1. node'[f] = [node[f] EXCEPT !.status = "suspended"] /\ Lives(f) /\ Used(f)
          BY <1>1, <2>5, <3>1
        <4> QED
          BY <2>1, <4>1 DEF Lives, Live, Used, Node
      <3>2. CASE ~(f = x /\ kind = "serial")
        BY <1>1, <2>3, <2>4, <3>2 DEF Lives, Used
      <3> QED
        BY <3>1, <3>2
    <2>9. kind = "serial" /\ x \in Frames => node'[x].status = "suspended"
      BY <2>1, <2>5 DEF Node
    <2> HIDE DEF NewNode
    <2> QED
      BY <2>3, <2>4, <2>7, <2>8, <2>9
  <1>6. /\ Up' = Up \cup {g} /\ Used(g)' /\ Lives(g)'
        /\ \A f : f \in Serving' <=> f \in Serving \/ (f = g /\ kind = "serial")
        /\ \A f \in Up : f \in Frames \ {g} /\ f \in Scopes
    <2>1. \A f \in Up : f \in Frames \ {g} /\ f \in Scopes
      BY <1>2, UpwardsIs
    <2>2. Used(g)' /\ Lives(g)'
      BY <1>5 DEF Used, Lives, Live
    <2>3. Up' = Up \cup {g}
      <3>1. \A f \in Temps \ {g} : f \in Frames \ {g} /\ (Used(f)' <=> Used(f))
        BY <1>5, FramesAre
      <3> QED
        BY <1>2, <2>2, <3>1 DEF Up
    <2>4. \A f \in Up : f \in Serving' <=> f \in Serving
      BY <1>5, <2>1, <2>3 DEF Serving
    <2>5. g \in Serving' <=> kind = "serial"
      BY <1>5, <2>2, <2>3 DEF Serving
    <2>6. \A f : (f \in Serving => f \in Up) /\ (f \in Serving' => f \in Up \cup {g})
      BY <2>3 DEF Serving
    <2> QED
      BY <1>2, <2>1, <2>2, <2>3, <2>4, <2>5, <2>6
  <1>7. /\ \A y \in Scopes \ {g} : /\ win'[y].there = win[y].there /\ win'[y].prog = win[y].prog
                                   /\ win'[y].call = win[y].call /\ win'[y].resumable = win[y].resumable
                                   /\ win'[y].inflight \subseteq win[y].inflight
                                   /\ Pends(win'[y]) \subseteq Pends(win[y])
        /\ \A y \in Scopes \ {g, x} : win'[y] = win[y]
        /\ win'[g].there /\ win'[g].prog \in {"none", "ready"} /\ win'[g].call = None
        /\ win'[g].inflight = {} /\ win'[g].resumable = None /\ Pends(win'[g]) = {}
    <2>1. /\ \A y \in Scopes \ {g, x} : win'[y] = win[y]
          /\ win'[g].there /\ win'[g].prog \in {"none", "ready"} /\ win'[g].call = None
          /\ win'[g].inflight = {} /\ win'[g].resumable = None
          /\ win'[x].there /\ win'[x].prog = win[x].prog /\ win'[x].call = win[x].call
          /\ win'[x].inflight \subseteq win[x].inflight /\ win'[x].resumable = win[x].resumable
      BY DEF Opens
    <2>2. win'[x].there = win[x].there
      BY <1>1, <2>1 DEF Inv, TypeOK, Window
    <2>3. \A y \in Scopes \ {g} : /\ win'[y].there = win[y].there /\ win'[y].prog = win[y].prog
                                   /\ win'[y].call = win[y].call /\ win'[y].resumable = win[y].resumable
                                   /\ win'[y].inflight \subseteq win[y].inflight
      BY <2>1, <2>2
    <2> QED
      BY <2>1, <2>3 DEF Pends
  <1>8. /\ \A m \in Scopes \ {l, g} : loop'[m] = loop[m]
        /\ loop'[l].pc = "check"
        /\ kind = "serial" => loop'[l].at = g /\ loop'[l].kids = loop[l].kids /\ loop'[g] = Off
        /\ kind = "concurrent" => /\ loop'[l].at = x /\ loop'[l].kids = loop[l].kids \cup {g}
                                  /\ loop'[g].pc = "check" /\ loop'[g].at = g /\ loop'[g].kids = {}
        /\ \A m \in Scopes \ {g} : Runs(m)' <=> Runs(m)
        /\ Runs(g)' <=> kind = "concurrent"
    <2>1. CASE kind = "serial"
      <3>1. loop' = [loop EXCEPT ![l].at = g, ![l].pc = "check"]
        BY <2>1 DEF Opens
      <3>2. /\ \A m \in Scopes \ {l} : loop'[m] = loop[m]
            /\ loop'[l].pc = "check" /\ loop'[l].at = g /\ loop'[l].kids = loop[l].kids
        BY <1>1, <3>1 DEF Loop
      <3>3. loop'[g] = Off /\ \A m \in Scopes \ {l, g} : loop'[m] = loop[m]
        BY <1>2, <3>2
      <3>4. /\ \A m \in Scopes \ {g} : Runs(m)' <=> Runs(m)
            /\ ~Runs(g)'
        BY <1>1, <3>2, <3>3 DEF Runs, Alive, Off
      <3> QED
        BY <2>1, <3>2, <3>3, <3>4
    <2>2. CASE kind = "concurrent"
      <3>1. loop' = [loop EXCEPT ![l].pc = "check", ![l].call = None, ![l].kids = @ \cup {g},
                                  ![g] = [Off EXCEPT !.pc = "check", !.at = g]]
        BY <2>2 DEF Opens
      <3>2. /\ \A m \in Scopes \ {l, g} : loop'[m] = loop[m]
            /\ loop'[l].pc = "check" /\ loop'[l].at = x /\ loop'[l].kids = loop[l].kids \cup {g}
            /\ loop'[g] = [Off EXCEPT !.pc = "check", !.at = g]
        <4> DEFINE new == [Off EXCEPT !.pc = "check", !.at = g]
        <4>1. loop' = [loop EXCEPT ![l].pc = "check", ![l].call = None, ![l].kids = @ \cup {g},
                                    ![g] = new]
          BY <3>1
        <4> HIDE DEF new
        <4>2. /\ \A m \in Scopes \ {l, g} : loop'[m] = loop[m]
              /\ loop'[l].pc = "check" /\ loop'[l].at = loop[l].at
              /\ loop'[l].kids = loop[l].kids \cup {g}
              /\ loop'[g] = new
          BY <1>1, <1>2, <4>1 DEF Loop
        <4> QED
          BY <1>1, <4>2 DEF new
      <3>3. loop'[g].pc = "check" /\ loop'[g].at = g /\ loop'[g].kids = {}
        BY <3>2 DEF Off
      <3> QED
        BY <1>1, <1>2, <2>2, <3>2, <3>3 DEF Runs, Alive
    <2> QED
      BY <1>1, <2>1, <2>2
  <1>9. /\ recorded' = recorded /\ called' = called /\ sent' = sent /\ crashes' = crashes /\ torn' = torn
        /\ pending' => pending
        /\ l # Main /\ loop[Main].pc # "resuming" => (pending => pending')
        /\ Saving' <=> Saving
        /\ l = Main => ~Saving
    <2>1. pending \in BOOLEAN /\ pending' \in BOOLEAN
      BY DEF Inv, TypeOK
    <2>2. pending' = pending \/ (pending' = FALSE /\ l \in Tops)
      BY DEF Opens
    <2>3. l # Main /\ l \in Tops => loop[Main].pc = "resuming"
      BY <1>1, FramesAre DEF Inv, Hearing, Tops, Runs, Alive
    <2>4. Saving' <=> Saving
      BY <1>1, <1>2, <1>8, FramesAre DEF Saving
    <2>5. l = Main => ~Saving
      BY <1>1 DEF Saving
    <2> QED
      BY <2>1, <2>2, <2>3, <2>4, <2>5 DEF Opens
  <1>10. \A y \in Scopes \ {g} : y # x \/ kind = "concurrent" => (Running(y)' <=> Running(y))
    <2>1. main' = main \/ (kind = "serial" /\ x = Main)
      BY DEF Opens
    <2> QED
      BY <1>2, <1>5, <2>1, FramesAre DEF Running
  <1>11. PICK b \in [Scopes -> Scopes] :
            b[g] = (IF kind = "serial" THEN base[x] ELSE g) /\ \A y \in Scopes \ {g} : b[y] = base[y]
    <2> DEFINE v == IF kind = "serial" THEN base[x] ELSE g
    <2>1. v \in Scopes
      BY <1>1, <1>2
    <2> HIDE DEF v
    <2>2. [base EXCEPT ![g] = v] \in [Scopes -> Scopes]
      BY <2>1
    <2>3. [base EXCEPT ![g] = v][g] = v /\ \A y \in Scopes \ {g} : [base EXCEPT ![g] = v][y] = base[y]
      BY <1>2
    <2> QED
      BY <2>2, <2>3 DEF v
  <1>12. PICK t \in [Scopes -> Scopes] :
            t[g] = top[x] /\ \A y \in Scopes \ {g} : t[y] = top[y]
    <2>1. [top EXCEPT ![g] = top[x]] \in [Scopes -> Scopes]
      BY <1>1, <1>2
    <2>2. [top EXCEPT ![g] = top[x]][g] = top[x]
          /\ \A y \in Scopes \ {g} : [top EXCEPT ![g] = top[x]][y] = top[y]
      BY <1>2
    <2> QED
      BY <2>1, <2>2
  <1>13. Tree'
    <2>1. \A f, h \in Temps : h < f /\ Used(f)' => Used(h)'
      <3>1. \A h \in Temps : h \in Frames
        BY FramesAre
      <3> QED
        BY <1>2, <1>5, <1>6, <3>1 DEF Inv, Tree
    <2>2. \A f \in Frames : ~Used(f)' => node'[f] = NoNode /\ win'[f] = NoWindow /\ loop'[f] = Off
      <3>1. ASSUME NEW f \in Frames, ~Used(f)'
            PROVE  f \in Frames \ {g} /\ f # x /\ f # l /\ f \in Scopes /\ ~Used(f)
        BY <1>1, <1>5, <1>6, <3>1, FramesAre DEF Inv, Tree, Runs, Alive, Off
      <3> QED
        BY <1>5, <1>7, <1>8, <3>1 DEF Inv, Tree
    <2>3. \A f \in Up' :
          /\ node'[f].kind \in {"serial", "concurrent"} /\ node'[f].call # None
          /\ node'[f].caller = Main \/ node'[node'[f].caller].status # "free"
          /\ node'[f].caller \in Temps => node'[f].caller < f
          /\ node'[f].parent = node'[f].caller \/ (node'[f].parent = Main /\ node'[f].caller \in Paused)
      <3>1. ASSUME NEW f \in Up
            PROVE /\ node'[f].kind \in {"serial", "concurrent"} /\ node'[f].call # None
                  /\ node'[f].caller = Main \/ (node'[f].caller \in Frames \ {g} /\ Used(node'[f].caller))
                  /\ node'[f].caller \in Temps => node'[f].caller < f
                  /\ node'[f].parent = node'[f].caller \/ (node'[f].parent = Main /\ node'[f].caller \in Paused)
        <4>1. node[f].caller \in Scopes \ {g} /\ f \in Frames \ {g}
          BY <1>3, <1>6, UpwardsIs
        <4>2. /\ node[f].kind \in {"serial", "concurrent"} /\ node[f].call # None
              /\ node[f].caller = Main \/ Used(node[f].caller)
              /\ node[f].caller \in Temps => node[f].caller < f
              /\ node[f].parent = node[f].caller \/ (node[f].parent = Main /\ node[f].caller \in Paused)
          BY DEF Inv, Tree
        <4>3. node[f].caller = Main \/ node[f].caller \in Frames \ {g}
          BY <4>1, FramesAre
        <4> QED
          BY <1>5, <4>1, <4>2, <4>3
      <3>2. x = Main \/ (x \in Frames \ {g} /\ Used(x))
        BY <1>1, <1>2, FramesAre
      <3>3. x \in Temps => x < g
        BY <1>1, <1>3, <3>2, FramesAre DEF Up
      <3>4. \A h \in Frames \ {g} : Used(h) => node'[h].status # "free"
        BY <1>5 DEF Used
      <3>5. \A f \in Up : /\ node'[f].kind \in {"serial", "concurrent"} /\ node'[f].call # None
                          /\ node'[f].caller = Main \/ node'[node'[f].caller].status # "free"
                          /\ node'[f].caller \in Temps => node'[f].caller < f
                          /\ node'[f].parent = node'[f].caller \/ (node'[f].parent = Main /\ node'[f].caller \in Paused)
        BY <3>1, <3>4
      <3>6. x = Main \/ node'[x].status # "free"
        BY <3>2, <3>4
      <3> QED
        BY <1>1, <1>4, <1>5, <1>6, <3>3, <3>5, <3>6
    <2>4. \A q \in Paused : Used(q)' =>
          /\ node'[q].kind = "previous" /\ node'[q].call = None /\ node'[q].parallel
          /\ node'[q].caller = Main /\ node'[q].parent = Main
      <3>1. \A q \in Paused : q \in Frames \ {g}
        BY <1>2, FramesAre
      <3> QED
        BY <1>5, <3>1 DEF Inv, Tree
    <2>5. \A f \in Up' :
          /\ node'[f].caller = Main \/ node'[node'[f].caller].status # "free"
          /\ node'[f].caller \in Temps => node'[f].caller < f
      BY <2>3
    <2>6. \A f \in Up' :
          /\ node'[f].kind \in {"serial", "concurrent"} /\ node'[f].call # None
          /\ node'[f].parent = node'[f].caller \/ (node'[f].parent = Main /\ node'[f].caller \in Paused)
      BY <2>3
    <2>7. \A q \in Paused : Used(q)' => node'[q].parallel
      BY <2>4
    <2> QED
      BY <2>1, <2>2, <2>4, <2>5, <2>6, <2>7 DEF Tree, Used
  <1>14. Numbered'
    <2>1. PICK n \in Nat :
             /\ \A q \in Paused : Used(q) <=> q <= MaxFrames + n
             /\ n <= sent + crashes
             /\ pending /\ win[Main].prog # "none" /\ loop[Main].pc # "save" => n < sent + crashes
      BY DEF Inv, Numbered
    <2>2. \A q \in Paused : q \in Frames \ {g}
      BY <1>2, FramesAre
    <2>3. win'[Main].prog = win[Main].prog
      BY <1>2, <1>7, FramesAre
    <2> QED
      BY <1>5, <1>9, <2>1, <2>2, <2>3 DEF Numbered, Saving
  <1>15. Windows'
    <2>1. ASSUME NEW y \in Scopes
          PROVE
          /\ ~win'[y].there => win'[y] = NoWindow
          /\ win'[y].prog = "call" <=> win'[y].call # None
          /\ win'[y].call <= called' /\ \A d \in win'[y].inflight : d <= called'
          /\ win'[y].resumable # None =>
                /\ y \in Tops /\ win'[y].resumable \in Paused /\ node'[win'[y].resumable].status # "free"
                /\ y \in Paused => win'[y].resumable < y
      <3>1. CASE y = g
        <4>1. None <= called
          BY DEF Inv, TypeOK, None
        <4> QED
          BY <1>7, <1>9, <3>1, <4>1
      <3>2. CASE y # g
        <4>1. \A q \in Paused : Used(q)' <=> Used(q)
          BY <1>2, <1>5, FramesAre
        <4>2. ~win'[y].there => y # x /\ win'[y] = NoWindow
          BY <1>1, <1>7, <3>2 DEF Inv, Windows
        <4>3. /\ win'[y].prog = "call" <=> win'[y].call # None
              /\ win'[y].call <= called /\ \A d \in win'[y].inflight : d <= called
          BY <1>7, <3>2 DEF Inv, Windows
        <4>4. win[y].resumable # None =>
                /\ y \in Tops /\ win[y].resumable \in Paused /\ Used(win[y].resumable)
                /\ y \in Paused => win[y].resumable < y
          BY DEF Inv, Windows
        <4>5. win[y].resumable # None => win'[y].resumable \in Paused /\ node'[win'[y].resumable].status # "free"
          BY <1>7, <3>2, <4>1, <4>4 DEF Used
        <4>6. win'[y].resumable = win[y].resumable
          BY <1>7, <3>2
        <4> QED
          BY <1>9, <4>2, <4>3, <4>4, <4>5, <4>6
      <3> QED
        BY <3>1, <3>2
    <2>2. \A f \in Frames : Lives(f)' => win'[f].there
      BY <1>5, <1>7, FramesAre DEF Inv, Windows
    <2>3. \A q \in Paused : win'[q].there => Lives(q)'
      <3>1. \A q \in Paused : q \in Frames \ {g} /\ q \in Scopes \ {g}
        BY <1>2, FramesAre
      <3> QED
        BY <1>5, <1>7, <3>1 DEF Inv, Windows
    <2>4. win'[Main].there = win[Main].there /\ Main \in Scopes
      BY <1>2, <1>7, FramesAre
    <2>5. main' # "free" => win'[Main].there
      <3>1. main' = main \/ x = Main
        BY DEF Opens
      <3> QED
        BY <1>1, <2>4, <3>1 DEF Inv, Windows
    <2>6. loop'[Main].pc \notin {"off", "crashed"} => main' # "free"
      <3>1. loop'[Main].pc \notin {"off", "crashed"} => loop[Main].pc \notin {"off", "crashed"}
        BY <1>1, <1>2, <1>8, FramesAre
      <3>2. main' = main \/ main' = "suspended"
        BY DEF Opens
      <3> QED
        BY <3>1, <3>2 DEF Inv, Windows
    <2>7. \A y \in Scopes : win'[y].resumable # None => node'[win'[y].resumable].status # "free"
      BY <2>1
    <2> QED
      BY <2>1, <2>2, <2>3, <2>5, <2>6, <2>7 DEF Windows, Used
  <1>16. CallsAreOne'
    <2>1. CallOnce'
      <3>1. \A f \in Frames \ {g} : node'[f].call = node[f].call /\ node[f].call # c
        BY <1>4, <1>5
      <3>2. \A f, h \in Frames : f # h /\ node[f].call # None => node[f].call # node[h].call
        BY DEF Inv, CallsAreOne, CallOnce
      <3> QED
        BY <1>5, <3>1, <3>2 DEF CallOnce
    <2>2. \A f \in Frames : node'[f].call <= called
      BY <1>4, <1>5 DEF Inv, CallsAreOne
    <2>3. \A y, z \in Scopes : win'[y].call # None => win'[y].call \notin win'[z].inflight
      BY <1>7 DEF Inv, CallsAreOne
    <2>4. ASSUME NEW y \in Scopes, NEW f \in Up'
          PROVE  /\ node'[f].call \in win'[y].inflight => node'[f].kind = "concurrent"
                 /\ node'[f].call = win'[y].call => node'[f].kind = "serial"
      <3>1. CASE f \in Up
        <4>1. node'[f].call = node[f].call /\ node'[f].kind = node[f].kind /\ node[f].call # None
          BY <1>5, <1>6, <3>1, UpwardsIs
        <4> QED
          BY <1>7, <3>1, <4>1 DEF Inv, CallsAreOne
      <3>2. CASE f = g
        <4>1. y # g => (c \in win[y].inflight => kind = "concurrent") /\ (c = win[y].call => kind = "serial")
          BY <1>1, <1>4 DEF Inv, CallsAreOne
        <4> QED
          BY <1>4, <1>5, <1>7, <3>2, <4>1
      <3> QED
        BY <1>6, <2>4, <3>1, <3>2
    <2>5. ASSUME NEW m \in Scopes, loop'[m].pc = "spawn"
          PROVE  /\ loop'[m].call \in win'[loop'[m].at].inflight
                 /\ \A f \in Up' : node'[f].call # loop'[m].call
                 /\ \A k \in Scopes \ {m} : loop'[k].pc = "spawn" => loop'[k].call # loop'[m].call
                 /\ loop'[m].call \notin recorded
      <3>1. \A k \in Scopes : loop'[k].pc = "spawn" => k \notin {l, g} /\ loop'[k] = loop[k]
        <4>1. loop'[g].pc \in {"off", "check"}
          BY <1>1, <1>8 DEF Off
        <4> QED
          BY <1>8, <4>1
      <3>2. loop[m].at \in Scopes \ {g, x} /\ m # l /\ loop[m].pc = "spawn"
        BY <1>1, <1>3, <2>5, <3>1, AtIs DEF Runs, Alive
      <3>3. loop[m].call # c
        <4>1. CASE kind = "serial"
          BY <1>1, <1>4, <3>2, <4>1 DEF Inv, CallsAreOne
        <4>2. CASE kind = "concurrent"
          BY <1>4, <3>2, <4>2 DEF Inv, CallsAreOne
        <4> QED
          BY <1>1, <4>1, <4>2
      <3>4. \A f \in Up' : node'[f].call # loop[m].call
        BY <1>5, <1>6, <3>2, <3>3 DEF Inv, CallsAreOne
      <3> QED
        BY <1>7, <2>5, <3>1, <3>2, <3>4 DEF Inv, CallsAreOne
    <2>6. \A f \in Up' : Lives(f)' => node'[f].call \notin recorded
      BY <1>4, <1>5, <1>6 DEF Inv, CallsAreOne
    <2> QED
      BY <1>9, <2>1, <2>2, <2>3, <2>4, <2>5, <2>6 DEF Inv, CallsAreOne
  <1>17. /\ Runs(Main) /\ Main \in Scopes \ {g} /\ loop[Main].at # g
         /\ \A q \in Paused : q \in Scopes \ {g} /\ q \in Frames \ {g}
         /\ \A f \in Up : b[f] = base[f] /\ t[f] = top[f] /\ b[node[f].caller] = base[node[f].caller]
                          /\ t[node[f].caller] = top[node[f].caller] /\ node[f].caller \in Scopes \ {g}
         /\ b[x] = base[x] /\ t[x] = top[x] /\ b[g] = (IF kind = "serial" THEN l ELSE g) /\ t[g] = top[x]
         /\ \A q \in Tops : b[q] = base[q] /\ t[q] = top[q] /\ base[q] = q /\ top[q] = q
    <2>1. Runs(Main)
      <3>1. CASE l = Main
        BY <1>1, <3>1
      <3>2. CASE l # Main
        BY <1>1, <3>2, Quiet, FramesAre DEF Runs, Alive
      <3> QED
        BY <3>1, <3>2
    <2>2. Main \in Scopes \ {g} /\ loop[Main].at # g
      BY <1>2, <1>3, <2>1, FramesAre
    <2>3. \A q \in Paused : q \in Scopes \ {g} /\ q \in Frames \ {g}
      BY <1>2, FramesAre
    <2>4. \A f \in Up : f \in Scopes \ {g} /\ node[f].caller \in Scopes \ {g}
      BY <1>3, <1>6, UpwardsIs
    <2>5. \A q \in Tops : q \in Scopes \ {g} /\ base[q] = q /\ top[q] = q
      BY <2>2, <2>3 DEF Tops, Inv, Bases, Places
    <2> QED
      BY <1>1, <1>2, <1>11, <1>12, <2>1, <2>2, <2>3, <2>4, <2>5
  <1>18. Owners'
    <2>1. ASSUME NEW y \in Scopes, NEW f \in Up', node'[f].call \in Pends(win'[y])
          PROVE  node'[f].caller = y \/ (y = Main /\ node'[f].caller \in Paused /\ Saving)
      <3>1. y # g /\ node'[f].call \in Pends(win[y])
        BY <1>7, <2>1
      <3>2. CASE f \in Up
        <4>1. node'[f].call = node[f].call /\ node'[f].caller = node[f].caller
          BY <1>5, <1>6, <3>2
        <4> QED
          BY <3>1, <3>2, <4>1 DEF Inv, Owners
      <3>3. CASE f = g /\ y # x
        <4>1. c \in Pends(win[y]) /\ c \in Pends(win[x])
          BY <1>4, <1>5, <3>1, <3>3
        <4>2. CASE x \in Frames
          BY <1>5, <3>3, <4>1, <4>2 DEF Inv, Apart
        <4>3. CASE x = Main
          BY <1>1, <1>9, <3>3, <4>1, <4>3, FramesAre DEF Inv, Apart
        <4> QED
          BY <1>1, <4>2, <4>3, FramesAre
      <3> QED
        BY <1>5, <1>6, <2>1, <3>2, <3>3
    <2> QED
      BY <1>9, <2>1 DEF Owners, Pends
  <1>19. Apart'
    <2>1. ASSUME NEW z \in Frames, NEW y \in Scopes \ {z}, NEW d \in Pends(win'[z]), d \in Pends(win'[y])
          PROVE  y = Main /\ z \in Paused /\ Saving
      <3>1. z # g /\ y # g /\ z \in Scopes
        BY <1>7, <2>1, FramesAre
      <3>2. d \in Pends(win[z]) /\ d \in Pends(win[y])
        BY <1>7, <2>1, <3>1
      <3> QED
        BY <3>2 DEF Inv, Apart
    <2> QED
      BY <1>9, <2>1 DEF Apart, Pends
  <1>20. Waits'
    <2>0. (main' = main \/ main' = "suspended") /\ (kind = "serial" /\ x = Main => main' = "suspended")
      BY DEF Opens
    <2>1. ASSUME NEW f \in Serving
          PROVE  /\ win'[node'[f].caller].there /\ win'[node'[f].caller].call = node'[f].call
                 /\ node'[f].caller = Main => main' = "suspended"
                 /\ node'[f].caller \in Temps => node'[node'[f].caller].status = "suspended"
                 /\ node'[f].caller \in Paused => Live(node'[node'[f].caller])
      <3> DEFINE d == node[f].caller
      <3>1. f \in Up /\ f \in Frames \ {g} /\ d \in Scopes \ {g} /\ node'[f].caller = d /\ node'[f].call = node[f].call
        BY <1>5, <1>6, <1>17 DEF Serving
      <3>2. /\ win[d].there /\ win[d].call = node[f].call
            /\ d = Main => main = "suspended"
            /\ d \in Temps => node[d].status = "suspended"
            /\ d \in Paused => Lives(d)
        BY DEF Inv, Waits
      <3>3. d \in Temps => node'[d].status = "suspended"
        <4>1. ASSUME d \in Temps, d = x PROVE kind = "concurrent"
          <5>1. Running(x) /\ x # Main
            BY <1>1, <4>1, FramesAre DEF Opens
          <5> QED
            BY <3>2, <4>1, <5>1 DEF Running
        <4>2. d \in Temps => d \in Frames
          BY FramesAre
        <4> QED
          BY <1>1, <1>5, <3>1, <3>2, <4>1, <4>2
      <3>4. d \in Paused => Live(node'[d])
        BY <1>5, <1>17, <3>2 DEF Lives
      <3> HIDE DEF d
      <3> QED
        BY <1>7, <2>0, <3>1, <3>2, <3>3, <3>4
    <2>2. ASSUME kind = "serial"
          PROVE  /\ win'[x].there /\ win'[x].call = c
                 /\ x = Main => main' = "suspended"
                 /\ x \in Temps => node'[x].status = "suspended"
                 /\ x \in Paused => Live(node'[x])
      BY <1>1, <1>2, <1>4, <1>5, <1>7, <1>17, <2>0, <2>2, FramesAre DEF Lives
    <2> QED
      BY <1>5, <1>6, <2>1, <2>2 DEF Waits, Lives
  <1>21. Deads'
    <2>1. ASSUME NEW f \in Up', NEW y \in Scopes,
                 node'[f].kind = "serial", ~Lives(f)', node'[f].call \notin recorded,
                 win'[y].call = node'[f].call
          PROVE  y # Main /\ ~Lives(y)'
      <3>1. f \in Up /\ f \in Frames \ {g} /\ ~Lives(f) /\ node'[f].call = node[f].call /\ node[f].kind = "serial"
            /\ node[f].call # None
        BY <1>5, <1>6, <2>1, UpwardsIs
      <3>2. y # g /\ win[y].call = node[f].call
        BY <1>7, <2>1, <3>1
      <3>3. y # Main /\ ~Lives(y)
        BY <2>1, <3>1, <3>2 DEF Inv, Deads
      <3> QED
        BY <1>5, <3>2, <3>3, FramesAre
    <2> QED
      BY <1>9, <2>1 DEF Deads, Lives
  <1>22. Bases(b)'
    <2>1. b[Main] = Main /\ \A q \in Paused : b[q] = q
      BY <1>17 DEF Tops
    <2>2. \A f \in Up' : b[f] = IF node'[f].kind = "concurrent" THEN f ELSE b[node'[f].caller]
      <3>1. ASSUME NEW f \in Up
            PROVE  b[f] = IF node'[f].kind = "concurrent" THEN f ELSE b[node'[f].caller]
        <4>1. base[f] = IF node[f].kind = "concurrent" THEN f ELSE base[node[f].caller]
          BY DEF Inv, Bases
        <4> QED
          BY <1>5, <1>6, <1>17, <4>1
      <3>2. b[g] = IF node'[g].kind = "concurrent" THEN g ELSE b[node'[g].caller]
        BY <1>1, <1>5, <1>17
      <3> QED
        BY <1>6, <3>1, <3>2
    <2>3. ASSUME NEW m \in Scopes, Runs(m)'
          PROVE  b[loop'[m].at] = m /\ (loop'[m].at = Main \/ Live(node'[loop'[m].at]))
      <3>1. CASE m = g \/ (m = l /\ kind = "serial")
        BY <1>1, <1>2, <1>6, <1>8, <1>17, <2>3, <3>1 DEF Lives
      <3>2. CASE m # g /\ ~(m = l /\ kind = "serial")
        <4>1. Runs(m) /\ loop'[m].at = loop[m].at
          BY <1>1, <1>8, <2>3, <3>2
        <4>2. loop[m].at \in Scopes \ {g}
          BY <1>3, <4>1, AtIs
        <4>3. base[loop[m].at] = m /\ (loop[m].at = Main \/ Lives(loop[m].at))
          BY <4>1 DEF Inv, Bases
        <4>4. loop[m].at = Main \/ Live(node'[loop[m].at])
          BY <1>5, <4>2, <4>3, FramesAre DEF Lives
        <4> QED
          BY <1>11, <4>1, <4>2, <4>3, <4>4
      <3> QED
        BY <3>1, <3>2
    <2>4. b[loop'[Main].at] = Main
      <3>1. Runs(Main)'
        BY <1>8, <1>17
      <3> QED
        BY <1>17, <2>3, <3>1
    <2> QED
      BY <2>1, <2>2, <2>3, <2>4 DEF Bases, Lives
  <1>23. Loops(b)'
    <2>0. /\ \A m \in Scopes \ {g, l} : loop'[m] = loop[m]
          /\ \A m \in Scopes \ {g} : loop[m].kids \subseteq loop'[m].kids
          /\ \A m \in Scopes \ {g} : \A k \in loop'[m].kids :
                k \in loop[m].kids \/ (m = l /\ k = g /\ kind = "concurrent")
          /\ \A m \in Scopes \ {g} : loop[m].pc # "off" <=> loop'[m].pc # "off"
      BY <1>1, <1>8
    <2>1. ASSUME NEW k \in Temps, loop'[k].pc # "off"
          PROVE  /\ Used(k)' /\ node'[k].kind = "concurrent"
                 /\ \E m \in Scopes : k \in loop'[m].kids
                 /\ loop'[k].pc \in (Alive \ {"resuming", "resumed", "save"}) \cup {"ended"}
      <3>1. CASE k = g
        <4>1. kind = "concurrent"
          BY <1>1, <1>8, <2>1, <3>1 DEF Off
        <4> QED
          BY <1>5, <1>6, <1>8, <3>1, <4>1 DEF Alive
      <3>2. CASE k # g
        <4>1. k \in Scopes \ {g} /\ k \in Frames \ {g} /\ loop[k].pc # "off"
          BY <2>0, <2>1, <3>2, FramesAre
        <4>2. /\ Used(k) /\ node[k].kind = "concurrent"
              /\ loop[k].pc \in (Alive \ {"resuming", "resumed", "save"}) \cup {"ended"}
          BY <4>1 DEF Inv, Loops
        <4>3. PICK m \in Scopes : k \in loop[m].kids
          BY <4>1 DEF Inv, Loops
        <4>4. m # g
          BY <1>2, <4>3 DEF Off
        <4>5. k \in loop'[m].kids
          BY <2>0, <4>3, <4>4
        <4>6. loop'[k].pc \in (Alive \ {"resuming", "resumed", "save"}) \cup {"ended"}
          BY <1>8, <4>1, <4>2 DEF Alive
        <4> QED
          BY <1>5, <4>1, <4>2, <4>5, <4>6
      <3> QED
        BY <3>1, <3>2
    <2>2. ASSUME NEW m \in Scopes, NEW k \in loop'[m].kids
          PROVE  /\ k \in Up' /\ node'[k].kind = "concurrent" /\ loop'[k].pc # "off"
                 /\ b[node'[k].caller] = m /\ Runs(m)'
      <3>1. m # g
        BY <1>1, <1>2, <1>8 DEF Off
      <3>2. CASE k \in loop[m].kids
        <4>1. /\ k \in Up /\ node[k].kind = "concurrent" /\ loop[k].pc # "off"
              /\ base[node[k].caller] = m /\ Runs(m)
          BY <3>2 DEF Inv, Loops
        <4> QED
          BY <1>5, <1>6, <1>8, <1>17, <2>0, <3>1, <4>1
      <3>3. CASE m = l /\ k = g /\ kind = "concurrent"
        BY <1>1, <1>5, <1>6, <1>8, <1>17, <3>3
      <3> QED
        BY <2>0, <3>1, <3>2, <3>3
    <2>3. \A q \in Paused :
          loop'[q].pc \in (Alive \ {"save"}) \cup {"off", "paused", "answered", "failed"}
      BY <1>8, <1>17 DEF Inv, Loops, Alive
    <2>4. loop'[Main].pc \in Alive \cup {"off", "crashed", "answered", "failed", "cleanup"}
      BY <1>8, <1>17 DEF Inv, Loops, Alive
    <2> QED
      BY <2>1, <2>2, <2>3, <2>4 DEF Loops, Used, Alive
  <1>24. Leaves'
    <2>1. ASSUME NEW m \in Scopes, Runs(m)', NEW f \in Up', Lives(f)', node'[f].call = win'[loop'[m].at].call
          PROVE  m = Main /\ loop'[m].at = Main /\ loop'[m].pc \in {"check", "join", "save"} /\ pending'
      <3>1. node'[f].call # None
        BY <1>4, <1>5, <1>6, UpwardsIs
      <3>2. loop'[m].at # g
        BY <1>7, <2>1, <3>1
      <3>3. m # g /\ ~(m = l /\ kind = "serial") /\ Runs(m) /\ loop'[m].at = loop[m].at
        BY <1>1, <1>8, <2>1, <3>2
      <3>4. loop[m].at \in Scopes \ {g} /\ win'[loop[m].at].call = win[loop[m].at].call
        BY <1>7, <3>2, <3>3, AtIs
      <3>5. CASE f \in Up
        <4>1. Lives(f) /\ node[f].call = win[loop[m].at].call
          BY <1>5, <1>6, <2>1, <3>3, <3>4, <3>5
        <4>2. m = Main /\ loop[m].at = Main /\ loop[m].pc \in {"check", "join", "save"} /\ pending
          BY <3>3, <3>5, <4>1 DEF Inv, Leaves
        <4>3. l # Main
          BY <1>1, <4>2
        <4>4. loop[Main].pc # "resuming" /\ loop'[Main] = loop[Main]
          BY <1>8, <1>17, <4>2, <4>3
        <4>5. pending'
          BY <1>9, <4>2, <4>3, <4>4
        <4> QED
          BY <4>2, <4>4, <4>5
      <3>6. CASE f = g
        <4>1. c = win[loop[m].at].call /\ c \in Pends(win[loop[m].at])
          BY <1>4, <1>5, <2>1, <3>3, <3>4, <3>6 DEF Pends
        <4>2. kind = "concurrent" => c \in win[x].inflight
          BY <1>4
        <4>3. loop[m].at # x
          <5>1. kind = "serial" => m = l \/ loop[m].at # x
            BY <1>1, <3>3
          <5>2. kind = "concurrent" => loop[m].at # x
            BY <1>1, <1>4, <3>4, <4>1, <4>2 DEF Inv, CallsAreOne
          <5> QED
            BY <1>1, <3>3, <5>1, <5>2
        <4>4. CASE x = Main
          <5> DEFINE d == loop[m].at
          <5>1. d \in Frames /\ x \in Scopes \ {d} /\ c \in Pends(win[d]) /\ c \in Pends(win[x])
            BY <1>1, <1>4, <3>4, <4>1, <4>3, <4>4, FramesAre
          <5> HIDE DEF d
          <5>2. Saving
            BY <5>1 DEF Inv, Apart
          <5> QED
            BY <1>1, <1>9, <4>4, <5>2
        <4>5. CASE x \in Frames
          <5>1. x \in Paused /\ Saving
            BY <1>4, <3>4, <4>1, <4>3, <4>5 DEF Inv, Apart
          <5>2. base[x] = x
            BY <1>17, <5>1 DEF Tops
          <5>3. loop[x].pc # "off"
            BY <1>1, <5>2 DEF Runs, Alive
          <5>4. loop[Main].pc = "resuming"
            BY <5>1, <5>3 DEF Inv, Hearing
          <5> QED
            BY <5>1, <5>4 DEF Saving
        <4> QED
          BY <1>1, <4>4, <4>5, FramesAre
      <3> QED
        BY <1>6, <2>1, <3>5, <3>6
    <2> QED
      BY <2>1 DEF Leaves
  <1>25. Stacks(b)'
    <2>1. ASSUME NEW y \in Frames, node'[y].status = "suspended"
          PROVE  \E f \in Serving' : node'[f].caller = y
      <3>1. y # g
        BY <1>5, <2>1
      <3>2. CASE y = x /\ kind = "serial"
        BY <1>5, <1>6, <3>2
      <3>3. CASE ~(y = x /\ kind = "serial")
        <4>1. node[y].status = "suspended"
          BY <1>1, <1>5, <2>1, <3>1, <3>3
        <4>2. PICK f \in Serving : node[f].caller = y
          BY <4>1 DEF Inv, Stacks
        <4> QED
          BY <1>5, <1>6, <4>2 DEF Serving
      <3> QED
        BY <3>2, <3>3
    <2>2. ASSUME main' = "suspended" PROVE \E f \in Serving' : node'[f].caller = Main
      <3>1. CASE kind = "serial" /\ x = Main
        BY <1>5, <1>6, <3>1
      <3>2. CASE ~(kind = "serial" /\ x = Main)
        <4>1. main = "suspended"
          BY <2>2, <3>2 DEF Opens
        <4>2. PICK f \in Serving : node[f].caller = Main
          BY <4>1 DEF Inv, Stacks
        <4> QED
          BY <1>5, <1>6, <4>2 DEF Serving
      <3> QED
        BY <3>1, <3>2
    <2>3. \A f \in Up' : node'[f].kind = "concurrent" => node'[f].parallel
      BY <1>5, <1>6 DEF Inv, Stacks
    <2>4. ASSUME NEW f \in Serving' PROVE node'[f].parallel <=> b[f] # Main
      <3>1. CASE f \in Serving
        <4>1. f \in Up /\ (node[f].parallel <=> base[f] # Main)
          BY <3>1 DEF Inv, Stacks, Serving
        <4>2. node'[f].parallel = node[f].parallel /\ b[f] = base[f]
          BY <1>5, <1>6, <1>17, <4>1
        <4> QED
          BY <4>1, <4>2
      <3>2. CASE f = g /\ kind = "serial"
        <4>1. node'[g].parallel <=> x # Main /\ node[x].parallel
          BY <1>5, <3>2
        <4>2. b[g] = base[x]
          BY <1>1, <1>17, <3>2
        <4>3. CASE x = Main
          BY <1>17, <3>2, <4>1, <4>2, <4>3 DEF Tops
        <4>4. CASE x \in Paused
          <5>1. node[x].parallel /\ base[x] = x /\ x # Main
            BY <1>1, <1>17, <4>4, FramesAre DEF Inv, Tree, Tops
          <5> QED
            BY <3>2, <4>1, <4>2, <5>1
        <4>5. CASE x \in Up
          <5>1. x # Main /\ Lives(x)
            BY <1>1, <1>6, <4>5, FramesAre
          <5>2. CASE node[x].kind = "concurrent"
            <6>1. node[x].parallel
              BY <4>5, <5>2 DEF Inv, Stacks
            <6>2. base[x] = x
              BY <4>5, <5>2 DEF Inv, Bases
            <6> QED
              BY <3>2, <4>1, <4>2, <5>1, <6>1, <6>2
          <5>3. CASE node[x].kind = "serial"
            <6>1. node[x].parallel <=> base[x] # Main
              BY <4>5, <5>1, <5>3 DEF Inv, Stacks, Serving
            <6> QED
              BY <3>2, <4>1, <4>2, <5>1, <6>1
          <5> QED
            BY <4>5, <5>2, <5>3, UpwardsIs
        <4> QED
          BY <1>1, <4>3, <4>4, <4>5, FramesAre DEF Up
      <3> QED
        BY <1>6, <2>4, <3>1, <3>2
    <2> QED
      BY <2>1, <2>2, <2>3, <2>4 DEF Stacks
  <1>26. /\ top[x] \in Tops /\ top[l] = top[x] /\ Runs(top[x]) /\ top[x] # g
    <2>1. Runs(top[l])
      BY <1>1 DEF Inv, Places
    <2>2. top[l] = top[x] /\ top[x] \in Tops
      <3>1. CASE x = Main
        BY <1>1, <1>17, <3>1 DEF Tops
      <3>2. CASE x \in Frames
        BY <1>1, <3>2 DEF Inv, Places
      <3> QED
        BY <1>1, <3>1, <3>2, FramesAre
    <2> QED
      BY <1>2, <2>1, <2>2
  <1>27. Places(b, t)'
    <2>1. t[Main] = Main /\ \A q \in Paused : t[q] = q
      BY <1>17 DEF Tops
    <2>2. \A f \in Up' : t[f] = t[node'[f].caller]
      <3>1. \A f \in Up : t[f] = t[node'[f].caller]
        BY <1>5, <1>6, <1>17 DEF Inv, Places
      <3> QED
        BY <1>5, <1>6, <1>17, <3>1
    <2>3. ASSUME NEW f \in Frames, Used(f)' PROVE t[b[f]] = t[f] /\ t[f] \in Tops
      <3>1. CASE f = g
        <4>1. t[l] = top[l]
          BY <1>2, <1>12
        <4> QED
          BY <1>1, <1>17, <1>26, <3>1, <4>1
      <3>2. CASE f # g
        <4>1. top[base[f]] = top[f] /\ top[f] \in Tops /\ f \in Scopes \ {g}
          BY <1>5, <2>3, <3>2, FramesAre DEF Inv, Places
        <4>2. base[f] # g /\ base[f] \in Scopes
          <5>1. f \in Up \/ f \in Tops
            BY <1>5, <2>3, <3>2, FramesAre DEF Up, Tops
          <5>2. f \in Up => base[f] \in Tops \/ base[f] \in Up
            BY BaseIs
          <5>3. f \in Tops => base[f] = f
            BY <1>17
          <5>4. g \notin Up /\ g \notin Tops
            BY <1>2
          <5> QED
            BY <3>2, <4>1, <5>1, <5>2, <5>3, <5>4
        <4> QED
          BY <1>11, <1>12, <4>1, <4>2
      <3> QED
        BY <3>1, <3>2
    <2>4. ASSUME NEW f \in Frames, node'[f].status = "paused"
          PROVE  t[f] \in Paused /\ loop'[t[f]].pc \notin Alive
      <3>1. f # g /\ node[f].status = "paused" /\ f \in Scopes \ {g}
        <4>1. f # g /\ f \in Scopes \ {g}
          BY <1>5, <2>4, FramesAre
        <4>2. f = x => kind = "concurrent"
          BY <1>1, <1>5, <2>4
        <4> QED
          BY <1>5, <2>4, <4>1, <4>2
      <3>2. top[f] \in Paused /\ ~Runs(top[f])
        BY <3>1 DEF Inv, Places
      <3>3. ~Runs(top[f])'
        BY <1>8, <1>17, <3>2
      <3> QED
        BY <1>12, <3>1, <3>2, <3>3 DEF Runs
    <2>5. ASSUME NEW m \in Scopes, Runs(m)'
          PROVE  loop'[t[m]].pc \in Alive
      <3>1. CASE m = g
        <4>1. Runs(top[x])'
          BY <1>8, <1>17, <1>26 DEF Tops
        <4> QED
          BY <1>17, <3>1, <4>1 DEF Runs
      <3>2. CASE m # g
        <4>1. Runs(m)
          BY <1>8, <2>5, <3>2
        <4>2. Runs(top[m]) /\ top[m] \in Scopes \ {g}
          BY <1>2, <4>1 DEF Inv, Places, Runs, Alive, Off
        <4>3. Runs(top[m])'
          BY <1>8, <4>2
        <4> QED
          BY <1>12, <3>2, <4>3 DEF Runs
      <3> QED
        BY <3>1, <3>2
    <2>6. ASSUME NEW m \in Scopes, Runs(m)', NEW y, y = loop'[m].at
          PROVE  Running(y)' \/ Pausing(m)'
      <3>1. CASE y = g
        BY <1>2, <1>5, <3>1 DEF Running
      <3>2. CASE m = l /\ kind = "concurrent"
        <4>1. y = x /\ Running(x)
          BY <1>8, <2>6, <3>2 DEF Opens
        <4> QED
          BY <1>1, <1>2, <1>10, <3>2, <4>1
      <3>3. CASE y # g /\ ~(m = l /\ kind = "concurrent")
        <4>1. m # l /\ m # g /\ loop'[m] = loop[m] /\ Runs(m)
          BY <1>1, <1>8, <2>6, <3>3
        <4>2. y \in Scopes \ {g} /\ y = loop[m].at /\ y # x
          BY <1>1, <2>6, <3>3, <4>1, AtIs
        <4>3. CASE Running(y)
          BY <1>10, <4>2, <4>3
        <4>4. CASE Pausing(m)
          <5>1. m = Main /\ loop[m].at = Main /\ loop[m].pc \in {"check", "join"} /\ pending /\ win[Main].prog # "none"
            BY <4>4 DEF Pausing
          <5>2. pending'
            BY <1>9, <4>1, <5>1
          <5>3. win'[Main].prog # "none"
            BY <1>7, <1>17, <5>1
          <5> QED
            BY <4>1, <5>1, <5>2, <5>3 DEF Pausing
        <4> QED
          BY <4>1, <4>2, <4>3, <4>4 DEF Inv, Places
      <3> QED
        BY <3>1, <3>2, <3>3
    <2>7. \A m \in Scopes : Runs(m)' => (loop'[t[m]].pc \in Alive /\
             (Pausing(m)' \/ (IF loop'[m].at = Main THEN main' = "running" ELSE node'[loop'[m].at].status = "running")))
      BY <2>5, <2>6 DEF Running
    <2>8. \A m \in Scopes : Runs(m)' => (loop'[t[m]].pc \in Alive /\
             (Pausing(m) \/ Running(loop[m].at))')
      BY <2>7 DEF Running
    <2> QED
      BY <2>1, <2>2, <2>3, <2>4, <2>8 DEF Places, Runs
  <1>28. Hearing'
    <2>0. /\ \A m \in Tops : m \in Scopes \ {g}
          /\ \A m \in Scopes \ {l, g} : loop'[m] = loop[m]
          /\ loop'[l].pc = "check" /\ loop[l].pc \in {"step", "enter", "spawn"}
          /\ loop'[g].pc \in {"off", "check"} /\ loop[g].pc = "off"
          /\ \A m \in Tops : loop[m].pc \in {"off", "crashed"} <=> loop'[m].pc \in {"off", "crashed"}
          /\ \A y \in Scopes \ {g} : win'[y].prog = win[y].prog /\ win'[y].resumable = win[y].resumable
          /\ \A m \in Scopes \ {g} : loop[m].pc # "off" => loop'[m].pc # "off"
      <3>1. \A m \in Tops : m \in Scopes \ {g}
        BY <1>17 DEF Tops
      <3>2. loop'[g].pc \in {"off", "check"} /\ loop[g].pc = "off"
        BY <1>1, <1>2, <1>8 DEF Off
      <3> QED
        BY <1>1, <1>7, <1>8, <3>1, <3>2
    <2>1. ASSUME NEW m \in Tops, NEW k \in Tops,
                 loop'[m].pc \notin {"off", "crashed"}, loop'[k].pc \notin {"off", "crashed"},
                 Ord(k) < Ord(m)
          PROVE  loop'[m].pc = "resuming" /\ k <= win'[loop'[m].at].resumable
      <3>1. loop[m].pc = "resuming" /\ k <= win[loop[m].at].resumable
        BY <2>0, <2>1 DEF Inv, Hearing
      <3>2. m \in Scopes \ {l, g} /\ loop[m].at \in Scopes \ {g}
        BY <2>0, <3>1 DEF Inv, Hearing
      <3> QED
        BY <2>0, <3>1, <3>2
    <2>2. ASSUME NEW m \in Scopes, loop'[m].pc \in {"resuming", "resumed"}
          PROVE  m \in Tops /\ loop'[m].at \in Tops /\ win'[loop'[m].at].prog = "resume"
      <3>1. m \in Scopes \ {l, g}
        BY <2>0, <2>2
      <3>2. m \in Tops /\ loop[m].at \in Tops /\ win[loop[m].at].prog = "resume"
        BY <2>0, <2>2, <3>1 DEF Inv, Hearing
      <3> QED
        BY <2>0, <3>1, <3>2
    <2>3. ASSUME NEW m \in Scopes, loop'[m].pc = "resuming", NEW y, y = loop'[m].at
          PROVE  win'[y].resumable # None /\ loop'[win'[y].resumable].pc # "off"
      <3>1. m \in Scopes \ {l, g} /\ loop[m].pc = "resuming" /\ y = loop[m].at /\ y \in Tops /\ y \in Scopes \ {g}
        BY <2>0, <2>3 DEF Inv, Hearing
      <3>2. win[y].resumable # None /\ loop[win[y].resumable].pc # "off"
        BY <3>1 DEF Inv, Hearing
      <3>3. win[y].resumable \in Paused /\ win[y].resumable \in Scopes \ {g}
        BY <1>17, <3>1, <3>2 DEF Inv, Windows
      <3> QED
        BY <2>0, <3>1, <3>2, <3>3
    <2>4. ASSUME l # Main PROVE loop'[Main] = loop[Main]
      BY <1>17, <2>0, <2>4
    <2>5. ASSUME NEW q \in Paused, loop'[q].pc # "off" PROVE loop'[Main].pc = "resuming"
      <3>1. loop[q].pc # "off"
        BY <1>17, <2>0, <2>5
      <3>2. loop[Main].pc = "resuming"
        BY <3>1 DEF Inv, Hearing
      <3> QED
        BY <2>0, <2>4, <3>2
    <2>6. ASSUME NEW m \in Scopes, loop'[m].pc = "join"
          PROVE  loop'[m].at # Main \/ win'[Main].prog # "none"
      <3>1. m \in Scopes \ {l, g} /\ loop[m].pc = "join"
        BY <2>0, <2>6
      <3>2. loop[m].at # Main \/ win[Main].prog # "none"
        BY <3>1 DEF Inv, Hearing, InProgram
      <3> QED
        BY <1>17, <2>0, <3>1, <3>2
    <2>7. ASSUME loop'[Main].pc \in {"join", "save"} PROVE pending' /\ win'[Main].prog # "none"
      <3>1. l # Main /\ loop'[Main] = loop[Main]
        BY <2>0, <2>4, <2>7
      <3>2. pending /\ win[Main].prog # "none"
        BY <2>7, <3>1 DEF Inv, Hearing
      <3> QED
        BY <1>9, <1>17, <2>0, <2>7, <3>1, <3>2
    <2>8. ASSUME loop'[Main].pc = "save"
          PROVE  /\ loop'[Main].at = Main /\ main' = "running" /\ loop'[Main].kids = {}
                 /\ \E q \in Paused : Used(q)'
      <3>1. l # Main /\ loop'[Main] = loop[Main]
        BY <2>0, <2>4, <2>8
      <3>2. main' = main
        BY <1>1, <3>1 DEF Opens
      <3>3. loop[Main].at = Main /\ main = "running" /\ loop[Main].kids = {} /\ \E q \in Paused : Used(q)
        BY <2>8, <3>1 DEF Inv, Hearing
      <3> QED
        BY <1>5, <1>17, <3>1, <3>2, <3>3
    <2>9. \A m \in Scopes : loop'[m].pc = "resuming" =>
             win'[loop'[m].at].resumable # None /\ loop'[win'[loop'[m].at].resumable].pc # "off"
      BY <2>3
    <2>10. \A m \in Scopes : loop'[m].pc = "join" => InProgram(loop[m].at)'
      BY <2>6 DEF InProgram
    <2>11. \A m, k \in Tops :
              /\ loop'[m].pc \notin {"off", "crashed"} /\ loop'[k].pc \notin {"off", "crashed"}
              /\ Ord(k) < Ord(m)
              => loop'[m].pc = "resuming" /\ k <= win'[loop'[m].at].resumable
      BY <2>1
    <2> QED
      BY <2>2, <2>5, <2>7, <2>8, <2>9, <2>10, <2>11 DEF Hearing
  <1>30. Answers'
    <2>1. ASSUME NEW q \in Paused, loop'[q].pc = "answered", loop'[q].at = q PROVE win'[q].prog = "none"
      <3>1. q \in Scopes \ {g} /\ q # l /\ base[q] = q
        BY <1>8, <1>17, <2>1 DEF Tops
      <3>2. loop[q].pc = "answered" /\ loop[q].at = q
        BY <1>8, <2>1, <3>1
      <3> QED
        BY <1>7, <3>1, <3>2 DEF Inv, Answers
    <2> QED
      BY <2>1 DEF Answers
  <1>29. Inv(b, t)'
    BY <1>30, <1>9, <1>13, <1>14, <1>15, <1>16, <1>18, <1>19, <1>20, <1>21, <1>22, <1>23, <1>24, <1>25, <1>27, <1>28 DEF Inv
  <1> QED
    BY <1>29

\* What a running loop sees, and whether it hears the user.
LEMMA SeesIs ==
    ASSUME NEW base \in [Scopes -> Scopes], NEW top \in [Scopes -> Scopes],
           Inv(base, top), TypeOK', NEW l \in Scopes, Runs(l), NEW x, x = loop[l].at
    PROVE  /\ x \in Scopes /\ win[x].there /\ win[x] \in Window /\ W(l) \in Window
           /\ W(l).there /\ W(l).resumable = win[x].resumable
           /\ W(l).inflight = win[x].inflight \ recorded
           /\ IF win[x].prog = "call" /\ win[x].call \in recorded
              THEN W(l).prog = "ready" /\ W(l).call = None
              ELSE W(l).prog = win[x].prog /\ W(l).call = win[x].call
           /\ W(l) = Recover(win[x])
           /\ Hears(l) <=> l \in Tops
           /\ Take(l) => pending' = pending \/ (pending' = FALSE /\ l \in Tops)
           /\ pending \in BOOLEAN /\ pending' \in BOOLEAN
           /\ loop[l] \in Loop /\ loop \in [Scopes -> Loop]
  <1>1. TypeOK /\ Tree /\ Windows
    BY DEF Inv
  <1>2. x \in Scopes /\ win[x].there /\ win[x] \in Window /\ W(l) = Recover(win[x])
    BY AtIs, <1>1 DEF TypeOK, W, Windows
  <1>3. /\ W(l) \in Window /\ W(l).there = win[x].there /\ W(l).resumable = win[x].resumable
        /\ W(l).inflight = win[x].inflight \ recorded
        /\ IF win[x].prog = "call" /\ win[x].call \in recorded
           THEN W(l).prog = "ready" /\ W(l).call = None
           ELSE W(l).prog = win[x].prog /\ W(l).call = win[x].call
    BY <1>2, RecoverIs, Zenon
  <1>4. loop[l] \in Loop /\ loop \in [Scopes -> Loop] /\ pending \in BOOLEAN /\ pending' \in BOOLEAN
    BY <1>1 DEF TypeOK
  <1>5. Hears(l) <=> l \in Tops
    <2>1. Used(l) \/ l = Main
      BY <1>1, FramesAre DEF Tree, Off, Runs, Alive
    <2> QED
      BY <1>1, <2>1, HearsIs
  <1>6. Take(l) => pending' = pending \/ (pending' = FALSE /\ l \in Tops)
    BY <1>4, <1>5 DEF Take
  <1> QED
    BY <1>2, <1>3, <1>4, <1>5, <1>6

LEMMA OpensAre ==
    ASSUME NEW base \in [Scopes -> Scopes], NEW top \in [Scopes -> Scopes],
           Inv(base, top), TypeOK', NEW l \in Scopes,
           \/ Enter(l) /\ Running(loop[l].at) /\ Unused(Temps) # {}
           \/ Spawn(l)
    PROVE  \E b, t \in [Scopes -> Scopes] : Inv(b, t)'
  <1> DEFINE g == First(Unused(Temps))
             x == loop[l].at
  <1>1. Runs(l) /\ Running(x) /\ Unused(Temps) # {}
    BY DEF Enter, Spawn, Pending, Runs, Alive
  <1>2. g \in Temps /\ ~Used(g) /\ \A h \in Temps : h < g => Used(h)
    <2>1. Unused(Temps) \subseteq Frames
      BY FramesAre DEF Unused
    <2>2. g \in Unused(Temps) /\ \A h \in Unused(Temps) : g <= h
      BY <1>1, <2>1, FirstIs
    <2> HIDE DEF g
    <2>3. g \in Temps /\ ~Used(g)
      BY <2>2 DEF Unused, Used
    <2>4. ASSUME NEW h \in Temps, h < g PROVE Used(h)
      <3>1. h \in Nat /\ g \in Nat /\ ~(g <= h)
        BY <2>3, <2>4, FramesAre
      <3> QED
        BY <2>2, <3>1 DEF Unused, Used
    <2> QED
      BY <2>3, <2>4
  <1>3. g \in Scopes /\ g # x /\ g # l /\ x \in Scopes
    <2> HIDE DEF g
    <2>1. g \in Frames /\ loop[g] = Off
      BY <1>2, FramesAre DEF Inv, Tree
    <2>2. x \in Scopes /\ (x \in Frames => Used(x))
      BY <1>1, AtIs
    <2> QED
      BY <1>1, <1>2, <2>1, <2>2, FramesAre DEF Runs, Alive, Off
  <1>4. /\ win[x].there /\ win[x] \in Window /\ W(l) \in Window
        /\ W(l).there /\ W(l).resumable = win[x].resumable
        /\ W(l).inflight = win[x].inflight \ recorded
        /\ IF win[x].prog = "call" /\ win[x].call \in recorded
           THEN W(l).prog = "ready" /\ W(l).call = None
           ELSE W(l).prog = win[x].prog /\ W(l).call = win[x].call
        /\ Take(l) => pending' = pending \/ (pending' = FALSE /\ l \in Tops)
        /\ loop[l] \in Loop /\ loop \in [Scopes -> Loop]
    <2> HIDE DEF x
    <2>1. x = loop[l].at
      BY DEF x
    <2> QED
      BY <1>1, <2>1, SeesIs
  <1>5. win \in [Scopes -> Window] /\ node \in [Frames -> Node]
    BY DEF Inv, TypeOK
  <1>7. \A prog : LET w == [Fresh EXCEPT !.prog = prog] IN
           w.there /\ w.prog = prog /\ w.call = None /\ w.inflight = {} /\ w.resumable = None
    BY DEF Fresh
  <1>8. \E kind, c : Opens(l, g, x, kind, c)
    <2>1. CASE Enter(l) /\ Running(loop[l].at) /\ Unused(Temps) # {}
      <3> HIDE DEF x, g
      <3>1. loop[l].pc \in {"step", "enter"} /\ W(l).prog = "call"
        BY <2>1 DEF Enter, Pending
      <3>2. win[x].prog = "call" /\ W(l).call = win[x].call /\ win[x].call \notin recorded
        BY <1>4, <3>1
      <3>3. /\ node' = [f \in Frames |->
                          IF f = g THEN NewNode("serial", x, W(l).call)
                          ELSE IF f = x THEN [node[f] EXCEPT !.status = "suspended"]
                          ELSE node[f]]
            /\ main' = IF x = Main THEN "suspended" ELSE main
            /\ loop' = [loop EXCEPT ![l].at = g, ![l].pc = "check"]
            /\ IF loop[l].pc = "step" THEN Take(l) ELSE UNCHANGED pending
            /\ UNCHANGED <<recorded, called, sent, crashes, torn>>
        BY <1>1, <2>1 DEF Enter, tally, x, g
      <3>4. PICK prog \in {"none", "ready"} :
               win' = [win EXCEPT ![x] = W(l), ![g] = [Fresh EXCEPT !.prog = prog]]
        BY <1>1, <2>1 DEF Enter, x, g
      <3> DEFINE new == [Fresh EXCEPT !.prog = prog]
      <3>5. new.there /\ new.prog = prog /\ new.call = None /\ new.inflight = {} /\ new.resumable = None
        BY <1>7
      <3>6. win' = [win EXCEPT ![x] = W(l), ![g] = new]
        BY <3>4
      <3> HIDE DEF new
      <3>7. win'[x] = W(l) /\ win'[g] = new /\ \A y \in Scopes \ {g, x} : win'[y] = win[y]
        BY <1>3, <1>5, <3>6
      <3>8. Opens(l, g, x, "serial", win[x].call)
        <4>1. pending' = pending \/ (pending' = FALSE /\ l \in Tops)
          BY <1>4, <3>3
        <4>2. node' = [f \in Frames |->
                 IF f = g THEN NewNode("serial", x, win[x].call)
                 ELSE IF "serial" = "serial" /\ f = x THEN [node[f] EXCEPT !.status = "suspended"]
                 ELSE node[f]]
          BY <3>2, <3>3
        <4>3. /\ win'[g].there /\ win'[g].prog \in {"none", "ready"} /\ win'[g].call = None
              /\ win'[g].inflight = {} /\ win'[g].resumable = None
              /\ win'[x].there /\ win'[x].prog = win[x].prog /\ win'[x].call = win[x].call
              /\ win'[x].inflight \subseteq win[x].inflight /\ win'[x].resumable = win[x].resumable
              /\ \A y \in Scopes \ {g, x} : win'[y] = win[y]
          BY <1>4, <3>1, <3>2, <3>4, <3>5, <3>7
        <4>4. x = loop[l].at
          BY DEF x
        <4> QED
          BY <1>1, <1>2, <3>1, <3>2, <3>3, <4>1, <4>2, <4>3, <4>4 DEF Opens
      <3> QED
        BY <3>8
    <2>2. CASE Spawn(l)
      <3> HIDE DEF x, g
      <3>0. x = loop[l].at
        BY DEF x
      <3>1. /\ loop[l].pc = "spawn"
            /\ node' = [node EXCEPT ![g] = NewNode("concurrent", x, loop[l].call)]
            /\ loop' = [loop EXCEPT ![l].pc = "check", ![l].call = None, ![l].kids = @ \cup {g},
                             ![g] = [Off EXCEPT !.pc = "check", !.at = g]]
            /\ main' = main /\ pending' = pending
            /\ UNCHANGED <<recorded, called, sent, crashes, torn>>
        BY <2>2 DEF Spawn, tally, x, g
      <3>2. PICK prog \in {"none", "ready"} : win' = [win EXCEPT ![g] = [Fresh EXCEPT !.prog = prog]]
        BY <2>2 DEF Spawn, Put, g
      <3> DEFINE new == [Fresh EXCEPT !.prog = prog]
      <3>3. new.there /\ new.prog = prog /\ new.call = None /\ new.inflight = {} /\ new.resumable = None
        BY <1>7
      <3>4. win' = [win EXCEPT ![g] = new]
        BY <3>2
      <3> HIDE DEF new
      <3>5. win'[x] = win[x] /\ win'[g] = new /\ \A y \in Scopes \ {g, x} : win'[y] = win[y]
        BY <1>3, <1>5, <3>4
      <3>6. node' = [f \in Frames |->
                 IF f = g THEN NewNode("concurrent", x, loop[l].call)
                 ELSE IF "concurrent" = "serial" /\ f = x THEN [node[f] EXCEPT !.status = "suspended"]
                 ELSE node[f]]
        BY <1>5, <3>1
      <3>7. /\ win'[g].there /\ win'[g].prog \in {"none", "ready"} /\ win'[g].call = None
            /\ win'[g].inflight = {} /\ win'[g].resumable = None
            /\ win'[x].there /\ win'[x].prog = win[x].prog /\ win'[x].call = win[x].call
            /\ win'[x].inflight \subseteq win[x].inflight /\ win'[x].resumable = win[x].resumable
            /\ \A y \in Scopes \ {g, x} : win'[y] = win[y]
        BY <1>4, <3>2, <3>3, <3>5
      <3>8. Opens(l, g, x, "concurrent", loop[l].call)
        BY <1>1, <1>2, <3>0, <3>1, <3>6, <3>7 DEF Opens
      <3> QED
        BY <3>8
    <2> QED
      BY <2>1, <2>2
  <1>9. PICK kind, c : Opens(l, g, x, kind, c)
    BY <1>8
  <1> HIDE DEF x, g
  <1> QED
    BY <1>9, OpensKeep

-----------------------------------------------------------------------------
(* Steps that end frames and loops.                                        *)

\* The frames K end, those in S with a result, and the loops N; l goes on to pc.
Kills(top, l, K, S, N, pc) ==
    /\ N \subseteq Frames /\ l \notin N
    /\ \A k \in Scopes \ (N \cup {l}) : loop'[k] = loop[k]
    /\ \A k \in N : loop'[k] = Off
    /\ loop'[l].pc = pc /\ loop'[l].at = loop[l].at /\ loop'[l].kids = loop[l].kids \ N
    /\ pc \in Alive \/ loop[l].kids \subseteq N
    /\ \A k \in N : loop[k].kids \subseteq N
    /\ \A k \in Scopes \ (N \cup {l}) : loop[k].kids \cap N = {}
    /\ \/ loop[l].pc = "waiting" /\ pc = "check" /\ N \subseteq Up
       \/ /\ loop[l].pc = "resuming" /\ pc = "resumed" /\ N = {win[loop[l].at].resumable}
          /\ loop[win[loop[l].at].resumable].pc \in {"answered", "failed"}
          /\ win'[loop[l].at] = win[loop[l].at]
       \/ loop[l].pc \in {"step", "enter", "spawn"} /\ pc = "ended" /\ N \subseteq Up /\ l \in Temps
       \/ /\ loop[l].pc \in {"step", "enter", "spawn"} /\ pc \in {"answered", "failed"}
          /\ N \subseteq Up /\ l \in Tops
          /\ \A m \in Temps : loop[m].pc # "off" /\ top[m] = l => m \in N
          /\ pc = "answered" => win'[loop[l].at].prog = "none"
       \/ /\ l = Main /\ loop[l].pc \in {"answered", "failed", "cleanup"}
          /\ pc \in {"off", "cleanup"} /\ N = {}
    /\ K \subseteq Frames /\ S \subseteq K /\ \A f \in K : Used(f)
    /\ \A f \in Frames \ K : node'[f] = node[f]
    /\ \A f \in K : node'[f] = [node[f] EXCEPT !.status = IF f \in S THEN "done" ELSE "interrupted"]
    /\ \A f \in Serving : f \in K <=> node[f].caller \in K
    /\ \A m \in Scopes : Runs(m)' => loop[m].at \notin K
    /\ recorded' = recorded \cup {node[f].call : f \in S \cap Up}
    /\ main' = main \/ (main = "running" /\ main' = "done" /\ l = Main /\ pc = "answered")
    /\ \A y \in Scopes :
          \/ win'[y] = win[y] /\ y \notin K \cap Paused
          \/ win'[y] = NoWindow /\ y \in K
          \/ /\ y = loop[l].at /\ y \notin K \cap Paused /\ win'[y].there = win[y].there
             /\ win[y].there
             /\ win'[y].prog = "call" <=> win'[y].call # None
             /\ win'[y].call = win[y].call
                \/ (win'[y].call = None /\ win[y].call \in recorded \cup {None})
             /\ win'[y].inflight \subseteq win[y].inflight
             /\ win'[y].resumable \in {None, win[y].resumable}
    /\ win'[Main].prog # "none" => win[Main].prog # "none"
    /\ pending' = pending \/ (pending' = FALSE /\ l \in Tops)
    /\ UNCHANGED <<called, sent, crashes, torn>>

\* While a pause is saved no other loop runs.
LEMMA SavingIsQuiet ==
    ASSUME NEW base \in [Scopes -> Scopes], NEW top \in [Scopes -> Scopes], Inv(base, top),
           NEW l \in Frames, Runs(l)
    PROVE  ~Saving
  <1>1. SUFFICES ASSUME Saving PROVE FALSE
    OBVIOUS
  <1>2. loop[Main].pc = "save" /\ loop[Main].kids = {}
    BY <1>1 DEF Saving, Inv, Hearing
  <1>3. \A q \in Paused : loop[q].pc = "off"
    BY <1>2 DEF Inv, Hearing
  <1>4. l \in Temps /\ loop[l].pc # "off"
    BY <1>3, FramesAre DEF Runs, Alive
  <1>5. Runs(top[l]) /\ top[l] \in Tops
    BY <1>4, Climb
  <1>6. top[l] = Main
    BY <1>3, <1>5 DEF Tops, Runs, Alive
  <1>7. Main \in Tops
    BY DEF Tops
  <1> QED
    BY <1>2, <1>4, <1>6, <1>7, FirstKid

LEMMA KillsKeep ==
    ASSUME NEW base \in [Scopes -> Scopes], NEW top \in [Scopes -> Scopes],
           Inv(base, top), TypeOK', NEW l \in Scopes, NEW K, NEW S, NEW N, NEW pc,
           Kills(top, l, K, S, N, pc)
    PROVE  Inv(base, top)'
  <1>0. /\ node \in [Frames -> Node] /\ win \in [Scopes -> Window] /\ loop \in [Scopes -> Loop]
        /\ win' \in [Scopes -> Window] /\ called \in Nat /\ pending \in BOOLEAN /\ pending' \in BOOLEAN
    BY BoundsAssumption DEF Inv, TypeOK
  <1> DEFINE x == loop[l].at
  <1>1. /\ x \in Scopes
        /\ Runs(l) \/ (l = Main /\ ~Runs(Main) /\ loop[l].pc \in {"answered", "failed", "cleanup"})
        /\ base[x] = l /\ (Runs(l) /\ x = Main => l = Main)
        /\ \A m \in Scopes : Runs(m) /\ m # l => loop[m].at # x
    <2>1. Runs(l) \/ (l = Main /\ ~Runs(Main) /\ loop[l].pc \in {"answered", "failed", "cleanup"})
      BY DEF Kills, Runs, Alive
    <2>2. x \in Scopes
      BY <1>0 DEF Loop
    <2>3. CASE Runs(l)
      BY <2>1, <2>2, <2>3, AtIs DEF Inv, Bases
    <2>4. CASE ~Runs(l)
      <3>1. base[x] = l
        BY <2>1, <2>4 DEF Inv, Bases
      <3>2. \A m \in Scopes : Runs(m) => m = l
        BY <2>1, <2>4, Quiet, FramesAre DEF Runs, Alive
      <3> QED
        BY <2>1, <2>2, <2>4, <3>1, <3>2
    <2> QED
      BY <2>3, <2>4
  <1>2. ~Saving /\ ~Saving' /\ Main \notin N
    <2>1. ~Saving
      <3>1. l = Main => ~Saving
        BY DEF Kills, Saving
      <3>2. l # Main => ~Saving
        BY <1>1, SavingIsQuiet, FramesAre
      <3> QED
        BY <3>1, <3>2
    <2>2. Main \notin N
      BY FramesAre DEF Kills
    <2> QED
      BY <2>1, <2>2, FramesAre DEF Kills, Saving
  <1>3. /\ \A f \in Frames : /\ node'[f].kind = node[f].kind /\ node'[f].call = node[f].call
                             /\ node'[f].caller = node[f].caller /\ node'[f].parent = node[f].parent
                             /\ node'[f].parallel = node[f].parallel
                             /\ (Used(f)' <=> Used(f))
                             /\ (Lives(f)' <=> Lives(f) /\ f \notin K)
        /\ \A f \in Frames : f \notin K => node'[f] = node[f]
        /\ \A f \in Frames : f \in K => node'[f].status \in {"done", "interrupted"} /\ Used(f)
        /\ K \subseteq Frames /\ S \subseteq K /\ Main \notin K
    <2>1. ASSUME NEW f \in Frames, f \in K
          PROVE  /\ node'[f].kind = node[f].kind /\ node'[f].call = node[f].call
                 /\ node'[f].caller = node[f].caller /\ node'[f].parent = node[f].parent
                 /\ node'[f].parallel = node[f].parallel
                 /\ node'[f].status \in {"done", "interrupted"} /\ Used(f)
      <3>1. Used(f) /\ node'[f] = [node[f] EXCEPT !.status = IF f \in S THEN "done" ELSE "interrupted"]
        BY <2>1 DEF Kills
      <3>2. PICK s \in {"done", "interrupted"} : node'[f] = [node[f] EXCEPT !.status = s]
        BY <3>1
      <3>3. node[f] \in Node
        BY <1>0
      <3> QED
        BY <3>1, <3>2, <3>3 DEF Node
    <2>2. ASSUME NEW f \in Frames, f \in K PROVE Used(f)' /\ ~Lives(f)'
      BY <2>1, <2>2 DEF Used, Lives, Live
    <2>3. ASSUME NEW f \in Frames, f \notin K PROVE node'[f] = node[f] /\ (Used(f)' <=> Used(f)) /\ (Lives(f)' <=> Lives(f))
      BY <2>3 DEF Kills, Used, Lives
    <2>4. K \subseteq Frames /\ S \subseteq K /\ Main \notin K
      BY FramesAre DEF Kills
    <2> QED
      BY <2>1, <2>2, <2>3, <2>4
  <1>4. /\ Up' = Up /\ \A f : f \in Serving' <=> f \in Serving /\ f \notin K
        /\ \A f \in Up : f \in Frames /\ f \in Scopes
    <2>1. \A f \in Temps : f \in Frames /\ f \in Scopes
      BY FramesAre
    <2>2. Up' = Up
      BY <1>3, <2>1 DEF Up
    <2> QED
      BY <1>3, <2>1, <2>2 DEF Serving, Up
  <1>5. \A y \in Scopes :
           /\ win'[y].there => win[y].there /\ y \notin K \cap Paused
           /\ ~win'[y].there => win'[y] = NoWindow
           /\ win'[y].prog = "call" <=> win'[y].call # None
           /\ win'[y].call \in {None, win[y].call} /\ win'[y].inflight \subseteq win[y].inflight
           /\ win'[y].resumable \in {None, win[y].resumable}
           /\ Pends(win'[y]) \subseteq Pends(win[y])
           /\ y \notin K => win'[y].there = win[y].there
           /\ y \notin K => win'[y].call = win[y].call \/ win[y].call \in recorded \cup {None}
           /\ y # x /\ y \notin K => win'[y] = win[y]
           /\ y # x => win'[y] = win[y] \/ win'[y] = NoWindow
    <2>1. ASSUME NEW y \in Scopes
          PROVE /\ win'[y].there => win[y].there /\ y \notin K \cap Paused
                /\ ~win'[y].there => win'[y] = NoWindow
                /\ win'[y].prog = "call" <=> win'[y].call # None
                /\ win'[y].call \in {None, win[y].call} /\ win'[y].inflight \subseteq win[y].inflight
                /\ win'[y].resumable \in {None, win[y].resumable}
                /\ y \notin K => win'[y].there = win[y].there
                /\ y \notin K => win'[y].call = win[y].call \/ win[y].call \in recorded \cup {None}
                /\ y # x /\ y \notin K => win'[y] = win[y]
                /\ y # x => win'[y] = win[y] \/ win'[y] = NoWindow
      <3>1. CASE win'[y] = win[y] /\ y \notin K \cap Paused
        BY <1>0, <3>1 DEF Inv, Windows
      <3>2. CASE win'[y] = NoWindow /\ y \in K
        BY <3>2 DEF NoWindow, Fresh
      <3>3. CASE /\ y = loop[l].at /\ y \notin K \cap Paused /\ win'[y].there = win[y].there
                 /\ win[y].there
                 /\ win'[y].prog = "call" <=> win'[y].call # None
                 /\ win'[y].call = win[y].call
                    \/ (win'[y].call = None /\ win[y].call \in recorded \cup {None})
                 /\ win'[y].inflight \subseteq win[y].inflight
                 /\ win'[y].resumable \in {None, win[y].resumable}
        BY <3>3
      <3> QED
        BY <3>1, <3>2, <3>3 DEF Kills
    <2> QED
      BY <2>1 DEF Pends
  <1>6. /\ \A m \in Scopes : m # l /\ m \notin N => loop'[m] = loop[m]
        /\ \A m \in N : loop'[m] = Off /\ m \in Frames /\ m \in Scopes /\ m # l
        /\ loop'[l].pc = pc /\ loop'[l].at = x /\ loop'[l].kids = loop[l].kids \ N
        /\ \A m \in Scopes : Runs(m)' => Runs(m) /\ m \notin N /\ loop'[m].at = loop[m].at /\ loop[m].at \notin K
        /\ \A m \in Scopes : Runs(m)' /\ m # l => loop'[m] = loop[m] /\ win'[loop[m].at] = win[loop[m].at]
        /\ \A m \in Scopes : Runs(m) /\ m # l /\ m \notin N => Runs(m)'
        /\ pc \notin {"spawn", "join", "save", "resuming", "step", "enter", "waiting", "paused", "crashed"}
        /\ pc \in Alive => Runs(l)
        /\ \A m \in N : \A k \in loop[m].kids : k \in N
    <2>1. /\ \A m \in Scopes : m # l /\ m \notin N => loop'[m] = loop[m]
          /\ \A m \in N : loop'[m] = Off /\ m \in Frames /\ m \in Scopes /\ m # l
          /\ loop'[l].pc = pc /\ loop'[l].at = x /\ loop'[l].kids = loop[l].kids \ N
          /\ \A m \in N : \A k \in loop[m].kids : k \in N
      BY FramesAre DEF Kills
    <2>2. /\ pc \notin {"spawn", "join", "save", "resuming", "step", "enter", "waiting", "paused", "crashed"}
          /\ pc \in Alive => Runs(l)
      BY <1>1 DEF Kills, Alive, Runs
    <2>3. \A m \in Scopes : Runs(m)' => Runs(m) /\ m \notin N /\ loop'[m].at = loop[m].at /\ loop[m].at \notin K
      <3>1. \A m \in Scopes : Runs(m)' => loop[m].at \notin K
        BY DEF Kills
      <3> QED
        BY <2>1, <2>2, <3>1 DEF Runs, Off, Alive
    <2>4. \A m \in Scopes : Runs(m) /\ m # l /\ m \notin N => Runs(m)'
      BY <2>1 DEF Runs
    <2>5. \A m \in Scopes : Runs(m)' /\ m # l => loop'[m] = loop[m] /\ win'[loop[m].at] = win[loop[m].at]
      <3>1. ASSUME NEW m \in Scopes, Runs(m)', m # l PROVE win'[loop[m].at] = win[loop[m].at]
        <4>1. loop[m].at \in Scopes /\ loop[m].at # x /\ loop[m].at \notin K
          BY <1>1, <2>3, <3>1, AtIs
        <4> QED
          BY <1>5, <4>1
      <3> QED
        BY <2>1, <2>3, <3>1
    <2> QED
      BY <2>1, <2>2, <2>3, <2>4, <2>5
  <1> HIDE DEF x
  <1>7. Tree'
    <2>1. \A f \in Frames : ~Used(f) => win'[f] = NoWindow /\ loop'[f] = Off
      <3>1. ASSUME NEW f \in Frames, ~Used(f) PROVE f \notin K /\ f # l /\ f \in Scopes /\ ~win[f].there /\ win[f] = NoWindow /\ loop[f] = Off
        <4>1. win[f] = NoWindow /\ loop[f] = Off
          BY <3>1 DEF Inv, Tree
        <4>2. f \notin K /\ f \in Scopes /\ f # Main
          BY <1>3, <3>1, FramesAre
        <4>3. ~win[f].there
          BY <4>1 DEF NoWindow, Fresh
        <4>4. f # l
          BY <1>1, <4>1, <4>2 DEF Runs, Alive, Off
        <4> QED
          BY <4>1, <4>2, <4>3, <4>4
      <3>2. ASSUME NEW f \in Frames, ~Used(f) PROVE win'[f] = NoWindow
        BY <1>5, <3>1, <3>2
      <3> QED
        BY <1>6, <3>1, <3>2
    <2>2. \A f \in Frames : ~Used(f) => node'[f] = NoNode
      BY <1>3 DEF Inv, Tree
    <2>3. \A f \in Up : node'[f].caller = Main \/ node'[node'[f].caller].status # "free"
      <3>1. ASSUME NEW f \in Up, node[f].caller # Main PROVE Used(node[f].caller) /\ node[f].caller \in Frames
        <4>1. node[f].caller \in Scopes
          BY UpwardsIs
        <4>2. node[f].caller = Main \/ Used(node[f].caller)
          BY DEF Inv, Tree
        <4> QED
          BY <3>1, <4>1, <4>2, FramesAre
      <3>2. \A f \in Frames : Used(f) => node'[f].status # "free"
        BY <1>3 DEF Used
      <3> QED
        BY <1>3, <1>4, <3>1, <3>2
    <2>4. \A f \in Temps : f \in Frames
      BY FramesAre
    <2>5. \A f \in Paused : f \in Frames
      BY FramesAre
    <2>6. \A f \in Up' :
          /\ node'[f].kind \in {"serial", "concurrent"} /\ node'[f].call # None
          /\ node'[f].caller \in Temps => node'[f].caller < f
          /\ node'[f].parent = node'[f].caller \/ (node'[f].parent = Main /\ node'[f].caller \in Paused)
      BY <1>3, <1>4 DEF Inv, Tree
    <2>7. \A q \in Paused : Used(q)' =>
          /\ node'[q].kind = "previous" /\ node'[q].call = None /\ node'[q].parallel
          /\ node'[q].caller = Main /\ node'[q].parent = Main
      BY <1>3, <2>5 DEF Inv, Tree
    <2>8. \A f, g \in Temps : g < f /\ Used(f)' => Used(g)'
      BY <1>3, <2>4 DEF Inv, Tree
    <2>9. \A f \in Frames : ~Used(f)' => node'[f] = NoNode /\ win'[f] = NoWindow /\ loop'[f] = Off
      BY <1>3, <2>1, <2>2
    <2>10. \A f \in Up' : node'[f].caller = Main \/ node'[node'[f].caller].status # "free"
      BY <1>4, <2>3
    <2> QED
      BY <2>6, <2>7, <2>8, <2>9, <2>10 DEF Tree, Used
  <1>8. Numbered'
    <2>1. PICK n \in Nat :
             /\ \A q \in Paused : Used(q) <=> q <= MaxFrames + n
             /\ n <= sent + crashes
             /\ pending /\ win[Main].prog # "none" /\ loop[Main].pc # "save" => n < sent + crashes
      BY DEF Inv, Numbered
    <2>2. (pending' => pending) /\ (win'[Main].prog # "none" => win[Main].prog # "none")
          /\ sent' = sent /\ crashes' = crashes
      BY <1>0 DEF Kills
    <2>3. \A q \in Paused : q \in Frames
      BY FramesAre
    <2>4. loop[Main].pc # "save"
      BY <1>2 DEF Saving
    <2> QED
      BY <1>3, <2>1, <2>2, <2>3, <2>4 DEF Numbered
  <1>9. Windows'
    <2>1. ASSUME NEW y \in Scopes
          PROVE
          /\ ~win'[y].there => win'[y] = NoWindow
          /\ win'[y].prog = "call" <=> win'[y].call # None
          /\ win'[y].call <= called /\ \A d \in win'[y].inflight : d <= called
          /\ win'[y].resumable # None =>
                /\ y \in Tops /\ win'[y].resumable \in Paused /\ node'[win'[y].resumable].status # "free"
                /\ y \in Paused => win'[y].resumable < y
      <3>1. win'[y].call <= called
        BY <1>0, <1>5 DEF Inv, Windows, None
      <3>2. \A d \in win'[y].inflight : d <= called
        BY <1>5 DEF Inv, Windows
      <3>3. ASSUME win'[y].resumable # None
            PROVE  /\ y \in Tops /\ win'[y].resumable \in Paused /\ node'[win'[y].resumable].status # "free"
                   /\ y \in Paused => win'[y].resumable < y
        <4>1. win'[y].resumable = win[y].resumable
          BY <1>5, <3>3
        <4>2. /\ y \in Tops /\ win[y].resumable \in Paused /\ Used(win[y].resumable)
              /\ y \in Paused => win[y].resumable < y
          BY <3>3, <4>1 DEF Inv, Windows
        <4>3. win[y].resumable \in Frames
          BY <4>2, FramesAre
        <4>4. node'[win[y].resumable].status # "free"
          BY <1>3, <4>2, <4>3 DEF Used
        <4> QED
          BY <4>1, <4>2, <4>4
      <3> QED
        BY <1>5, <3>1, <3>2, <3>3
    <2>2. \A f \in Frames : Lives(f)' => win'[f].there
      <3>1. \A f \in Frames : f \in Scopes
        BY FramesAre
      <3>2. \A f \in Frames : Lives(f)' => f \notin K /\ win[f].there
        BY <1>3 DEF Inv, Windows
      <3> QED
        BY <1>5, <3>1, <3>2
    <2>3. \A q \in Paused : win'[q].there => Lives(q)'
      <3>1. \A q \in Paused : q \in Scopes /\ q \in Frames
        BY FramesAre
      <3>2. \A q \in Paused : win[q].there => Lives(q)
        BY DEF Inv, Windows
      <3> QED
        BY <1>3, <1>5, <3>1, <3>2
    <2>4. main' # "free" => win'[Main].there
      <3>1. main' # "free" => main # "free"
        BY DEF Kills
      <3>2. main # "free" => win[Main].there
        BY DEF Inv, Windows
      <3>3. Main \in Scopes
        BY FramesAre
      <3> QED
        BY <1>3, <1>5, <3>1, <3>2, <3>3
    <2>5. loop'[Main].pc \notin {"off", "crashed"} => main' # "free"
      <3>1. loop[Main].pc \notin {"off", "crashed"} => main # "free"
        BY DEF Inv, Windows
      <3>2. main' # "free" \/ main' = main
        BY DEF Kills
      <3>3. loop'[Main].pc \notin {"off", "crashed"} => loop[Main].pc \notin {"off", "crashed"}
        <4>1. CASE l = Main
          BY <4>1 DEF Kills
        <4>2. CASE l # Main
          BY <1>2, <1>6, <4>2, FramesAre
        <4> QED
          BY <4>1, <4>2
      <3> QED
        BY <3>1, <3>2, <3>3
    <2>6. called' = called
      BY DEF Kills
    <2> QED
      BY <2>1, <2>2, <2>3, <2>4, <2>5, <2>6 DEF Windows, Used
  <1>10. /\ \A c \in recorded : c \in recorded'
         /\ \A f \in Up : node[f].call \in recorded' => node[f].call \in recorded \/ f \in S
         /\ \A f \in S : f \in Up => node[f].call \in recorded'
         /\ \A c \in recorded' : c \in recorded \/ \E f \in Up : c = node[f].call
    <2>1. \A f, g \in Frames : f # g /\ node[f].call # None => node[f].call # node[g].call
      BY DEF Inv, CallsAreOne, CallOnce
    <2>2. recorded' = recorded \cup {node[f].call : f \in S \cap Up}
      BY DEF Kills
    <2>3. \A f \in Up : node[f].call # None
      BY UpwardsIs
    <2> QED
      BY <1>4, <2>1, <2>2, <2>3
  <1>11. CallsAreOne'
    <2>1. CallOnce'
      BY <1>3 DEF Inv, CallsAreOne, CallOnce
    <2>2. \A f \in Frames : node'[f].call <= called
      BY <1>3 DEF Inv, CallsAreOne
    <2>3. \A y, z \in Scopes : win'[y].call # None => win'[y].call \notin win'[z].inflight
      <3>1. ASSUME NEW y \in Scopes, NEW z \in Scopes, win'[y].call # None, win'[y].call \in win'[z].inflight
            PROVE  FALSE
        <4>1. win[y].call = win'[y].call /\ win'[y].call \in win[z].inflight
          BY <1>5, <3>1
        <4> QED
          BY <3>1, <4>1 DEF Inv, CallsAreOne
      <3> QED
        BY <3>1
    <2>4. ASSUME NEW y \in Scopes, NEW f \in Up'
          PROVE  /\ node'[f].call \in win'[y].inflight => node'[f].kind = "concurrent"
                 /\ node'[f].call = win'[y].call => node'[f].kind = "serial"
      <3>1. f \in Up /\ node'[f].call = node[f].call /\ node'[f].kind = node[f].kind /\ node[f].call # None
        BY <1>3, <1>4, UpwardsIs
      <3>2. /\ node[f].call \in win[y].inflight => node[f].kind = "concurrent"
            /\ node[f].call = win[y].call => node[f].kind = "serial"
        BY <3>1 DEF Inv, CallsAreOne
      <3> QED
        BY <1>5, <3>1, <3>2
    <2>5. ASSUME NEW m \in Scopes, loop'[m].pc = "spawn"
          PROVE  /\ loop'[m].call \in win'[loop'[m].at].inflight
                 /\ \A f \in Up' : node'[f].call # loop'[m].call
                 /\ \A k \in Scopes \ {m} : loop'[k].pc = "spawn" => loop'[k].call # loop'[m].call
                 /\ loop'[m].call \notin recorded'
      <3>1. \A k \in Scopes : loop'[k].pc = "spawn" => loop'[k] = loop[k]
        BY <1>6 DEF Off
      <3>2. loop'[m] = loop[m] /\ win'[loop[m].at] = win[loop[m].at]
        BY <1>6, <2>5 DEF Runs, Alive
      <3>3. /\ loop[m].call \in win[loop[m].at].inflight
            /\ \A f \in Up : node[f].call # loop[m].call
            /\ \A k \in Scopes \ {m} : loop[k].pc = "spawn" => loop[k].call # loop[m].call
            /\ loop[m].call \notin recorded
        BY <2>5, <3>2 DEF Inv, CallsAreOne
      <3> QED
        BY <1>3, <1>4, <1>10, <3>1, <3>2, <3>3
    <2>6. \A f \in Up' : Lives(f)' => node'[f].call \notin recorded'
      BY <1>3, <1>4, <1>10 DEF Inv, CallsAreOne
    <2>7. \A c \in recorded' : c <= called
      BY <1>4, <1>10 DEF Inv, CallsAreOne
    <2>8. called' = called
      BY DEF Kills
    <2> QED
      BY <2>1, <2>2, <2>3, <2>4, <2>5, <2>6, <2>7, <2>8 DEF CallsAreOne
  <1>12. Owners' /\ Apart'
    <2>1. Owners'
      <3>1. \A y \in Scopes, f \in Up : node[f].call \in Pends(win[y]) => node[f].caller = y
        BY <1>2 DEF Inv, Owners
      <3>2. \A y \in Scopes, f \in Up : node'[f].call \in Pends(win'[y]) => node'[f].caller = y
        <4>1. ASSUME NEW y \in Scopes, NEW f \in Up, node'[f].call \in Pends(win'[y]) PROVE node'[f].caller = y
          <5>1. node'[f].call = node[f].call /\ node'[f].caller = node[f].caller
            BY <1>3, <1>4
          <5>2. Pends(win'[y]) \subseteq Pends(win[y])
            BY <1>5
          <5> QED
            BY <3>1, <4>1, <5>1, <5>2
        <4> QED
          BY <4>1
      <3> QED
        BY <1>4, <3>2 DEF Owners, Pends
    <2>2. Apart'
      <3>1. \A y \in Frames : \A z \in Scopes \ {y} : \A c \in Pends(win[y]) : c \notin Pends(win[z])
        BY <1>2 DEF Inv, Apart
      <3>2. \A y \in Frames : y \in Scopes
        BY FramesAre
      <3>3. \A y \in Frames : \A z \in Scopes \ {y} : \A c \in Pends(win'[y]) : c \notin Pends(win'[z])
        BY <1>5, <3>1, <3>2, Zenon
      <3> QED
        BY <3>3 DEF Apart, Pends
    <2> QED
      BY <2>1, <2>2
  <1>13. Waits'
    <2>1. ASSUME NEW f \in Serving, f \notin K
          PROVE  /\ win'[node'[f].caller].there /\ win'[node'[f].caller].call = node'[f].call
                 /\ node'[f].caller = Main => main' = "suspended"
                 /\ node'[f].caller \in Temps => node'[node'[f].caller].status = "suspended"
                 /\ node'[f].caller \in Paused => Live(node'[node'[f].caller])
      <3> DEFINE c == node[f].caller
      <3>1. f \in Up /\ f \in Frames /\ c \in Scopes /\ node'[f].caller = c /\ node'[f].call = node[f].call
            /\ node[f].call # None /\ Lives(f)
        BY <1>3, <1>4, UpwardsIs DEF Serving
      <3>2. /\ win[c].there /\ win[c].call = node[f].call
            /\ c = Main => main = "suspended"
            /\ c \in Temps => node[c].status = "suspended"
            /\ c \in Paused => Lives(c)
        BY DEF Inv, Waits
      <3>3. c \notin K
        BY <2>1 DEF Kills
      <3>4. node[f].call \notin recorded
        BY <3>1 DEF Inv, CallsAreOne
      <3> HIDE DEF c
      <3>5. win'[c].there /\ win'[c].call = node[f].call
        BY <1>5, <3>1, <3>2, <3>3, <3>4
      <3>6. c \in Frames => node'[c] = node[c]
        BY <1>3, <3>3
      <3>7. c = Main => main' = "suspended"
        BY <3>2 DEF Kills
      <3> QED
        BY <3>1, <3>2, <3>5, <3>6, <3>7, FramesAre DEF Lives
    <2> QED
      BY <1>4, <2>1 DEF Waits, Lives
  <1>14. Deads'
    <2>1. ASSUME NEW f \in Up, NEW y \in Scopes, node'[f].kind = "serial", ~Lives(f)',
                 node'[f].call \notin recorded', win'[y].call = node'[f].call
          PROVE  y # Main /\ ~Lives(y)'
      <3>1. f \in Frames /\ node[f].kind = "serial" /\ node'[f].call = node[f].call /\ node[f].call # None
            /\ node[f].call \notin recorded
        BY <1>3, <1>4, <1>10, <2>1, UpwardsIs
      <3>2. win[y].call = node[f].call
        BY <1>5, <2>1, <3>1
      <3>3. CASE ~Lives(f)
        <4>1. y # Main /\ ~Lives(y)
          BY <3>1, <3>2, <3>3 DEF Inv, Deads
        <4> QED
          BY <1>3, <4>1, FramesAre
      <3>4. CASE Lives(f)
        <4>1. f \in K /\ f \in Serving
          BY <1>3, <2>1, <3>1, <3>4 DEF Serving
        <4>2. node[f].caller \in K
          BY <4>1 DEF Kills
        <4>3. node[f].call \in Pends(win[y])
          BY <3>1, <3>2 DEF Pends
        <4>4. node[f].caller = y
          BY <1>2, <4>3 DEF Inv, Owners
        <4> QED
          BY <1>3, <4>2, <4>4
      <3> QED
        BY <3>3, <3>4
    <2> QED
      BY <1>4, <2>1 DEF Deads, Lives
  <1>15. Bases(base)'
    <2>1. ASSUME NEW m \in Scopes, Runs(m)'
          PROVE  base[loop'[m].at] = m /\ (loop'[m].at = Main \/ Live(node'[loop'[m].at]))
      <3>1. Runs(m) /\ loop'[m].at = loop[m].at /\ loop[m].at \notin K
        BY <1>6, <2>1
      <3>2. base[loop[m].at] = m /\ (loop[m].at = Main \/ Lives(loop[m].at)) /\ loop[m].at \in Scopes
        BY <3>1, AtIs DEF Inv, Bases
      <3>3. loop[m].at # Main => Live(node'[loop[m].at])
        BY <1>3, <3>1, <3>2, FramesAre DEF Lives
      <3> QED
        BY <3>1, <3>2, <3>3
    <2>2. base[loop'[Main].at] = Main
      <3>1. loop'[Main].at = loop[Main].at
        BY <1>2, <1>6, FramesAre DEF x
      <3> QED
        BY <3>1 DEF Inv, Bases
    <2>3. \A f \in Up : base[f] = IF node'[f].kind = "concurrent" THEN f ELSE base[node'[f].caller]
      BY <1>3, <1>4 DEF Inv, Bases
    <2> QED
      BY <1>4, <2>1, <2>2, <2>3 DEF Inv, Bases, Lives
  <1>16. /\ \A k \in Temps : k # l /\ loop'[k].pc # "off" => k \notin N /\ loop'[k] = loop[k]
         /\ \A k \in Scopes : k # l /\ loop'[k].pc \notin {"off"} => k \notin N /\ loop'[k] = loop[k]
         /\ l \in Temps => pc \in {"check", "ended"} /\ loop[l].pc \in Alive
         /\ l \in Paused => pc \in {"check", "resumed", "answered", "failed"}
         /\ l = Main => pc \in {"check", "resumed", "answered", "failed", "off", "cleanup"}
         /\ loop[l].pc # "off"
    <2>1. \A k \in Scopes : k # l /\ loop'[k].pc \notin {"off"} => k \notin N /\ loop'[k] = loop[k]
      BY <1>6 DEF Off
    <2>2. loop[l].pc = "resuming" => l \in Tops
      BY DEF Inv, Hearing
    <2>3. \A k \in Temps : k \in Scopes /\ k \notin Tops /\ k # Main
      BY FramesAre DEF Tops
    <2>4. \A k \in Paused : k \in Tops /\ k \notin Temps /\ k # Main
      BY FramesAre DEF Tops
    <2>5. l \in Temps => pc \in {"check", "ended"} /\ loop[l].pc \in Alive
      BY <2>2, <2>3 DEF Kills, Alive
    <2>6. l \in Paused => pc \in {"check", "resumed", "answered", "failed"}
      BY <2>4 DEF Kills
    <2>7. l = Main => pc \in {"check", "resumed", "answered", "failed", "off", "cleanup"}
      BY <2>3 DEF Kills
    <2>8. loop[l].pc # "off"
      BY DEF Kills
    <2> QED
      BY <2>1, <2>3, <2>5, <2>6, <2>7, <2>8
  <1>17. Loops(base)'
    <2>1. ASSUME NEW k \in Temps, loop'[k].pc # "off"
          PROVE  /\ Used(k)' /\ node'[k].kind = "concurrent"
                 /\ \E m \in Scopes : k \in loop'[m].kids
                 /\ loop'[k].pc \in (Alive \ {"resuming", "resumed", "save"}) \cup {"ended"}
      <3>1. k \in Scopes /\ k \in Frames /\ loop[k].pc # "off" /\ k \notin N
        BY <1>6, <1>16, <2>1, FramesAre
      <3>2. /\ Used(k) /\ node[k].kind = "concurrent"
            /\ loop[k].pc \in (Alive \ {"resuming", "resumed", "save"}) \cup {"ended"}
        BY <3>1 DEF Inv, Loops
      <3>3. PICK m \in Scopes : k \in loop[m].kids
        BY <3>1 DEF Inv, Loops
      <3>4. m \notin N
        BY <3>1, <3>3 DEF Kills
      <3>5. k \in loop'[m].kids
        BY <1>6, <3>1, <3>3, <3>4
      <3>6. loop'[k].pc \in (Alive \ {"resuming", "resumed", "save"}) \cup {"ended"}
        <4>1. CASE k = l
          BY <1>6, <1>16, <4>1 DEF Alive
        <4>2. CASE k # l
          BY <1>16, <2>1, <3>2, <4>2
        <4> QED
          BY <4>1, <4>2
      <3> QED
        BY <1>3, <3>1, <3>2, <3>5, <3>6
    <2>2. ASSUME NEW m \in Scopes, NEW k \in loop'[m].kids
          PROVE  /\ k \in Up /\ node'[k].kind = "concurrent" /\ loop'[k].pc # "off"
                 /\ base[node'[k].caller] = m /\ Runs(m)'
      <3>1. m \notin N
        BY <1>6, <2>2 DEF Off
      <3>2. k \in loop[m].kids /\ (m = l => k \notin N)
        BY <1>6, <2>2, <3>1
      <3>3. /\ k \in Up /\ node[k].kind = "concurrent" /\ loop[k].pc # "off"
            /\ base[node[k].caller] = m /\ Runs(m)
        BY <3>2 DEF Inv, Loops
      <3>4. k \notin N
        BY <3>1, <3>2 DEF Kills
      <3>6. Runs(m)'
        <4>1. CASE m = l
          <5>1. pc \in Alive
            BY <3>2, <3>4, <4>1 DEF Kills
          <5> QED
            BY <1>6, <4>1, <5>1 DEF Runs
        <4>2. CASE m # l
          BY <1>6, <3>1, <3>3, <4>2
        <4> QED
          BY <4>1, <4>2
      <3>5. loop'[k].pc # "off"
        <4>1. k \in Temps
          BY <3>3 DEF Up
        <4>2. CASE k = l
          BY <1>6, <1>16, <4>1, <4>2
        <4>3. CASE k # l
          BY <1>4, <1>6, <3>3, <3>4, <4>3
        <4> QED
          BY <4>2, <4>3
      <3> QED
        BY <1>3, <1>4, <3>3, <3>5, <3>6
    <2>3. \A q \in Paused :
          loop'[q].pc \in (Alive \ {"save"}) \cup {"off", "paused", "answered", "failed"}
      <3>1. ASSUME NEW q \in Paused
            PROVE  loop'[q].pc \in (Alive \ {"save"}) \cup {"off", "paused", "answered", "failed"}
        <4>1. q \in Scopes
          BY FramesAre
        <4>2. CASE q = l
          BY <1>6, <1>16, <4>2 DEF Alive
        <4>3. CASE q # l /\ loop'[q].pc # "off"
          BY <1>16, <4>1, <4>3 DEF Inv, Loops
        <4> QED
          BY <4>2, <4>3
      <3> QED
        BY <3>1
    <2>4. loop'[Main].pc \in Alive \cup {"off", "crashed", "answered", "failed", "cleanup"}
      <3>1. CASE Main = l
        BY <1>6, <1>16, <3>1 DEF Alive
      <3>2. CASE Main # l /\ loop'[Main].pc # "off"
        BY <1>16, <3>2, FramesAre DEF Inv, Loops
      <3> QED
        BY <3>1, <3>2
    <2> QED
      BY <1>4, <2>1, <2>2, <2>3, <2>4 DEF Loops, Used, Alive
  <1>18. /\ l # Main /\ loop[Main].pc # "resuming" => (pending => pending')
         /\ l \in Paused => loop[Main].pc = "resuming"
    <2>1. l \in Paused => loop[Main].pc = "resuming"
      BY <1>16 DEF Inv, Hearing
    <2>2. pending' = pending \/ (pending' = FALSE /\ l \in Tops)
      BY DEF Kills
    <2> QED
      BY <2>1, <2>2 DEF Tops
  <1>19. Leaves'
    <2>1. ASSUME NEW m \in Scopes, Runs(m)', NEW f \in Up, Lives(f)', node'[f].call = win'[loop'[m].at].call
          PROVE  m = Main /\ loop'[m].at = Main /\ loop'[m].pc \in {"check", "join", "save"} /\ pending'
      <3>1. f \in Frames /\ node'[f].call = node[f].call /\ node[f].call # None /\ Lives(f)
        BY <1>3, <1>4, <2>1, UpwardsIs
      <3>2. Runs(m) /\ loop'[m].at = loop[m].at /\ loop[m].at \in Scopes
        BY <1>6, <2>1, AtIs
      <3>3. win[loop[m].at].call = node[f].call
        <4> DEFINE d == loop[m].at
        <4>1. node[f].call = win'[d].call
          BY <2>1, <3>1, <3>2
        <4>2. d \in Scopes
          BY <3>2
        <4> HIDE DEF d
        <4>3. win'[d].call \in {None, win[d].call}
          BY <1>5, <4>2
        <4>4. win[d].call = node[f].call
          BY <3>1, <4>1, <4>3
        <4> QED
          BY <4>4 DEF d
      <3>4. m = Main /\ loop[m].at = Main /\ loop[m].pc \in {"check", "join", "save"} /\ pending
        BY <3>1, <3>2, <3>3 DEF Inv, Leaves
      <3>5. l # Main
        BY <3>4 DEF Kills
      <3>6. loop'[Main] = loop[Main]
        BY <1>6, <2>1, <3>4, <3>5
      <3>7. loop[Main].pc # "resuming"
        BY <3>4
      <3>8. pending'
        BY <1>18, <3>4, <3>5, <3>7
      <3> QED
        BY <3>4, <3>6, <3>8
    <2> QED
      BY <1>4, <2>1 DEF Leaves
  <1>20. Answers'
    <2>1. ASSUME NEW q \in Paused, loop'[q].pc = "answered", loop'[q].at = q PROVE win'[q].prog = "none"
      <3>1. q \in Scopes /\ base[q] = q /\ q # Main
        BY FramesAre DEF Inv, Bases
      <3>2. CASE q = l
        <4>1. pc = "answered" /\ x = q
          BY <1>6, <2>1, <3>2
        <4> QED
          BY <4>1 DEF Kills, x
      <3>3. CASE q # l
        <4>1. loop'[q] = loop[q] /\ q # x
          BY <1>1, <1>16, <2>1, <3>1, <3>3
        <4>2. win[q].prog = "none"
          BY <2>1, <4>1 DEF Inv, Answers
        <4> QED
          BY <1>5, <3>1, <4>1, <4>2 DEF NoWindow, Fresh
      <3> QED
        BY <3>2, <3>3
    <2> QED
      BY <2>1 DEF Answers
  <1>21. Stacks(base)'
    <2>1. ASSUME NEW y \in Frames, node'[y].status = "suspended"
          PROVE  \E f \in Serving' : node'[f].caller = y
      <3>1. y \notin K /\ node[y].status = "suspended"
        BY <1>3, <2>1
      <3>2. PICK f \in Serving : node[f].caller = y
        BY <3>1 DEF Inv, Stacks
      <3>3. f \notin K /\ f \in Frames
        BY <1>4, <3>1, <3>2 DEF Kills, Serving
      <3> QED
        BY <1>3, <1>4, <3>2, <3>3
    <2>2. ASSUME main' = "suspended" PROVE \E f \in Serving' : node'[f].caller = Main
      <3>1. main = "suspended"
        BY <2>2 DEF Kills
      <3>2. PICK f \in Serving : node[f].caller = Main
        BY <3>1 DEF Inv, Stacks
      <3>3. f \notin K /\ f \in Frames
        BY <1>3, <1>4, <3>2 DEF Kills, Serving
      <3> QED
        BY <1>3, <1>4, <3>2, <3>3
    <2>3. \A f \in Up : node'[f].kind = "concurrent" => node'[f].parallel
      BY <1>3, <1>4 DEF Inv, Stacks
    <2>4. ASSUME NEW f \in Serving' PROVE node'[f].parallel <=> base[f] # Main
      <3>1. f \in Serving /\ f \in Frames
        BY <1>4, <2>4 DEF Serving
      <3>2. node[f].parallel <=> base[f] # Main
        BY <3>1 DEF Inv, Stacks
      <3> QED
        BY <1>3, <3>1, <3>2
    <2> QED
      BY <1>4, <2>1, <2>2, <2>3, <2>4 DEF Stacks
  <1>22. Places(base, top)'
    <2>1. \A f \in Up : top[f] = top[node'[f].caller]
      BY <1>3, <1>4 DEF Inv, Places
    <2>2. \A f \in Frames : Used(f)' => top[base[f]] = top[f] /\ top[f] \in Tops
      BY <1>3 DEF Inv, Places
    <2>3. \A f \in Frames : node'[f].status = "paused" => top[f] \in Paused /\ loop'[top[f]].pc \notin Alive
      <3>1. ASSUME NEW f \in Frames, node'[f].status = "paused" PROVE top[f] \in Paused /\ loop'[top[f]].pc \notin Alive
        <4>1. node[f].status = "paused"
          BY <1>3, <3>1
        <4>2. top[f] \in Paused /\ ~Runs(top[f])
          BY <4>1 DEF Inv, Places
        <4>3. top[f] \in Scopes
          BY <4>2, FramesAre
        <4>4. ~Runs(top[f])'
          BY <1>6, <4>2, <4>3
        <4> QED
          BY <4>2, <4>4 DEF Runs
      <3> QED
        BY <3>1
    <2>4. ASSUME NEW m \in Scopes, Runs(m)'
          PROVE  loop'[top[m]].pc \in Alive
      <3>1. Runs(m) /\ m \notin N
        BY <1>6, <2>4
      <3>2. Runs(top[m])
        BY <3>1 DEF Inv, Places
      <3>4. (m \in Tops => top[m] = m) /\ (m \in Tops \/ m \in Temps)
        BY FramesAre DEF Inv, Places, Tops
      <3>3. top[m] \in Tops /\ top[m] \in Scopes
        <4>1. CASE m \in Temps
          <5>1. loop[m].pc # "off"
            BY <3>1 DEF Runs, Alive
          <5>2. top[m] \in Tops
            BY <4>1, <5>1, Climb
          <5> QED
            BY <5>2, FramesAre DEF Tops
        <4>2. CASE m \in Tops
          BY <3>4, <4>2, FramesAre DEF Tops
        <4> QED
          BY <3>4, <4>1, <4>2
      <3>5. CASE top[m] \in N
        <4>1. top[m] \notin Temps
          BY <3>3, FramesAre DEF Tops
        <4>2. top[m] = win[loop[l].at].resumable /\ loop[win[loop[l].at].resumable].pc \in {"answered", "failed"}
          BY <3>5, <4>1 DEF Kills, Up
        <4> QED
          BY <3>2, <4>2 DEF Runs, Alive
      <3>6. CASE top[m] = l
        <4>1. CASE m = l
          BY <2>4, <3>6, <4>1 DEF Runs
        <4>2. CASE m # l
          <5>1. m \in Temps /\ loop[m].pc # "off"
            BY <3>1, <3>4, <3>6, <4>2 DEF Runs, Alive
          <5>2. l \in Tops
            BY <3>1, <3>6, <5>1, Climb
          <5>3. Runs(l)
            BY <3>2, <3>6
          <5>4. pc \notin {"answered", "failed"}
            BY <3>1, <3>6, <5>1 DEF Kills
          <5>5. pc \in {"check", "resumed"}
            <6>1. l \notin Temps
              BY <5>2, FramesAre DEF Tops
            <6>2. loop[l].pc \notin {"answered", "failed", "cleanup"}
              BY <5>3 DEF Runs, Alive
            <6> QED
              BY <5>4, <6>1, <6>2 DEF Kills
          <5> QED
            BY <1>6, <3>6, <5>5 DEF Alive
        <4> QED
          BY <4>1, <4>2
      <3>7. CASE top[m] \notin N /\ top[m] # l
        BY <1>6, <3>2, <3>7 DEF Runs, Alive, Off
      <3> QED
        BY <3>5, <3>6, <3>7
    <2>5. ASSUME NEW m \in Scopes, Runs(m)', NEW y, y = loop'[m].at
          PROVE  Running(y)' \/ Pausing(m)'
      <3>1. Runs(m) /\ y = loop[m].at /\ y \notin K /\ y \in Scopes
        BY <1>6, <2>5, AtIs
      <3>2. CASE Running(y)
        <4>1. CASE y = Main
          <5>1. m = Main
            BY <3>1, <4>1, AtIs
          <5>2. main' = main
            <6>1. pc = "answered" => l # Main
              BY <1>6, <2>5, <5>1 DEF Runs, Alive
            <6> QED
              BY <6>1 DEF Kills
          <5> QED
            BY <3>2, <4>1, <5>2 DEF Running
        <4>2. CASE y # Main
          BY <1>3, <3>1, <3>2, <4>2, FramesAre DEF Running
        <4> QED
          BY <4>1, <4>2
      <3>3. CASE Pausing(m)
        <4>1. m = Main /\ loop[m].at = Main /\ loop[m].pc \in {"check", "join"} /\ pending /\ win[Main].prog # "none"
          BY <3>3 DEF Pausing
        <4>2. l # Main
          BY <4>1 DEF Kills
        <4>3. loop'[Main] = loop[Main] /\ win'[Main] = win[Main]
          BY <1>6, <2>5, <4>1, <4>2
        <4>4. pending'
          BY <1>18, <4>1, <4>2
        <4> QED
          BY <4>1, <4>3, <4>4 DEF Pausing
      <3> QED
        BY <3>1, <3>2, <3>3 DEF Inv, Places
    <2>6. \A m \in Scopes : Runs(m)' => (loop'[top[m]].pc \in Alive /\ (Pausing(m) \/ Running(loop[m].at))')
      <3>1. \A m \in Scopes : Runs(m)' => (loop'[top[m]].pc \in Alive /\
             (Pausing(m)' \/ (IF loop'[m].at = Main THEN main' = "running" ELSE node'[loop'[m].at].status = "running")))
        BY <2>4, <2>5 DEF Running
      <3> QED
        BY <3>1 DEF Running
    <2>7. top[Main] = Main /\ \A q \in Paused : top[q] = q
      BY DEF Inv, Places
    <2> QED
      BY <1>4, <2>1, <2>2, <2>3, <2>6, <2>7 DEF Places, Runs
  <1>23. Hearing'
    <2>0. \A m \in Tops : m \in Scopes /\ (m \in Paused \/ m = Main)
      BY FramesAre DEF Tops
    <2>1. /\ \A m \in Tops : loop'[m].pc \notin {"off", "crashed"} => loop[m].pc \notin {"off", "crashed"} /\ m \notin N
          /\ l \in Tops => loop[l].pc \notin {"off", "crashed"}
      <3>1. \A m \in Scopes : m # l /\ loop'[m].pc # "off" => loop'[m] = loop[m] /\ m \notin N
        BY <1>16
      <3>2. loop[l].pc \notin {"off", "crashed"} /\ l \notin N
        BY DEF Kills
      <3> QED
        BY <2>0, <3>1, <3>2
    <2>2. ASSUME loop[l].pc = "resuming"
          PROVE  \E p \in Paused : /\ N = {p} /\ loop[p].pc \in {"answered", "failed"} /\ p = win[x].resumable
                                   /\ l \in Tops /\ x \in Tops /\ win[x].prog = "resume" /\ x = l /\ p # l
                                   /\ pc = "resumed" /\ win'[x] = win[x]
      <3>1. l \in Tops /\ x \in Tops /\ win[x].prog = "resume" /\ win[x].resumable # None
        BY <2>2 DEF Inv, Hearing, x
      <3>2. win[x].resumable \in Paused
        BY <1>1, <3>1 DEF Inv, Windows
      <3>3. /\ N = {win[x].resumable} /\ loop[win[x].resumable].pc \in {"answered", "failed"}
            /\ pc = "resumed" /\ win'[x] = win[x]
        BY <2>2 DEF Kills, x
      <3>4. x = l
        BY <1>1, <3>1 DEF Tops, Inv, Bases
      <3> QED
        BY <2>2, <3>1, <3>2, <3>3, <3>4
    <2>3. ASSUME loop[l].pc = "resuming", NEW k \in Tops, k # l, loop'[k].pc \notin {"off", "crashed"}
          PROVE  Ord(l) < Ord(k)
      <3>1. PICK p \in Paused : N = {p} /\ loop[p].pc \in {"answered", "failed"} /\ p = win[x].resumable /\ l \in Tops
        BY <2>2, <2>3
      <3>2. loop[k].pc \notin {"off", "crashed"} /\ k # p
        BY <2>1, <2>3, <3>1
      <3>3. k \in Nat /\ l \in Nat /\ p \in Nat /\ Ord(k) \in Nat /\ Ord(l) \in Nat /\ Ord(k) # Ord(l) /\ Ord(p) = p
            /\ (Ord(k) = k \/ k = Main) /\ (Ord(l) = l \/ l = Main) /\ p \in Tops
        BY <2>0, <2>3, <3>1, FramesAre, ScopesAre DEF Ord, Tops
      <3>4. CASE Ord(k) < Ord(l)
        <4>1. k <= p
          BY <2>1, <2>3, <3>1, <3>2, <3>4 DEF Inv, Hearing, x
        <4>2. k # Main
          BY <2>0, <3>1, <3>3, <3>4, FramesAre, ScopesAre DEF Ord
        <4>3. Ord(k) < Ord(p)
          BY <3>2, <3>3, <4>1, <4>2
        <4>4. loop[p].pc = "resuming"
          BY <2>3, <3>1, <3>2, <3>3, <4>3 DEF Inv, Hearing
        <4> QED
          BY <3>1, <4>4
      <3> QED
        BY <3>3, <3>4
    <2>4. ASSUME NEW m \in Tops, NEW k \in Tops,
                 loop'[m].pc \notin {"off", "crashed"}, loop'[k].pc \notin {"off", "crashed"},
                 Ord(k) < Ord(m)
          PROVE  loop'[m].pc = "resuming" /\ k <= win'[loop'[m].at].resumable
      <3>1. loop[m].pc = "resuming" /\ k <= win[loop[m].at].resumable /\ k # m
        <4>1. k # m
          <5>1. Ord(m) \in Nat
            BY <2>0, FramesAre, ScopesAre DEF Ord
          <5> QED
            BY <2>4, <5>1
        <4> QED
          BY <2>1, <2>4, <4>1 DEF Inv, Hearing
      <3>2. m # l
        <4>1. Ord(k) \in Nat /\ Ord(m) \in Nat
          BY <2>0, FramesAre, ScopesAre DEF Ord
        <4> QED
          BY <2>3, <2>4, <3>1, <4>1
      <3>3. loop'[m] = loop[m] /\ win'[loop[m].at] = win[loop[m].at]
        BY <1>6, <1>16, <2>0, <2>4, <3>1, <3>2 DEF Runs, Alive
      <3> QED
        BY <3>1, <3>3
    <2>5. ASSUME NEW m \in Scopes, loop'[m].pc \in {"resuming", "resumed"}
          PROVE  m \in Tops /\ loop'[m].at \in Tops /\ win'[loop'[m].at].prog = "resume"
      <3>1. CASE m = l
        <4>1. pc = "resumed" /\ loop[l].pc = "resuming"
          BY <1>6, <2>5, <3>1 DEF Kills
        <4> QED
          BY <1>6, <2>2, <3>1, <4>1
      <3>2. CASE m # l
        <4>1. loop'[m] = loop[m] /\ win'[loop[m].at] = win[loop[m].at]
          BY <1>6, <2>5, <3>2 DEF Runs, Alive
        <4>2. m \in Tops /\ loop[m].at \in Tops /\ win[loop[m].at].prog = "resume"
          BY <2>5, <4>1 DEF Inv, Hearing
        <4> QED
          BY <4>1, <4>2
      <3> QED
        BY <3>1, <3>2
    <2>6. ASSUME NEW m \in Scopes, loop'[m].pc = "resuming", NEW y, y = loop'[m].at
          PROVE  win'[y].resumable # None /\ loop'[win'[y].resumable].pc # "off"
      <3>1. m # l /\ loop'[m] = loop[m] /\ win'[y] = win[y] /\ loop[m].pc = "resuming" /\ y = loop[m].at
        BY <1>6, <2>6 DEF Runs, Alive
      <3> DEFINE q == win[y].resumable
      <3>2. m \in Tops /\ y \in Tops /\ q # None /\ loop[q].pc # "off" /\ y \in Scopes
        BY <2>0, <3>1 DEF Inv, Hearing
      <3>3. q \in Paused /\ (y \in Paused => q < y)
        BY <3>2 DEF Inv, Windows
      <3>4. y = m
        BY <3>1, <3>2 DEF Tops, Inv, Bases, Runs, Alive
      <3>5. q \notin N
        <4>1. SUFFICES ASSUME q \in N PROVE FALSE
          OBVIOUS
        <4>2. q \notin Up
          BY <3>3, FramesAre DEF Up
        <4>3. loop[l].pc = "resuming"
          BY <4>1, <4>2 DEF Kills
        <4>4. PICK p \in Paused : /\ N = {p} /\ p = win[x].resumable /\ x = l /\ l \in Tops
          BY <2>2, <4>3
        <4>5. q = p /\ (l \in Paused => p < l) /\ l \in Scopes
          BY <1>1, <4>1, <4>4, FramesAre DEF Inv, Windows
        <4>6. Ord(l) \in Nat /\ Ord(m) \in Nat /\ l \in Nat /\ m \in Nat /\ p \in Nat /\ Ord(l) # Ord(m)
              /\ (m = Main \/ Ord(m) = m) /\ (l = Main \/ Ord(l) = l) /\ p # Main
          BY <2>0, <3>1, <3>2, <4>4, FramesAre, ScopesAre DEF Ord
        <4>7. CASE Ord(l) < Ord(m)
          <5>1. l <= p
            BY <3>1, <3>2, <4>3, <4>4, <4>5, <4>7 DEF Inv, Hearing
          <5>2. l # Main
            BY <2>0, <3>2, <4>6, <4>7, FramesAre, ScopesAre DEF Ord
          <5> QED
            BY <2>0, <4>4, <4>5, <4>6, <5>1, <5>2
        <4>8. CASE Ord(m) < Ord(l)
          <5>1. m <= p
            BY <3>1, <3>2, <4>3, <4>4, <4>5, <4>8 DEF Inv, Hearing, x
          <5>2. m # Main
            BY <2>0, <4>4, <4>6, <4>8, FramesAre, ScopesAre DEF Ord
          <5> QED
            BY <2>0, <3>2, <3>3, <3>4, <4>5, <4>6, <5>1, <5>2
        <4> QED
          BY <4>6, <4>7, <4>8
      <3>6. loop'[q].pc # "off"
        <4>1. q \in Scopes
          BY <3>3, FramesAre
        <4>2. CASE q = l
          BY <1>6, <1>16, <3>3, <4>2
        <4>3. CASE q # l
          BY <1>6, <3>2, <3>5, <4>1, <4>3
        <4> QED
          BY <4>2, <4>3
      <3> QED
        BY <3>1, <3>2, <3>6
    <2>7. ASSUME NEW q \in Paused, loop'[q].pc # "off" PROVE loop'[Main].pc = "resuming"
      <3>1. loop[q].pc # "off" /\ q \in Tops /\ q \in Scopes /\ loop'[q].pc \notin {"off", "crashed"}
        <4>1. q \in Tops /\ q \in Scopes
          BY FramesAre DEF Tops
        <4>2. loop'[q].pc # "crashed"
          BY <1>17 DEF Loops, Alive
        <4> QED
          BY <2>1, <2>7, <4>1, <4>2
      <3>2. loop[Main].pc = "resuming"
        BY <3>1 DEF Inv, Hearing
      <3>3. l # Main
        <4>1. SUFFICES ASSUME l = Main PROVE FALSE
          OBVIOUS
        <4>2. q # l
          BY <4>1, FramesAre
        <4>3. Ord(l) < Ord(q)
          BY <2>3, <3>1, <3>2, <4>1, <4>2
        <4> QED
          BY <4>1, <4>3, FramesAre, ScopesAre DEF Ord
      <3>4. loop'[Main] = loop[Main]
        BY <1>2, <1>6, <3>3, FramesAre
      <3> QED
        BY <3>2, <3>4
    <2>8. ASSUME NEW m \in Scopes, loop'[m].pc = "join" PROVE loop'[m].at # Main \/ win'[Main].prog # "none"
      <3>1. m # l /\ loop'[m] = loop[m] /\ win'[loop[m].at] = win[loop[m].at] /\ loop[m].pc = "join"
        BY <1>6, <2>8 DEF Runs, Alive
      <3>2. loop[m].at # Main \/ win[Main].prog # "none"
        BY <3>1 DEF Inv, Hearing, InProgram
      <3> QED
        BY <3>1, <3>2
    <2>9. ASSUME loop'[Main].pc \in {"join", "save"} PROVE pending' /\ win'[Main].prog # "none"
      <3>1. l # Main /\ Runs(Main)' /\ Main \in Scopes
        BY <1>6, <2>9, FramesAre DEF Runs, Alive
      <3>2. loop'[Main] = loop[Main]
        BY <1>6, <3>1
      <3>3. pending /\ win[Main].prog # "none" /\ loop[Main].pc = "join"
        BY <1>2, <2>9, <3>2 DEF Inv, Hearing, Saving
      <3>4. win'[Main] = win[Main]
        <4>1. Main # x
          <5>1. Runs(l)
            BY <1>1, <3>1
          <5> QED
            BY <1>1, <3>1, <5>1
        <4> QED
          BY <1>3, <1>5, <3>1, <4>1
      <3>5. pending'
        BY <1>18, <3>1, <3>3
      <3> QED
        BY <3>3, <3>4, <3>5
    <2>10. loop'[Main].pc # "save"
      BY <1>2 DEF Saving
    <2>11. \A m \in Scopes : loop'[m].pc = "resuming" =>
             win'[loop'[m].at].resumable # None /\ loop'[win'[loop'[m].at].resumable].pc # "off"
      BY <2>6
    <2>12. \A m \in Scopes : loop'[m].pc = "join" => InProgram(loop[m].at)'
      BY <2>8 DEF InProgram
    <2>13. \A m, k \in Tops :
              /\ loop'[m].pc \notin {"off", "crashed"} /\ loop'[k].pc \notin {"off", "crashed"}
              /\ Ord(k) < Ord(m)
              => loop'[m].pc = "resuming" /\ k <= win'[loop'[m].at].resumable
      BY <2>4
    <2> QED
      BY <2>5, <2>7, <2>9, <2>10, <2>11, <2>12, <2>13 DEF Hearing
  <1>24. ~torn'
    BY DEF Kills, Inv
  <1> QED
    BY <1>7, <1>8, <1>9, <1>11, <1>12, <1>13, <1>14, <1>15, <1>17, <1>19, <1>20, <1>21, <1>22, <1>23, <1>24 DEF Inv

\* The loops End drops.
LEMMA EndIs ==
    ASSUME NEW base \in [Scopes -> Scopes], NEW top \in [Scopes -> Scopes], Inv(base, top),
           NEW l \in Scopes, loop[l].pc \in {"step", "enter", "spawn"}, NEW pc, End(l, pc),
           NEW N, N = Nested(l)
    PROVE  /\ N \subseteq Frames /\ l \notin N /\ N \subseteq Up
           /\ \A k \in Scopes \ (N \cup {l}) : loop'[k] = loop[k]
           /\ \A k \in N : loop'[k] = Off
           /\ loop'[l].pc = pc /\ loop'[l].at = loop[l].at /\ loop'[l].kids = {}
           /\ loop[l].kids \subseteq N /\ \A k \in N : loop[k].kids \subseteq N
           /\ \A k \in Scopes \ (N \cup {l}) : loop[k].kids \cap N = {}
           /\ l \in Tops => \A m \in Temps : loop[m].pc # "off" /\ top[m] = l => m \in N
  <1>1. Runs(l) /\ loop[l].pc # "resuming" /\ loop[l] \in Loop
    BY DEF Runs, Alive, Inv, TypeOK
  <1>2. /\ N \subseteq Up /\ l \notin N
        /\ \A k \in N : \E m \in N \cup {l} : k \in loop[m].kids
        /\ \A m \in N \cup {l} : loop[m].kids \subseteq N
        /\ l \in Tops => \A m \in Temps : loop[m].pc # "off" /\ top[m] = l => m \in N
    BY <1>1, NestedAre
  <1>3. N \subseteq Frames /\ N \subseteq Scopes
    BY <1>2, FramesAre DEF Up
  <1>4. loop' = [k \in Scopes |-> IF k = l THEN [loop[l] EXCEPT !.pc = pc, !.kids = {}]
                               ELSE IF k \in N THEN Off ELSE loop[k]]
    BY DEF End
  <1>5. loop'[l].pc = pc /\ loop'[l].at = loop[l].at /\ loop'[l].kids = {}
    BY <1>1, <1>4 DEF Loop
  <1>6. ASSUME NEW k \in Scopes \ (N \cup {l}), NEW n \in loop[k].kids, n \in N PROVE FALSE
    <2>1. PICK m \in N \cup {l} : n \in loop[m].kids
      BY <1>2, <1>6
    <2>2. m \in Scopes
      BY <1>3
    <2>3. base[node[n].caller] = m /\ base[node[n].caller] = k
      BY <1>6, <2>1, <2>2 DEF Inv, Loops
    <2> QED
      BY <1>6, <2>1, <2>3
  <1> QED
    BY <1>2, <1>3, <1>4, <1>5, <1>6

\* The frames below the interrupted calls C of the frame that loop l is in.
Interrupts(l, x, C, D) ==
    /\ D \subseteq Up
    /\ \A f \in Frames : Interrupted(node, C)[f] =
          IF f \in D THEN [node[f] EXCEPT !.status = "interrupted"] ELSE node[f]
    /\ \A f \in Serving : f \in D <=> node[f].caller \in D
    /\ \A m \in Scopes : Runs(m) /\ loop[m].at \in D => m \in Nested(l)
    /\ x \notin D

LEMMA InterruptedIs ==
    ASSUME NEW base \in [Scopes -> Scopes], NEW top \in [Scopes -> Scopes], Inv(base, top),
           NEW l \in Scopes, NEW x \in Scopes, x = loop[l].at, base[x] = l, ~Saving,
           (Runs(l) /\ loop[l].pc # "resuming") \/ (l = Main /\ ~Runs(Main)),
           NEW C, C \subseteq win[x].inflight
    PROVE  \E D : Interrupts(l, x, C, D)
  <1> DEFINE roots == {f \in Frames : node[f].kind = "concurrent" /\ node[f].call \in C}
             below == UNION {Below(node, r) : r \in roots}
             D == {f \in Frames : node[f].status \in {"running", "suspended"} /\ f \in below}
  <1>0. node \in [Frames -> Node]
    BY DEF Inv, TypeOK
  <1>1. \A r \in roots : r \in Up /\ r \in Scopes /\ r # Main /\ node[r].caller = x /\ base[r] = r /\ top[r] = top[x]
    <2>1. ASSUME NEW r \in roots PROVE r \in Up
      <3>1. Used(r)
        BY DEF Inv, Tree, NoNode
      <3>2. r \notin Paused
        BY <3>1 DEF Inv, Tree
      <3> QED
        BY <3>1, <3>2, FramesAre DEF Up
    <2>2. ASSUME NEW r \in roots PROVE node[r].caller = x
      <3>1. node[r].call \in Pends(win[x])
        BY DEF Pends
      <3> QED
        BY <2>1, <3>1 DEF Inv, Owners
    <2>3. \A r \in roots : r \in Scopes /\ r # Main
      BY FramesAre
    <2>4. ASSUME NEW r \in roots PROVE base[r] = r /\ top[r] = top[x]
      BY <2>1, <2>2 DEF Inv, Bases, Places
    <2> QED
      BY <2>1, <2>2, <2>3, <2>4
  <1> HIDE DEF roots
  <1>2. ASSUME NEW r \in roots
        PROVE  /\ Below(node, r) \subseteq Up
               /\ \A f \in Below(node, r) : top[f] = top[x] /\ base[f] \in Below(node, r)
                     /\ (f # r => node[f].caller \in Below(node, r))
               /\ \A f \in Up : node[f].caller \in Below(node, r) => f \in Below(node, r)
    <2> DEFINE B == Below(node, r)
    <2>0. r \in Up /\ r \in Scopes /\ r # Main /\ base[r] = r /\ top[r] = top[x] /\ r \in Frames
      BY <1>1, UpwardsIs
    <2>1. /\ r \in B /\ B \subseteq Scopes
          /\ \A f \in Frames : node[f].status # "free" /\ node[f].parent \in B => f \in B
          /\ \A f \in B \ {r} : f \in Frames /\ node[f].status # "free" /\ node[f].parent \in B
      BY <1>0, <2>0, BelowIs
    <2> HIDE DEF B
    <2>2. Main \notin B
      BY <2>0, <2>1, FramesAre
    <2>3. B \subseteq Up
      <3>1. ASSUME NEW f \in B, f # r PROVE f \in Up
        <4>1. f \in Frames /\ Used(f) /\ node[f].parent # Main
          BY <2>1, <2>2, <3>1 DEF Used
        <4>2. f \notin Paused
          BY <4>1 DEF Inv, Tree
        <4> QED
          BY <4>1, <4>2, FramesAre DEF Up
      <3> QED
        BY <2>0, <3>1
    <2>4. \A f \in B : f # r => node[f].caller \in B
      <3>1. \A f \in B : f # r => node[f].parent \in B
        BY <2>1
      <3>2. \A f \in Up : node[f].parent = node[f].caller \/ node[f].parent = Main
        BY DEF Inv, Tree
      <3> QED
        BY <2>2, <2>3, <3>1, <3>2
    <2>5. \A f \in Up : node[f].caller \in B => f \in B
      <3>1. ASSUME NEW f \in Up, node[f].caller \in B PROVE f \in B
        <4>1. node[f].caller \notin Paused
          BY <2>3, <3>1, FramesAre DEF Up
        <4>2. node[f].parent = node[f].caller
          BY <4>1 DEF Inv, Tree
        <4>3. f \in Frames /\ node[f].status # "free"
          BY UpwardsIs DEF Used
        <4> QED
          BY <2>1, <3>1, <4>2, <4>3
      <3> QED
        BY <3>1
    <2>6. \A f \in B : top[f] = top[x] /\ base[f] \in B
      <3> DEFINE bad == {f \in B : ~(top[f] = top[x] /\ base[f] \in B)}
      <3>1. SUFFICES ASSUME bad # {} PROVE FALSE
        OBVIOUS
      <3>2. PICK f \in bad : \A g \in bad : f <= g
        <4>1. bad \subseteq Frames
          BY <2>3, FramesAre DEF Up
        <4> QED
          BY <3>1, <4>1, FirstIs
      <3>3. f \in B /\ f # r /\ f \in Up
        BY <2>0, <2>1, <2>3, <3>2
      <3>4. node[f].caller \in B /\ node[f].caller \in Up
        BY <2>3, <2>4, <3>3
      <3>5. node[f].caller < f /\ node[f].caller \in Nat /\ f \in Nat
        BY <3>3, <3>4, UpwardsIs
      <3>6. node[f].caller \notin bad
        BY <3>2, <3>5
      <3>7. top[f] = top[node[f].caller] /\ (base[f] = f \/ base[f] = base[node[f].caller])
        BY <3>3, UpwardsIs
      <3> QED
        BY <3>2, <3>3, <3>4, <3>6, <3>7
    <2> QED
      BY <2>3, <2>4, <2>5, <2>6 DEF B
  <1>3. D \in SUBSET Up
    BY <1>2
  <1>4. \A f \in Frames : Interrupted(node, C)[f] =
                    IF f \in D THEN [node[f] EXCEPT !.status = "interrupted"] ELSE node[f]
    BY DEF Interrupted, roots
  <1>5. \A f \in below : node[f].status # "paused"
    <2>1. ASSUME NEW r \in roots, NEW f \in Below(node, r), node[f].status = "paused" PROVE FALSE
      <3>1. f \in Up /\ f \in Frames /\ top[f] = top[x]
        BY <1>2, <2>1, UpwardsIs
      <3>2. top[x] \in Paused /\ ~Runs(top[x])
        BY <2>1, <3>1 DEF Inv, Places
      <3>3. top[x] = top[l]
        <4>1. CASE x = Main
          BY <4>1 DEF Inv, Bases
        <4>2. CASE x # Main
          <5>1. x \in Frames /\ Used(x)
            <6>1. x \in Frames
              BY <4>2, FramesAre
            <6>2. \E f1 \in Up : node[f1].caller = x
              BY <1>1, <2>1
            <6> QED
              BY <4>2, <6>1, <6>2 DEF Inv, Tree
          <5> QED
            BY <5>1 DEF Inv, Places
        <4> QED
          BY <4>1, <4>2
      <3>4. CASE Runs(l)
        BY <3>2, <3>3, <3>4 DEF Inv, Places
      <3>5. CASE l = Main
        BY <3>2, <3>3, <3>5, FramesAre DEF Inv, Places
      <3> QED
        BY <3>4, <3>5
    <2> QED
      BY <2>1
  <1>6. \A f \in Serving : f \in D <=> node[f].caller \in D
    <2>1. ASSUME NEW f \in Serving, node[f].caller \in D PROVE f \in D
      <3>1. f \in Up /\ f \in Frames /\ Lives(f)
        BY UpwardsIs DEF Serving
      <3>2. f \in below
        BY <1>2, <2>1, <3>1
      <3> QED
        BY <1>5, <3>1, <3>2 DEF Lives, Live
    <2>2. ASSUME NEW f \in Serving, f \in D PROVE node[f].caller \in D
      <3>1. f \in Up /\ node[f].kind = "serial"
        BY DEF Serving
      <3>2. PICK r \in roots : f \in Below(node, r)
        BY <2>2
      <3>3. node[r].kind = "concurrent"
        BY DEF roots
      <3>4. node[f].caller \in Below(node, r) /\ node[f].caller \in Up
        BY <1>2, <3>1, <3>2, <3>3
      <3>5. node[f].caller \in Temps /\ node[f].caller \in Frames
        BY <3>4, UpwardsIs
      <3>6. node[node[f].caller].status = "suspended"
        BY <3>5 DEF Inv, Waits
      <3> QED
        BY <3>4, <3>5, <3>6
    <2> QED
      BY <2>1, <2>2
  <1>7. ASSUME NEW m \in Scopes, Runs(m), loop[m].at \in D PROVE m \in Nested(l)
    <2>1. Runs(l) /\ loop[l].pc # "resuming"
      <3>1. CASE l = Main /\ ~Runs(Main)
        <4>1. m # Main
          BY <1>7, <3>1
        <4> QED
          BY <1>7, <3>1, <4>1, Quiet, FramesAre DEF Runs, Alive
      <3> QED
        BY <3>1
    <2>2. PICK r \in roots : loop[m].at \in Below(node, r)
      BY <1>7
    <2>3. m \in Below(node, r) /\ loop[m].pc # "off"
      <3>1. base[loop[m].at] = m
        BY <1>7 DEF Inv, Bases
      <3> QED
        BY <1>2, <1>7, <2>2, <3>1 DEF Runs, Alive
    <2>4. \A k \in Nested(l) \cup {l} : loop[k].kids \subseteq Nested(l)
      BY <2>1, NestedAre
    <2> DEFINE bad == {k \in Below(node, r) : loop[k].pc # "off" /\ k \notin Nested(l)}
    <2>5. SUFFICES ASSUME bad # {} PROVE FALSE
      BY <2>3
    <2>6. PICK k \in bad : \A g \in bad : k <= g
      <3>1. bad \subseteq Frames
        BY <1>2, FramesAre DEF Up
      <3> QED
        BY <2>5, <3>1, FirstIs
    <2>7. k \in Up /\ k \in Below(node, r) /\ loop[k].pc # "off" /\ k \in Temps
      BY <1>2, <2>6, UpwardsIs
    <2>8. PICK n \in Scopes : k \in loop[n].kids
      BY <2>7 DEF Inv, Loops
    <2>9. base[node[k].caller] = n /\ Runs(n)
      BY <2>8 DEF Inv, Loops
    <2>10. CASE k = r
      <3>1. n = l
        BY <1>1, <2>9, <2>10
      <3> QED
        BY <2>4, <2>6, <2>8, <3>1
    <2>11. CASE k # r
      <3>1. node[k].caller \in Below(node, r) /\ node[k].caller \in Up /\ n \in Below(node, r) /\ n \in Up
        BY <1>2, <2>7, <2>9, <2>11
      <3>2. node[k].caller < k /\ node[k].caller \in Nat /\ k \in Nat
        BY <2>7, <3>1, UpwardsIs
      <3>3. n <= node[k].caller /\ n \in Nat
        <4>1. n \notin Tops
          BY <3>1, UpwardsIs
        <4> QED
          BY <2>9, <3>1, <4>1, BaseIs, UpwardsIs
      <3>4. n \notin bad
        BY <2>6, <3>2, <3>3
      <3>5. n \in Nested(l)
        BY <2>9, <3>1, <3>4 DEF Runs, Alive
      <3> QED
        BY <2>4, <2>6, <2>8, <3>5
    <2> QED
      BY <2>10, <2>11
  <1>8. x \notin D
    <2>1. ASSUME x \in D PROVE FALSE
      <3>1. PICK r \in roots : x \in Below(node, r)
        BY <2>1
      <3>2. x \in Up /\ base[x] \in Below(node, r) /\ node[r].caller = x /\ r \in Up
        BY <1>1, <1>2, <3>1
      <3>3. x < r /\ x \in Nat /\ r \in Nat
        BY <3>2, UpwardsIs
      <3>4. \A f \in Below(node, r) : r <= f
        <4> DEFINE bad == {f \in Below(node, r) : ~(r <= f)}
        <4>1. SUFFICES ASSUME bad # {} PROVE FALSE
          OBVIOUS
        <4>2. PICK f \in bad : \A g \in bad : f <= g
          <5>1. bad \subseteq Frames
            BY <1>2, FramesAre DEF Up
          <5> QED
            BY <4>1, <5>1, FirstIs
        <4>3. f # r /\ f \in Up /\ node[f].caller \in Below(node, r) /\ node[f].caller \in Up
          BY <1>2, <3>3, <4>2
        <4>4. node[f].caller < f /\ node[f].caller \in Nat /\ f \in Nat
          BY <4>3, UpwardsIs
        <4>5. node[f].caller \notin bad
          BY <4>2, <4>4
        <4> QED
          BY <3>3, <4>2, <4>3, <4>4, <4>5
      <3> QED
        BY <3>1, <3>3, <3>4
    <2> QED
      BY <2>1
  <1> HIDE DEF D
  <1> QED
    BY <1>3, <1>4, <1>6, <1>7, <1>8 DEF Interrupts

\* The frames of discarded programs.
LEMMA DiscardedIs ==
    ASSUME NEW base \in [Scopes -> Scopes], NEW top \in [Scopes -> Scopes], Inv(base, top),
           NEW R, R \subseteq Paused, NEW D, D = Discarded(node, R)
    PROVE  /\ D \subseteq Frames /\ \A f \in D : Used(f) /\ Lives(f) /\ top[f] \in R
           /\ \A f \in Serving : f \in D <=> node[f].caller \in D
           /\ \A q \in Paused : q \in D <=> q \in R /\ Lives(q)
  <1>0. node \in [Frames -> Node] /\ Opened(node) = Up /\ Paused \subseteq Scopes
    BY UpIs, FramesAre DEF Inv, TypeOK
  <1>1. D = {f \in UNION {Chain(node, p) : p \in R} : Lives(f)}
    BY DEF Discarded, Lives
  <1>2. ASSUME NEW p \in R
        PROVE  /\ p \in Chain(node, p) /\ Chain(node, p) \subseteq Scopes
               /\ \A f \in Up : node[f].caller \in Chain(node, p) => f \in Chain(node, p)
               /\ \A f \in Chain(node, p) : top[f] = p
               /\ \A f \in Chain(node, p) \ {p} : f \in Up /\ node[f].caller \in Chain(node, p)
    <2>1. p \in Scopes /\ p \in Paused
      BY <1>0
    <2>2. /\ p \in Chain(node, p) /\ Chain(node, p) \subseteq Scopes
          /\ \A f \in Up : node[f].caller \in Chain(node, p) => f \in Chain(node, p)
          /\ \A T \in SUBSET Scopes :
                 p \in T /\ (\A f \in Up : node[f].caller \in T => f \in T)
                    => Chain(node, p) \subseteq T
          /\ \A f \in Chain(node, p) \ {p} : f \in Up /\ node[f].caller \in Chain(node, p)
      BY <1>0, <2>1, ChainIs
    <2> DEFINE T == {y \in Scopes : top[y] = p}
    <2>3. p \in T
      BY <2>1 DEF Inv, Places
    <2>4. \A f \in Up : node[f].caller \in T => f \in T
      BY UpwardsIs
    <2>5. Chain(node, p) \subseteq T
      <3> HIDE DEF T
      <3>1. T \in SUBSET Scopes
        BY DEF T
      <3> QED
        BY <2>2, <2>3, <2>4, <3>1
    <2> QED
      BY <2>2, <2>5
  <1>3. Main \notin UNION {Chain(node, p) : p \in R}
    <2>1. top[Main] = Main
      BY DEF Inv, Places
    <2> QED
      BY <1>2, <2>1, FramesAre
  <1>4. D \subseteq Frames /\ \A f \in D : Used(f) /\ Lives(f) /\ top[f] \in R
    <2>1. D \subseteq Frames
      BY <1>1, <1>2, <1>3, FramesAre
    <2> QED
      BY <1>1, <1>2, <2>1 DEF Used, Lives, Live
  <1>5. ASSUME NEW f \in Serving PROVE f \in D <=> node[f].caller \in D
    <2>1. f \in Up /\ Lives(f) /\ f \in Frames /\ f \notin Paused
      <3>1. f \in Up /\ Lives(f)
        BY DEF Serving
      <3>2. f \in Temps /\ f \in Frames
        BY <3>1, FramesAre DEF Up
      <3> QED
        BY <3>1, <3>2, FramesAre
    <2>2. ASSUME node[f].caller \in D PROVE f \in D
      BY <1>1, <1>2, <2>1, <2>2
    <2>3. ASSUME f \in D PROVE node[f].caller \in D
      <3>1. PICK p \in R : f \in Chain(node, p)
        BY <1>1, <2>3
      <3>2. f # p
        BY <2>1
      <3>3. node[f].caller \in Chain(node, p)
        BY <1>2, <3>1, <3>2
      <3>4. node[f].caller # Main /\ node[f].caller \in Scopes
        BY <1>3, <2>1, <3>3, UpwardsIs
      <3>5. Lives(node[f].caller)
        BY <3>4, FramesAre DEF Inv, Waits, Lives, Live
      <3> QED
        BY <1>1, <3>3, <3>5
    <2> QED
      BY <2>2, <2>3
  <1>6. \A q \in Paused : q \in D <=> q \in R /\ Lives(q)
    <2>1. \A q \in Paused : q \notin Up
      BY FramesAre DEF Up
    <2>2. \A q \in Paused : q \in D => q \in R
      BY <1>1, <1>2, <2>1
    <2> QED
      BY <1>1, <1>2, <2>2
  <1> QED
    BY <1>4, <1>5, <1>6

-----------------------------------------------------------------------------
(* A window that ends, a loop that fails.                                  *)

\* A loop past its check runs its frame.
LEMMA RunningAt ==
    ASSUME NEW base \in [Scopes -> Scopes], NEW top \in [Scopes -> Scopes], Inv(base, top),
           NEW l \in Scopes, Runs(l), loop[l].pc \notin {"check", "join"}
    PROVE  /\ Running(loop[l].at)
           /\ loop[l].at = Main => l = Main /\ main = "running"
           /\ loop[l].at # Main => node[loop[l].at].status = "running"
           /\ \A f \in Serving : node[f].caller # loop[l].at
           /\ loop[l].at \in Paused => l = loop[l].at
           /\ loop[l].at \in Up /\ node[loop[l].at].kind = "concurrent" => l = loop[l].at
           /\ loop[l].at \in {Main} \cup Paused \cup Up
           /\ ~Saving \/ l = Main
  <1> DEFINE x == loop[l].at
  <1>1. Running(x)
    BY DEF Inv, Places, Pausing
  <1>2. x = Main => l = Main
    BY AtIs
  <1>3. x \in Scopes /\ (x \in Frames => Used(x))
    BY AtIs
  <1>4. ASSUME NEW f \in Serving, node[f].caller = x PROVE FALSE
    <2>1. f \in Up /\ top[f] = top[x]
      BY <1>4, UpwardsIs DEF Serving
    <2>2. CASE x = Main
      BY <1>1, <1>4, <2>2 DEF Inv, Waits, Running
    <2>3. CASE x \in Temps
      BY <1>1, <1>4, <2>3, FramesAre DEF Inv, Waits, Running
    <2>4. CASE x \in Paused
      <3>1. win[x].call = node[f].call /\ node[f].call # None /\ f \in Up /\ Lives(f)
        BY <1>4, <2>1, UpwardsIs DEF Inv, Waits, Serving
      <3> QED
        BY <2>4, <3>1, FramesAre DEF Inv, Leaves
    <2> QED
      BY <1>3, <2>2, <2>3, <2>4, FramesAre
  <1>5. base[x] = l
    BY DEF Inv, Bases
  <1>6. x \in Paused => l = x
    BY <1>5 DEF Inv, Bases
  <1>7. x \in Up /\ node[x].kind = "concurrent" => l = x
    BY <1>5 DEF Inv, Bases
  <1>8. ~Saving \/ l = Main
    BY SavingIsQuiet, FramesAre
  <1> QED
    BY <1>1, <1>2, <1>3, <1>4, <1>6, <1>7, <1>8, FramesAre DEF Running, Up

LEMMA EndedWindow ==
    ASSUME NEW base \in [Scopes -> Scopes], NEW top \in [Scopes -> Scopes],
           Inv(base, top), TypeOK', NEW l \in Scopes, Runs(l), NEW x, x = loop[l].at,
           W(l).prog \in {"none", "ready"},
           NEW w, w = [W(l) EXCEPT !.prog = "none", !.inflight = {}]
    PROVE  /\ w.there /\ w.prog = "none" /\ w.call = None /\ w.inflight = {}
           /\ w.resumable = win[x].resumable
           /\ win[x].there /\ win[x].call \in recorded \cup {None}
  <1>1. /\ x \in Scopes /\ win[x].there /\ W(l) \in Window /\ W(l).there
        /\ W(l).resumable = win[x].resumable
        /\ IF win[x].prog = "call" /\ win[x].call \in recorded
           THEN W(l).prog = "ready" /\ W(l).call = None
           ELSE W(l).prog = win[x].prog /\ W(l).call = win[x].call
    BY SeesIs
  <1>2. win[x].prog = "call" <=> win[x].call # None
    BY <1>1 DEF Inv, Windows
  <1> QED
    BY <1>1, <1>2 DEF Window

LEMMA RepliesKeep ==
    ASSUME NEW base \in [Scopes -> Scopes], NEW top \in [Scopes -> Scopes],
           Inv(base, top), TypeOK', NEW l \in Scopes,
           AIReplies(l) \/ ProgramReturns(l) \/ ProgramThrows(l),
           ~ (IsFunction(loop[l].at) /\ node[loop[l].at].kind = "serial")
    PROVE  Inv(base, top)'
  <1> DEFINE x == loop[l].at
             w == [W(l) EXCEPT !.prog = "none", !.inflight = {}]
             N == Nested(l)
  <1>1. /\ loop[l].pc = "step" /\ Runs(l) /\ W(l).prog \in {"none", "ready"}
        /\ Reply(l) /\ Take(l)
        /\ UNCHANGED <<called, sent, crashes, torn>>
    BY DEF AIReplies, ProgramReturns, ProgramThrows, Steps, Runs, Alive, tally
  <1>2. /\ w.there /\ w.prog = "none" /\ w.call = None /\ w.inflight = {}
        /\ w.resumable = win[x].resumable
        /\ win[x].there /\ win[x].call \in recorded \cup {None}
    BY <1>1, EndedWindow, Zenon
  <1>3. /\ Running(x) /\ (x = Main => l = Main /\ main = "running")
        /\ (x # Main => node[x].status = "running")
        /\ \A f \in Serving : node[f].caller # x
        /\ x \in Paused => l = x
        /\ x \in Up /\ node[x].kind = "concurrent" => l = x
        /\ x \in {Main} \cup Paused \cup Up
    BY <1>1, RunningAt
  <1>4. /\ x \in Scopes /\ win \in [Scopes -> Window] /\ node \in [Frames -> Node]
        /\ Take(l) => pending' = pending \/ (pending' = FALSE /\ l \in Tops)
    BY <1>1, SeesIs DEF Inv, TypeOK
  <1>5. x \in Up => x \in Temps /\ x \in Frames /\ x \notin Paused /\ x # Main
    BY FramesAre DEF Up
  <1> HIDE DEF w, N
  <1> DEFINE Ends(K, pc) ==
        /\ End(l, pc)
        /\ \/ pc = "answered" /\ l \in Tops /\ K = {}
           \/ pc = "ended" /\ l \in Temps /\ K = {x} /\ x = l
        /\ win' = [win EXCEPT ![x] = w]
        /\ node' = [f \in Frames |-> IF f \in K THEN [node[f] EXCEPT !.status = "done"] ELSE node[f]]
        /\ recorded' = recorded \cup {node[f].call : f \in K}
        /\ main' = main \/ (main = "running" /\ main' = "done" /\ l = Main /\ pc = "answered")
  <1>60. \E K, pc : Ends(K, pc)
    <2>1. CASE x = Main
      <3>1. End(l, "answered") /\ l \in Tops /\ node' = node /\ recorded' = recorded
            /\ win' = [win EXCEPT ![x] = w] /\ main' = "done" /\ main = "running" /\ l = Main
        BY <1>1, <1>3, <2>1 DEF Reply, Put, w, IsFunction, Tops
      <3>2. node' = [f \in Frames |-> IF f \in {} THEN [node[f] EXCEPT !.status = "done"] ELSE node[f]]
        BY <1>4, <3>1
      <3>3. recorded' = recorded \cup {node[f].call : f \in {}}
        BY <3>1
      <3>4. Ends({}, "answered")
        BY <3>1, <3>2, <3>3
      <3> HIDE DEF Ends
      <3> QED
        BY <3>4
    <2>2. CASE x \in Paused
      <3>1. node[x].kind = "previous" /\ x # Main
        BY <1>1, <2>2, AtIs, FramesAre DEF Inv, Tree
      <3>2. End(l, "answered") /\ l \in Tops /\ node' = node /\ recorded' = recorded
            /\ win' = [win EXCEPT ![x] = w] /\ main' = main
        BY <1>1, <1>3, <2>2, <3>1 DEF Reply, Put, w, IsFunction, Tops
      <3>3. node' = [f \in Frames |-> IF f \in {} THEN [node[f] EXCEPT !.status = "done"] ELSE node[f]]
        BY <1>4, <3>2
      <3>4. recorded' = recorded \cup {node[f].call : f \in {}}
        BY <3>2
      <3>5. Ends({}, "answered")
        BY <3>2, <3>3, <3>4
      <3> HIDE DEF Ends
      <3> QED
        BY <3>5
    <2>3. CASE x \in Up
      <3>1. node[x].kind = "concurrent" /\ x # Main /\ x \in Frames
        BY <1>1, <1>5, <2>3 DEF IsFunction, Inv, Tree
      <3>2. End(l, "ended") /\ node' = [node EXCEPT ![x].status = "done"]
            /\ recorded' = recorded \cup {node[x].call} /\ win' = [win EXCEPT ![x] = w] /\ main' = main
        BY <1>1, <1>3, <3>1 DEF Reply, Put, w, IsFunction, FinishFrame
      <3>3. node' = [f \in Frames |-> IF f \in {x} THEN [node[f] EXCEPT !.status = "done"] ELSE node[f]]
        BY <1>4, <3>1, <3>2
      <3>4. recorded' = recorded \cup {node[f].call : f \in {x}} /\ x = l /\ l \in Temps
        BY <1>3, <1>5, <2>3, <3>1, <3>2
      <3>5. Ends({x}, "ended")
        BY <3>2, <3>3, <3>4
      <3> HIDE DEF Ends
      <3> QED
        BY <3>5
    <2> HIDE DEF Ends
    <2> QED
      BY <1>3, <2>1, <2>2, <2>3
  <1>61. PICK K, pc : Ends(K, pc)
    <2> HIDE DEF Ends
    <2> QED
      BY <1>60
  <1>6. /\ End(l, pc)
        /\ \/ pc = "answered" /\ l \in Tops /\ K = {}
           \/ pc = "ended" /\ l \in Temps /\ K = {x} /\ x = l
        /\ win' = [win EXCEPT ![x] = w]
        /\ node' = [f \in Frames |-> IF f \in K THEN [node[f] EXCEPT !.status = "done"] ELSE node[f]]
        /\ recorded' = recorded \cup {node[f].call : f \in K}
        /\ main' = main \/ (main = "running" /\ main' = "done" /\ l = Main /\ pc = "answered")
    BY <1>61
  <1> HIDE DEF Ends
  <1>7. /\ N \subseteq Frames /\ l \notin N /\ N \subseteq Up
        /\ \A k \in Scopes \ (N \cup {l}) : loop'[k] = loop[k]
        /\ \A k \in N : loop'[k] = Off
        /\ loop'[l].pc = pc /\ loop'[l].at = loop[l].at /\ loop'[l].kids = {}
        /\ loop[l].kids \subseteq N /\ \A k \in N : loop[k].kids \subseteq N
        /\ \A k \in Scopes \ (N \cup {l}) : loop[k].kids \cap N = {}
        /\ l \in Tops => \A m \in Temps : loop[m].pc # "off" /\ top[m] = l => m \in N
    BY <1>1, <1>6, EndIs DEF N
  <1>8. /\ K \subseteq Frames /\ K \subseteq Up /\ \A f \in K : Used(f)
        /\ \A f \in Serving : f \in K <=> node[f].caller \in K
    <2>1. CASE K = {}
      BY <2>1
    <2>2. CASE K = {x} /\ x = l /\ l \in Temps
      <3>1. x \in Up /\ node[x].kind = "concurrent"
        <4>1. x \in Up
          BY <1>3, <2>2, FramesAre
        <4> QED
          BY <1>1, <1>5, <4>1, <2>2, FramesAre DEF Inv, Loops, Runs, Alive
      <3> QED
        BY <1>3, <1>5, <2>2, <3>1 DEF Serving, Up
    <2> QED
      BY <1>6, <2>1, <2>2
  <1>9. ASSUME NEW m \in Scopes, Runs(m)' PROVE loop[m].at \notin K
    <2>1. loop'[m].pc \in Alive
      BY <1>9 DEF Runs
    <2>2. m # l
      BY <1>6, <1>7, <2>1 DEF Alive
    <2>3. m \notin N
      BY <1>7, <2>1 DEF Alive, Off
    <2>4. Runs(m)
      BY <1>7, <2>1, <2>2, <2>3 DEF Runs
    <2>5. loop[m].at # x
      BY <1>1, <2>2, <2>4, AtIs
    <2> QED
      BY <1>6, <2>5
  <1>10. \A y \in Scopes :
          \/ win'[y] = win[y] /\ y \notin K \cap Paused
          \/ win'[y] = NoWindow /\ y \in K
          \/ /\ y = loop[l].at /\ y \notin K \cap Paused /\ win'[y].there = win[y].there
             /\ win[y].there
             /\ win'[y].prog = "call" <=> win'[y].call # None
             /\ win'[y].call = win[y].call
                \/ (win'[y].call = None /\ win[y].call \in recorded \cup {None})
             /\ win'[y].inflight \subseteq win[y].inflight
             /\ win'[y].resumable \in {None, win[y].resumable}
    <2>1. K \cap Paused = {}
      BY <1>8, FramesAre DEF Up
    <2>2. ASSUME NEW y \in Scopes, y # x PROVE win'[y] = win[y]
      BY <1>4, <1>6, <2>2
    <2>3. win'[x] = w /\ x \notin K \cap Paused
      BY <1>4, <1>6, <2>1
    <2>4. ASSUME NEW y \in Scopes, y = x
          PROVE  /\ y = loop[l].at /\ y \notin K \cap Paused /\ win'[y].there = win[y].there
                 /\ win[y].there
                 /\ win'[y].prog = "call" <=> win'[y].call # None
                 /\ win'[y].call = win[y].call
                    \/ (win'[y].call = None /\ win[y].call \in recorded \cup {None})
                 /\ win'[y].inflight \subseteq win[y].inflight
                 /\ win'[y].resumable \in {None, win[y].resumable}
      BY <1>2, <2>3, <2>4
    <2>5. \A y \in Scopes : y # x => win'[y] = win[y] /\ y \notin K \cap Paused
      BY <2>1, <2>2
    <2> QED
      BY <2>4, <2>5
  <1>11. /\ win'[Main].prog # "none" => win[Main].prog # "none"
         /\ pc = "answered" => win'[loop[l].at].prog = "none"
    <2>1. win'[x] = w
      BY <1>4, <1>6
    <2>2. x # Main => win'[Main] = win[Main]
      BY <1>4, <1>6, FramesAre
    <2> QED
      BY <1>2, <2>1, <2>2
  <1>12. /\ \A f \in Frames \ K : node'[f] = node[f]
         /\ \A f \in K : node'[f] = [node[f] EXCEPT !.status = IF f \in K THEN "done" ELSE "interrupted"]
         /\ recorded' = recorded \cup {node[f].call : f \in K \cap Up}
    BY <1>6, <1>8
  <1>13. Kills(top, l, K, K, N, pc)
    BY <1>1, <1>4, <1>6, <1>7, <1>8, <1>9, <1>10, <1>11, <1>12 DEF Kills
  <1> QED
    BY <1>13, KillsKeep

LEMMA FailKeeps ==
    ASSUME NEW base \in [Scopes -> Scopes], NEW top \in [Scopes -> Scopes],
           Inv(base, top), TypeOK', NEW l \in Scopes, Fail(l), Hears(l)
    PROVE  Inv(base, top)'
  <1> DEFINE N == Nested(l)
  <1>1. /\ loop[l].pc \in {"step", "enter", "spawn"} /\ Runs(l) /\ End(l, "failed")
        /\ node' = node /\ win' = win /\ recorded' = recorded /\ main' = main /\ pending' = pending
        /\ UNCHANGED <<called, sent, crashes, torn>>
    BY DEF Fail, tally, Runs, Alive
  <1>2. l \in Tops
    BY <1>1, SeesIs
  <1> HIDE DEF N
  <1>3. /\ N \subseteq Frames /\ l \notin N /\ N \subseteq Up
        /\ \A k \in Scopes \ (N \cup {l}) : loop'[k] = loop[k]
        /\ \A k \in N : loop'[k] = Off
        /\ loop'[l].pc = "failed" /\ loop'[l].at = loop[l].at /\ loop'[l].kids = {}
        /\ loop[l].kids \subseteq N /\ \A k \in N : loop[k].kids \subseteq N
        /\ \A k \in Scopes \ (N \cup {l}) : loop[k].kids \cap N = {}
        /\ l \in Tops => \A m \in Temps : loop[m].pc # "off" /\ top[m] = l => m \in N
    BY <1>1, EndIs DEF N
  <1>4. recorded' = recorded \cup {node[f].call : f \in {} \cap Up}
    BY <1>1
  <1>5. Kills(top, l, {}, {}, N, "failed")
    BY <1>1, <1>2, <1>3, <1>4 DEF Kills
  <1> QED
    BY <1>5, KillsKeep

-----------------------------------------------------------------------------
(* A concurrent call that cannot finish.                                   *)

\* The frames between a loop's first one and the one it is in.
LEMMA StackIs ==
    ASSUME NEW base \in [Scopes -> Scopes], NEW top \in [Scopes -> Scopes], Inv(base, top),
           NEW l \in Temps, Runs(l), loop[l].pc \notin {"check", "join"}
    PROVE  /\ Stack(l) \subseteq Up /\ l \in Stack(l) /\ loop[l].at \in Stack(l)
           /\ \A f \in Stack(l) : Lives(f) /\ base[f] = l
           /\ \A f \in Serving : f \in Stack(l) <=> node[f].caller \in Stack(l)
  <1> DEFINE x == loop[l].at
             P == {y \in Up : base[y] = l /\ Lives(y)}
  <1>1. node \in [Frames -> Node] /\ Opened(node) = Up /\ l \in Scopes /\ l \in Frames
    BY UpIs, FramesAre DEF Inv, TypeOK
  <1>2. /\ l \in Up /\ node[l].kind = "concurrent" /\ l \in Nat /\ l \notin Tops
        /\ node[l].caller \in Nat /\ (node[l].caller \in Up => node[l].caller < l)
        /\ base[l] = l
    <2>1. l \in Up /\ node[l].kind = "concurrent" /\ base[l] = l
      BY Climb DEF Runs, Alive
    <2> QED
      BY <2>1, UpwardsIs
  <1>3. /\ x \in P /\ x \in Scopes /\ x \in Up /\ \A f \in Serving : node[f].caller # x
    <2>1. /\ x \in Scopes /\ base[x] = l /\ (x = Main \/ Lives(x)) /\ (x = Main => l = Main)
          /\ x \in {Main} \cup Paused \cup Up /\ (x \in Paused => l = x)
          /\ \A f \in Serving : node[f].caller # x
      BY <1>1, AtIs, RunningAt DEF Inv, Bases
    <2> QED
      BY <1>1, <2>1, FramesAre
  <1>4. ASSUME NEW p \in Scopes
        PROVE  /\ p \in Chain(node, p) /\ Chain(node, p) \subseteq Scopes
               /\ \A f \in Up : node[f].caller \in Chain(node, p) => f \in Chain(node, p)
               /\ \A T \in SUBSET Scopes :
                     p \in T /\ (\A f \in Up : node[f].caller \in T => f \in T)
                        => Chain(node, p) \subseteq T
               /\ \A f \in Chain(node, p) \ {p} : f \in Up /\ node[f].caller \in Chain(node, p)
    BY <1>1, ChainIs
  <1>5. Chain(node, l) \subseteq {y \in Up : l <= y}
    <2> DEFINE T == {y \in Up : l <= y}
    <2>1. T \in SUBSET Scopes /\ l \in T
      BY <1>2, FramesAre DEF Up
    <2>2. ASSUME NEW f \in Up, node[f].caller \in T PROVE f \in T
      <3>1. f \in Nat /\ node[f].caller \in Nat /\ node[f].caller < f
        BY <2>2, UpwardsIs
      <3> QED
        BY <1>2, <2>2, <3>1
    <2> HIDE DEF T
    <2>3. Chain(node, l) \subseteq T
      BY <1>1, <1>4, <2>1, <2>2
    <2> QED
      BY <2>3 DEF T
  <1>6. ASSUME NEW f \in P, f # l
        PROVE  f \in Serving /\ node[f].caller \in P /\ node[f].caller < f
    <2>1. f \in Up /\ base[f] = l /\ Lives(f)
      OBVIOUS
    <2>2. node[f].kind = "serial" /\ base[node[f].caller] = l
      BY <1>6, <2>1, UpwardsIs
    <2>3. f \in Serving
      BY <2>1, <2>2 DEF Serving
    <2>4. node[f].caller \in Up /\ node[f].caller < f
      <3>1. node[f].caller \notin Tops
        BY <1>2, <2>2 DEF Inv, Bases, Tops
      <3> QED
        BY <2>1, <3>1, UpwardsIs
    <2>5. Lives(node[f].caller)
      BY <2>3, <2>4 DEF Inv, Waits, Up, Lives, Live
    <2> QED
      BY <2>2, <2>3, <2>4, <2>5
  <1>7. ASSUME NEW g \in Chain(node, l)
        PROVE  g \in Scopes /\ Chain(node, g) \subseteq Chain(node, l) /\ (x \in Chain(node, g) => g \in P)
    <2>1. g \in Scopes
      BY <1>1, <1>4
    <2>2. Chain(node, g) \subseteq Chain(node, l)
      <3>1. Chain(node, l) \in SUBSET Scopes
        BY <1>1, <1>4
      <3> QED
        BY <1>1, <1>4, <2>1, <3>1
    <2>3. ASSUME x \in Chain(node, g), g \notin P PROVE FALSE
      <3> DEFINE T == {y \in Chain(node, g) : y \notin P}
      <3>1. T \in SUBSET Scopes /\ g \in T
        BY <1>4, <2>1, <2>3
      <3>2. ASSUME NEW f \in Up, node[f].caller \in T PROVE f \in T
        <4>1. f \in Chain(node, g)
          BY <1>4, <2>1, <3>2
        <4>2. f # l
          <5>1. node[f].caller \in Chain(node, l)
            BY <2>2, <3>2
          <5>2. node[f].caller \in Up /\ l <= node[f].caller
            BY <1>5, <5>1
          <5> QED
            BY <1>2, <5>2
        <4> QED
          BY <1>6, <3>2, <4>1, <4>2
      <3> HIDE DEF T
      <3>3. Chain(node, g) \subseteq T
        BY <1>4, <2>1, <3>1, <3>2
      <3> QED
        BY <1>3, <2>3, <3>3 DEF T
    <2> QED
      BY <2>1, <2>2, <2>3
  <1>8. P \subseteq Chain(node, l)
    <2> DEFINE bad == P \ Chain(node, l)
    <2>1. SUFFICES ASSUME bad # {} PROVE FALSE
      OBVIOUS
    <2>2. PICK f \in bad : \A g \in bad : f <= g
      <3>1. bad \subseteq Frames
        BY FramesAre DEF Up
      <3> QED
        BY <2>1, <3>1, FirstIs
    <2>3. f \in Up /\ f # l
      BY <1>1, <1>4, <2>2
    <2>4. node[f].caller \in P /\ node[f].caller < f /\ f \in Nat /\ node[f].caller \in Nat
      BY <1>6, <2>2, <2>3, UpwardsIs
    <2>5. node[f].caller \in Chain(node, l)
      BY <2>2, <2>4
    <2> QED
      BY <1>1, <1>4, <2>2, <2>3, <2>5
  <1>9. \A f : f \in Stack(l) <=> f \in Chain(node, l) /\ x \in Chain(node, f)
    BY DEF Stack
  <1>10. \A f \in Stack(l) : f \in P
    BY <1>7, <1>9
  <1>11. l \in Stack(l) /\ x \in Stack(l)
    BY <1>1, <1>3, <1>4, <1>8, <1>9
  <1>12. ASSUME NEW f \in Serving, f \in Stack(l) PROVE node[f].caller \in Stack(l)
    <2>1. f \in Up /\ f # l
      BY <1>2 DEF Serving
    <2>2. node[f].caller \in Chain(node, l) /\ node[f].caller \in Scopes
      BY <1>1, <1>4, <1>9, <1>12, <2>1
    <2>3. f \in Chain(node, node[f].caller)
      BY <1>4, <2>1, <2>2
    <2>4. Chain(node, f) \subseteq Chain(node, node[f].caller)
      <3>1. f \in Scopes
        BY <2>1, UpwardsIs
      <3>2. Chain(node, node[f].caller) \in SUBSET Scopes
        BY <1>4, <2>2
      <3> QED
        BY <1>4, <2>2, <2>3, <3>1, <3>2
    <2> QED
      BY <1>9, <1>12, <2>2, <2>4
  <1>13. ASSUME NEW f \in Serving, node[f].caller \in Stack(l) PROVE f \in Stack(l)
    <2> DEFINE c == node[f].caller
               T == {c} \cup {y \in Scopes : \E g \in Up : node[g].caller = c /\ y \in Chain(node, g)}
    <2>1. f \in Up /\ c \in Scopes /\ c \in Chain(node, l) /\ x \in Chain(node, c) /\ x # c
      BY <1>3, <1>9, <1>13, UpwardsIs DEF Serving
    <2>2. T \in SUBSET Scopes /\ c \in T
      BY <2>1
    <2>3. ASSUME NEW h \in Up, node[h].caller \in T PROVE h \in T
      <3>1. h \in Scopes
        BY UpwardsIs
      <3>2. CASE node[h].caller = c
        BY <1>4, <3>1, <3>2
      <3>3. CASE node[h].caller # c
        <4>1. PICK g \in Up : node[g].caller = c /\ node[h].caller \in Chain(node, g)
          BY <2>3, <3>3
        <4>2. g \in Scopes
          BY UpwardsIs
        <4>3. h \in Chain(node, g)
          BY <1>4, <4>1, <4>2
        <4> QED
          BY <3>1, <4>1, <4>3
      <3> QED
        BY <3>2, <3>3
    <2>4. x \in T
      <3> HIDE DEF T
      <3> QED
        BY <1>4, <2>1, <2>2, <2>3
    <2>5. PICK g \in Up : node[g].caller = c /\ x \in Chain(node, g)
      BY <2>1, <2>4
    <2>6. g \in Chain(node, l)
      BY <1>1, <1>4, <2>1, <2>5
    <2>7. g \in P
      BY <1>7, <2>5, <2>6
    <2>8. g # l
      <3>1. c \in Up /\ l <= c
        BY <1>5, <2>1
      <3> QED
        BY <1>2, <2>5, <3>1
    <2>9. g \in Serving
      BY <1>6, <2>7, <2>8
    <2>10. node[g].call = node[f].call /\ node[f].call # None
      BY <2>1, <2>5, <2>9, UpwardsIs DEF Inv, Waits
    <2>11. f \in Frames /\ g \in Frames
      BY <2>1, UpwardsIs
    <2>12. g = f
      BY <2>10, <2>11 DEF Inv, CallsAreOne, CallOnce
    <2> QED
      BY <1>9, <2>5, <2>6, <2>12
  <1> QED
    BY <1>10, <1>11, <1>12, <1>13

LEMMA FailedCallKeeps ==
    ASSUME NEW base \in [Scopes -> Scopes], NEW top \in [Scopes -> Scopes],
           Inv(base, top), TypeOK', NEW l \in Scopes, Fail(l), ~Hears(l)
    PROVE  Inv(base, top)'
  <1> DEFINE N == Nested(l)
             S == Stack(l)
             x == loop[l].at
             w == [W(l) EXCEPT !.inflight = {}]
             ns == Interrupted(node, W(l).inflight)
  <1>1. /\ loop[l].pc \in {"step", "enter", "spawn"} /\ Runs(l) /\ End(l, "ended")
        /\ main' = main /\ pending' = pending
        /\ UNCHANGED <<called, sent, crashes, torn>>
        /\ FailedCall(l)
    BY DEF Fail, tally, Runs, Alive, FailedCall
  <1>2. /\ l \in Temps /\ l \in Frames
        /\ x \in Scopes /\ win[x].there /\ W(l) \in Window /\ W(l).there
        /\ W(l).resumable = win[x].resumable
        /\ W(l).inflight \subseteq win[x].inflight
        /\ IF win[x].prog = "call" /\ win[x].call \in recorded
           THEN W(l).prog = "ready" /\ W(l).call = None
           ELSE W(l).prog = win[x].prog /\ W(l).call = win[x].call
    <2>1. /\ x \in Scopes /\ win[x].there /\ W(l) \in Window /\ W(l).there
          /\ W(l).resumable = win[x].resumable
          /\ W(l).inflight = win[x].inflight \ recorded
          /\ IF win[x].prog = "call" /\ win[x].call \in recorded
             THEN W(l).prog = "ready" /\ W(l).call = None
             ELSE W(l).prog = win[x].prog /\ W(l).call = win[x].call
          /\ Hears(l) <=> l \in Tops
      BY <1>1, SeesIs
    <2>2. l \in Temps /\ l \in Frames
      BY <2>1, FramesAre DEF Tops
    <2> HIDE DEF x
    <2> QED
      BY <2>1, <2>2
  <1>3. Running(x) /\ ~Saving /\ x # Main /\ base[x] = l
    <2>1. l # Main
      BY <1>2, FramesAre
    <2>2. Running(x) /\ (x = Main => l = Main) /\ (~Saving \/ l = Main)
      BY <1>1, RunningAt
    <2>3. base[x] = l
      BY <1>1 DEF Inv, Bases
    <2> QED
      BY <2>1, <2>2, <2>3
  <1>4. /\ S \subseteq Up /\ l \in S /\ x \in S
        /\ \A f \in S : Lives(f) /\ base[f] = l
        /\ \A f \in Serving : f \in S <=> node[f].caller \in S
    BY <1>1, <1>2, StackIs
  <1>50. PICK D : Interrupts(l, x, W(l).inflight, D)
    <2>1. Runs(l) /\ loop[l].pc # "resuming"
      BY <1>1
    <2> HIDE DEF x
    <2> QED
      BY <1>2, <1>3, <2>1, InterruptedIs DEF x
  <1>5. /\ D \subseteq Up
        /\ \A f \in Frames : ns[f] =
              IF f \in D THEN [node[f] EXCEPT !.status = "interrupted"] ELSE node[f]
        /\ \A f \in Serving : f \in D <=> node[f].caller \in D
        /\ \A m \in Scopes : Runs(m) /\ loop[m].at \in D => m \in N
        /\ x \notin D
    BY <1>50 DEF Interrupts
  <1>6. /\ node' = [f \in Frames |-> IF f \in S THEN [ns[f] EXCEPT !.status = "done"] ELSE ns[f]]
        /\ recorded' = recorded \cup {node[f].call : f \in S}
        /\ win' = [y \in Scopes |-> IF y \in S \ {l} THEN NoWindow ELSE IF y = x THEN w ELSE win[y]]
    BY <1>1, <1>3 DEF FailedCall
  <1>7. /\ w.there /\ (w.prog = "call" <=> w.call # None) /\ w.inflight = {}
        /\ w.call = win[x].call \/ (w.call = None /\ win[x].call \in recorded \cup {None})
        /\ w.resumable = win[x].resumable
    <2>1. win[x].prog = "call" <=> win[x].call # None
      BY <1>2 DEF Inv, Windows
    <2> QED
      BY <1>2, <2>1 DEF Window
  <1> HIDE DEF N, S, w, ns
  <1>8. /\ N \subseteq Frames /\ l \notin N /\ N \subseteq Up
        /\ \A k \in Scopes \ (N \cup {l}) : loop'[k] = loop[k]
        /\ \A k \in N : loop'[k] = Off
        /\ loop'[l].pc = "ended" /\ loop'[l].at = loop[l].at /\ loop'[l].kids = {}
        /\ loop[l].kids \subseteq N /\ \A k \in N : loop[k].kids \subseteq N
        /\ \A k \in Scopes \ (N \cup {l}) : loop[k].kids \cap N = {}
        /\ l \in Tops => \A m \in Temps : loop[m].pc # "off" /\ top[m] = l => m \in N
    BY <1>1, EndIs DEF N
  <1> DEFINE K == S \cup D
  <1>9. /\ K \subseteq Frames /\ K \subseteq Up /\ S \subseteq K /\ \A f \in K : Used(f)
        /\ \A f \in Serving : f \in K <=> node[f].caller \in K
        /\ K \cap Paused = {} /\ S \cap Up = S
    BY <1>4, <1>5, FramesAre DEF Up
  <1>10. /\ \A f \in Frames \ K : node'[f] = node[f]
         /\ \A f \in K : node'[f] = [node[f] EXCEPT !.status = IF f \in S THEN "done" ELSE "interrupted"]
    <2>1. ASSUME NEW f \in Frames \ K PROVE node'[f] = node[f]
      BY <1>5, <1>6
    <2>2. ASSUME NEW f \in K, f \notin S PROVE node'[f] = [node[f] EXCEPT !.status = "interrupted"]
      BY <1>5, <1>6, <1>9, <2>2
    <2>3. ASSUME NEW f \in K, f \in S PROVE node'[f] = [node[f] EXCEPT !.status = "done"]
      <3>1. f \in Frames /\ node'[f] = [ns[f] EXCEPT !.status = "done"]
        BY <1>6, <1>9, <2>3
      <3>2. CASE f \in D
        <4>1. ns[f] = [node[f] EXCEPT !.status = "interrupted"]
          BY <1>5, <3>1, <3>2
        <4>2. node[f] \in Node
          BY <3>1 DEF Inv, TypeOK
        <4>3. node'[f] = [[node[f] EXCEPT !.status = "interrupted"] EXCEPT !.status = "done"]
          BY <3>1, <4>1
        <4> QED
          BY <4>2, <4>3 DEF Node
      <3>3. CASE f \notin D
        BY <1>5, <3>1, <3>3
      <3> QED
        BY <3>2, <3>3
    <2>4. ASSUME NEW f \in K
          PROVE node'[f] = [node[f] EXCEPT !.status = IF f \in S THEN "done" ELSE "interrupted"]
      BY <2>2, <2>3, <2>4
    <2> QED
      BY <2>1, <2>4
  <1>11. ASSUME NEW m \in Scopes, Runs(m)' PROVE loop[m].at \notin K
    <2>1. loop'[m].pc \in Alive
      BY <1>11 DEF Runs
    <2>2. m # l
      BY <1>8, <2>1 DEF Alive
    <2>3. m \notin N
      BY <1>8, <2>1 DEF Alive, Off
    <2>4. Runs(m)
      BY <1>8, <2>1, <2>2, <2>3 DEF Runs
    <2>5. base[loop[m].at] = m
      BY <2>4 DEF Inv, Bases
    <2> QED
      BY <1>4, <1>5, <2>2, <2>3, <2>4, <2>5
  <1>12. ASSUME NEW y \in Scopes
         PROVE
          \/ win'[y] = win[y] /\ y \notin K \cap Paused
          \/ win'[y] = NoWindow /\ y \in K
          \/ /\ y = loop[l].at /\ y \notin K \cap Paused /\ win'[y].there = win[y].there
             /\ win[y].there
             /\ win'[y].prog = "call" <=> win'[y].call # None
             /\ win'[y].call = win[y].call
                \/ (win'[y].call = None /\ win[y].call \in recorded \cup {None})
             /\ win'[y].inflight \subseteq win[y].inflight
             /\ win'[y].resumable \in {None, win[y].resumable}
    <2>1. CASE y \in S \ {l}
      BY <1>6, <2>1
    <2>2. CASE y \notin S \ {l} /\ y # x
      BY <1>6, <1>9, <2>2
    <2>3. CASE y \notin S \ {l} /\ y = x
      <3>1. win'[y] = w /\ y \notin K \cap Paused
        BY <1>6, <1>9, <2>3
      <3> QED
        BY <1>2, <1>7, <2>3, <3>1
    <2> QED
      BY <2>1, <2>2, <2>3
  <1>13. win'[Main] = win[Main]
    <2>1. Main \notin S
      BY <1>9, FramesAre DEF Up
    <2> QED
      BY <1>3, <1>6, <2>1, FramesAre
  <1>14. recorded' = recorded \cup {node[f].call : f \in S \cap Up}
    BY <1>6, <1>9
  <1> HIDE DEF K
  <1>15. Kills(top, l, K, S, N, "ended")
    BY <1>1, <1>2, <1>8, <1>9, <1>10, <1>11, <1>12, <1>13, <1>14 DEF Kills
  <1> QED
    BY <1>15, KillsKeep

=============================================================================
