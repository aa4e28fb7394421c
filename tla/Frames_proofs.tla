--------------------------- MODULE Frames_proofs ---------------------------
(***************************************************************************)
(* Proofs about Frames for any number of frames, calls, programs, messages *)
(* and turns: until a crash comes between the two writes of a pause, no    *)
(* frame returns to a caller that does not wait, no two loops run a frame, *)
(* and no call runs twice.                                                 *)
(***************************************************************************)
EXTENDS FrameStacks

-----------------------------------------------------------------------------
(* Calls that nobody runs any more, and the end of a turn.                 *)

\* A loop without calls of its own has none below it.
LEMMA NothingNested ==
    ASSUME NEW l \in Scopes, loop[l].kids = {}, loop[l].pc # "resuming"
    PROVE  Nested(l) = {}
  <1> DEFINE T == {l}
  <1>1. T \in SUBSET Scopes /\ l \in T
    OBVIOUS
  <1>2. \A m \in T, k \in Frames : k \in loop[m].kids \cup ResumedBy(m) => k \in T
    BY DEF ResumedBy
  <1>3. Nested(l) \subseteq T
    <2> HIDE DEF T
    <2> QED
      BY <1>1, <1>2, NestedIs
  <1> QED
    BY <1>3, NestedIs

\* The loop l gives up the calls C that the window w of its frame waited for.
GivesUp(l, x, C, w, pc) ==
    /\ x = loop[l].at /\ C \subseteq win[x].inflight /\ loop[l].kids = {}
    /\ \/ loop[l].pc = "waiting" /\ pc = "check"
       \/ l = Main /\ loop[l].pc = "cleanup" /\ pc = "off"
    /\ node' = Interrupted(node, C) /\ win' = [win EXCEPT ![x] = w]
    /\ loop' = [loop EXCEPT ![l].pc = pc]
    /\ w.there = win[x].there /\ win[x].there /\ w.inflight = {} /\ w.resumable = win[x].resumable
    /\ w.prog = "call" <=> w.call # None
    /\ w.call = win[x].call \/ (w.call = None /\ win[x].call \in recorded \cup {None})
    /\ w.prog # "none" => win[x].prog # "none"
    /\ UNCHANGED <<main, recorded, pending, called, sent, crashes, torn>>

LEMMA GivesUpKeeps ==
    ASSUME NEW base \in [Scopes -> Scopes], NEW top \in [Scopes -> Scopes],
           Inv(base, top), TypeOK', NEW l \in Scopes, NEW x, NEW C, NEW w, NEW pc,
           GivesUp(l, x, C, w, pc)
    PROVE  Inv(base, top)'
  <1>1. /\ x = loop[l].at /\ x \in Scopes /\ C \subseteq win[x].inflight /\ loop[l].kids = {}
        /\ loop \in [Scopes -> Loop] /\ win \in [Scopes -> Window] /\ loop[l] \in Loop
        /\ node \in [Frames -> Node]
        /\ loop[l].pc # "resuming" /\ (Runs(l) \/ (l = Main /\ ~Runs(Main)))
    BY DEF GivesUp, Inv, TypeOK, Loop, Runs, Alive
  <1>2. base[x] = l
    BY <1>1 DEF Inv, Bases
  <1>3. ~Saving
    <2>1. CASE l = Main
      BY <2>1 DEF GivesUp, Saving
    <2>2. CASE l # Main
      BY <1>1, <2>2, SavingIsQuiet, FramesAre
    <2> QED
      BY <2>1, <2>2
  <1>4. Nested(l) = {}
    BY <1>1, NothingNested
  <1>5. PICK D : Interrupts(l, x, C, D)
    BY <1>1, <1>2, <1>3, InterruptedIs
  <1>6. /\ D \subseteq Up
        /\ \A f \in Frames : node'[f] =
              IF f \in D THEN [node[f] EXCEPT !.status = "interrupted"] ELSE node[f]
        /\ \A f \in Serving : f \in D <=> node[f].caller \in D
        /\ \A m \in Scopes : Runs(m) => loop[m].at \notin D
        /\ x \notin D
    BY <1>4, <1>5 DEF Interrupts, GivesUp
  <1>7. D \subseteq Frames /\ D \cap Paused = {} /\ \A f \in D : Used(f)
    BY <1>6, FramesAre DEF Up
  <1>8. /\ \A k \in Scopes \ {l} : loop'[k] = loop[k]
        /\ loop'[l].pc = pc /\ loop'[l].at = x /\ loop'[l].kids = {}
    <2>1. loop' = [loop EXCEPT ![l] = [loop[l] EXCEPT !.pc = pc]]
      BY <1>1 DEF GivesUp
    <2> QED
      BY <1>1, <2>1 DEF Loop
  <1>9. \A m \in Scopes : Runs(m)' => loop[m].at \notin D
    <2>1. \A m \in Scopes : Runs(m)' => Runs(m)
      BY <1>8 DEF GivesUp, Runs, Alive
    <2> QED
      BY <1>6, <2>1
  <1>10. win'[x] = w /\ \A y \in Scopes \ {x} : win'[y] = win[y]
    BY <1>1 DEF GivesUp
  <1>11. \A y \in Scopes :
          \/ win'[y] = win[y] /\ y \notin D \cap Paused
          \/ win'[y] = NoWindow /\ y \in D
          \/ /\ y = loop[l].at /\ y \notin D \cap Paused /\ win'[y].there = win[y].there
             /\ win[y].there
             /\ win'[y].prog = "call" <=> win'[y].call # None
             /\ win'[y].call = win[y].call
                \/ (win'[y].call = None /\ win[y].call \in recorded \cup {None})
             /\ win'[y].inflight \subseteq win[y].inflight
             /\ win'[y].resumable \in {None, win[y].resumable}
    <2>1. \A y \in Scopes : y # x => win'[y] = win[y] /\ y \notin D \cap Paused
      BY <1>7, <1>10
    <2>2. /\ x = loop[l].at /\ x \notin D \cap Paused /\ win'[x].there = win[x].there
          /\ win[x].there
          /\ win'[x].prog = "call" <=> win'[x].call # None
          /\ win'[x].call = win[x].call
             \/ (win'[x].call = None /\ win[x].call \in recorded \cup {None})
          /\ win'[x].inflight \subseteq win[x].inflight
          /\ win'[x].resumable \in {None, win[x].resumable}
      BY <1>1, <1>6, <1>10 DEF GivesUp
    <2> QED
      BY <2>1, <2>2
  <1>12. win'[Main].prog # "none" => win[Main].prog # "none"
    BY <1>10, FramesAre DEF GivesUp
  <1>13. Kills(top, l, D, {}, {}, pc)
    <2>1. recorded' = recorded \cup {node[f].call : f \in {} \cap Up}
      BY DEF GivesUp
    <2>2. /\ \A f \in Frames \ D : node'[f] = node[f]
          /\ \A f \in D : node'[f] = [node[f] EXCEPT !.status = IF f \in {} THEN "done" ELSE "interrupted"]
      BY <1>6, <1>7
    <2> QED
      BY <1>1, <1>6, <1>7, <1>8, <1>9, <1>11, <1>12, <2>1, <2>2 DEF Kills, GivesUp
  <1> QED
    BY <1>13, KillsKeep

LEMMA GivingUpKeeps ==
    ASSUME NEW base \in [Scopes -> Scopes], NEW top \in [Scopes -> Scopes],
           Inv(base, top), TypeOK', NEW l \in Scopes, InterruptUnfinished(l)
    PROVE  Inv(base, top)'
  <1> DEFINE x == loop[l].at
             w == [win[x] EXCEPT !.inflight = {}]
  <1>1. Runs(l) /\ loop[l].pc = "waiting" /\ loop[l].kids = {}
    BY DEF InterruptUnfinished, Runs, Alive
  <1>2. x \in Scopes /\ win[x].there /\ win[x] \in Window
    BY <1>1, SeesIs
  <1>3. /\ w.there = win[x].there /\ w.inflight = {} /\ w.resumable = win[x].resumable
        /\ w.prog = win[x].prog /\ w.call = win[x].call
    BY <1>2 DEF Window
  <1>4. win[x].prog = "call" <=> win[x].call # None
    BY <1>2 DEF Inv, Windows
  <1>5. /\ node' = Interrupted(node, win[x].inflight) /\ win' = [win EXCEPT ![x] = w]
        /\ loop' = [loop EXCEPT ![l].pc = "check"]
        /\ UNCHANGED <<main, recorded, pending, called, sent, crashes, torn>>
    BY DEF InterruptUnfinished, Put, Go, tally
  <1> HIDE DEF x, w
  <1>6. x = loop[l].at
    BY DEF x
  <1>7. GivesUp(l, x, win[x].inflight, w, "check")
    BY <1>1, <1>2, <1>3, <1>4, <1>5, <1>6 DEF GivesUp
  <1> QED
    BY <1>7, GivesUpKeeps

LEMMA CleanUpKeeps ==
    ASSUME NEW base \in [Scopes -> Scopes], NEW top \in [Scopes -> Scopes],
           Inv(base, top), TypeOK', CleanUp
    PROVE  Inv(base, top)'
  <1> DEFINE x == loop[Main].at
             w0 == Recover(win[x])
             w == [w0 EXCEPT !.inflight = {}]
  <1>1. /\ loop[Main].pc = "cleanup" /\ loop[Main].kids = {} /\ Main \in Scopes
        /\ loop \in [Scopes -> Loop] /\ win \in [Scopes -> Window]
        /\ x \in Scopes /\ win[x] \in Window
    <2>1. Main \in Scopes
      BY FramesAre
    <2>2. loop[Main].pc = "cleanup"
      BY DEF CleanUp
    <2>3. loop[Main].kids = {}
      <3>1. ~Runs(Main)
        BY <2>2 DEF Runs, Alive
      <3> QED
        BY <2>1, <3>1 DEF Inv, Loops
    <2> QED
      BY <2>1, <2>2, <2>3 DEF Inv, TypeOK, Loop
  <1>2. /\ loop' = [loop EXCEPT ![Main].pc = "off"]
        /\ UNCHANGED <<main, recorded, pending, called, sent, crashes, torn>>
    BY DEF CleanUp, Go, tally
  <1>3. CASE win[x].inflight = {}
    <2>1. node' = node /\ win' = win
      BY <1>3 DEF CleanUp
    <2>2. /\ \A k \in Scopes \ {Main} : loop'[k] = loop[k]
          /\ loop'[Main].pc = "off" /\ loop'[Main].at = x /\ loop'[Main].kids = {}
      <3>1. loop' = [loop EXCEPT ![Main] = [loop[Main] EXCEPT !.pc = "off"]]
        BY <1>1, <1>2
      <3>2. loop[Main] \in Loop
        BY <1>1
      <3> QED
        BY <1>1, <3>1, <3>2 DEF Loop
    <2>3. recorded' = recorded \cup {node[f].call : f \in {} \cap Up}
      BY <1>2
    <2>4. Kills(top, Main, {}, {}, {}, "off")
      BY <1>1, <1>2, <2>1, <2>2, <2>3 DEF Kills
    <2> QED
      BY <1>1, <2>4, KillsKeep
  <1>4. CASE win[x].inflight # {}
    <2>1. /\ w0.there = win[x].there /\ w0.resumable = win[x].resumable /\ w0 \in Window
          /\ w0.inflight = win[x].inflight \ recorded
          /\ IF win[x].prog = "call" /\ win[x].call \in recorded
             THEN w0.prog = "ready" /\ w0.call = None
             ELSE w0.prog = win[x].prog /\ w0.call = win[x].call
      <3> HIDE DEF x
      <3> QED
        BY <1>1, RecoverIs, Zenon
    <2>2. win[x].there
      <3>1. ~win[x].there => win[x] = NoWindow
        BY <1>1 DEF Inv, Windows
      <3> QED
        BY <1>4, <3>1 DEF NoWindow, Fresh
    <2>3. win[x].prog = "call" <=> win[x].call # None
      BY <1>1 DEF Inv, Windows
    <2>4. node' = Interrupted(node, w0.inflight) /\ win' = [win EXCEPT ![x] = w]
      BY <1>4 DEF CleanUp, Put
    <2> HIDE DEF w0
    <2>5. /\ w.there = w0.there /\ w.prog = w0.prog /\ w.call = w0.call /\ w.inflight = {}
          /\ w.resumable = w0.resumable
      BY <2>1 DEF Window
    <2> DEFINE C == w0.inflight
    <2> HIDE DEF w, x
    <2>6. x = loop[Main].at
      BY DEF x
    <2>7. GivesUp(Main, x, C, w, "off")
      BY <1>1, <1>2, <2>1, <2>2, <2>3, <2>4, <2>5, <2>6 DEF GivesUp
    <2> HIDE DEF C
    <2> QED
      BY <1>1, <2>7, GivesUpKeeps
  <1> QED
    BY <1>3, <1>4

LEMMA EndTurnKeeps ==
    ASSUME NEW base \in [Scopes -> Scopes], NEW top \in [Scopes -> Scopes],
           Inv(base, top), TypeOK', EndTurn
    PROVE  Inv(base, top)'
  <1> DEFINE x == loop[Main].at
             D == Discarded(node, Unresumed)
             pc == IF loop[Main].pc = "answered" THEN "off" ELSE "cleanup"
             w == [win[x] EXCEPT !.resumable = None]
  <1>1. /\ loop[Main].pc \in {"answered", "failed"} /\ Main \in Scopes /\ ~Runs(Main)
        /\ loop \in [Scopes -> Loop] /\ win \in [Scopes -> Window] /\ loop[Main] \in Loop
        /\ x \in Scopes /\ win[x] \in Window /\ node \in [Frames -> Node]
    BY FramesAre DEF EndTurn, Inv, TypeOK, Runs, Alive, Loop
  <1>2. loop[Main].kids = {}
    BY <1>1 DEF Inv, Loops
  <1>3. Unresumed \subseteq Paused
    <2>1. \A f \in Frames : Live(node[f]) => Used(f)
      BY DEF Live, Used
    <2>2. \A f \in Up : node[f].kind # "previous"
      BY UpwardsIs
    <2> QED
      BY <2>1, <2>2, FramesAre DEF Unresumed, Up
  <1>4. /\ D \subseteq Frames /\ \A f \in D : Used(f)
        /\ \A f \in Serving : f \in D <=> node[f].caller \in D
    <2> HIDE DEF D
    <2> QED
      BY <1>3, DiscardedIs DEF D
  <1>5. /\ node' = Without(node, D) /\ win' = [Closed(win, D) EXCEPT ![x].resumable = None]
        /\ loop' = [loop EXCEPT ![Main].pc = pc]
        /\ UNCHANGED <<main, recorded, pending, called, sent, crashes, torn>>
    BY DEF EndTurn, Go, tally
  <1>6. x \notin Paused
    <2>1. base[x] = Main
      BY DEF Inv, Bases
    <2> QED
      BY <2>1, FramesAre DEF Inv, Bases
  <1> HIDE DEF D
  <1>7. /\ \A f \in Frames \ D : node'[f] = node[f]
        /\ \A f \in D : node'[f] = [node[f] EXCEPT !.status = "interrupted"]
    BY <1>4, <1>5 DEF Without
  <1>8. /\ \A k \in Scopes \ {Main} : loop'[k] = loop[k]
        /\ loop'[Main].pc = pc /\ loop'[Main].at = x /\ loop'[Main].kids = {}
    <2>1. loop' = [loop EXCEPT ![Main] = [loop[Main] EXCEPT !.pc = pc]]
      BY <1>1, <1>5
    <2> HIDE DEF pc
    <2> QED
      BY <1>1, <1>2, <2>1 DEF Loop
  <1>9. /\ \A y \in D \ {x} : win'[y] = NoWindow
        /\ \A y \in Scopes \ (D \cup {x}) : win'[y] = win[y]
    <2>1. Closed(win, D) \in [Scopes -> Window]
      BY <1>1 DEF Closed, NoWindow, Fresh, Window, None
    <2>2. \A y \in Scopes \ {x} : win'[y] = Closed(win, D)[y]
      BY <1>1, <1>5, <2>1
    <2> QED
      BY <1>4, <2>2, FramesAre DEF Closed
  <1>10. win'[x] = IF x \in D THEN NoWindow ELSE w
    <2>1. Closed(win, D) \in [Scopes -> Window]
      BY <1>1 DEF Closed, NoWindow, Fresh, Window, None
    <2>2. win'[x] = [Closed(win, D)[x] EXCEPT !.resumable = None]
      BY <1>1, <1>5, <2>1
    <2>3. Closed(win, D)[x] = IF x \in D THEN NoWindow ELSE win[x]
      BY <1>1 DEF Closed
    <2>4. [NoWindow EXCEPT !.resumable = None] = NoWindow
      <3>1. NoWindow \in Window /\ NoWindow.resumable = None
        BY DEF NoWindow, Fresh, Window
      <3> QED
        BY <3>1 DEF Window
    <2> QED
      BY <2>2, <2>3, <2>4
  <1>11. /\ w.there = win[x].there /\ w.inflight = win[x].inflight /\ w.resumable = None
         /\ w.prog = win[x].prog /\ w.call = win[x].call
    BY <1>1 DEF Window
  <1>12. /\ win[x].prog = "call" <=> win[x].call # None
         /\ ~win[x].there => win[x] = NoWindow
    BY <1>1 DEF Inv, Windows
  <1>13. ~win[x].there => w = win[x]
    BY <1>12 DEF NoWindow, Fresh
  <1> HIDE DEF w
  <1>14. ASSUME NEW y \in Scopes
         PROVE
          \/ win'[y] = win[y] /\ y \notin D \cap Paused
          \/ win'[y] = NoWindow /\ y \in D
          \/ /\ y = loop[Main].at /\ y \notin D \cap Paused /\ win'[y].there = win[y].there
             /\ win[y].there
             /\ win'[y].prog = "call" <=> win'[y].call # None
             /\ win'[y].call = win[y].call
                \/ (win'[y].call = None /\ win[y].call \in recorded \cup {None})
             /\ win'[y].inflight \subseteq win[y].inflight
             /\ win'[y].resumable \in {None, win[y].resumable}
    <2>1. CASE y # x
      BY <1>9, <2>1
    <2>2. CASE y = x /\ x \in D
      BY <1>10, <2>2
    <2>3. CASE y = x /\ x \notin D /\ ~win[x].there
      BY <1>10, <1>13, <2>3
    <2>4. CASE y = x /\ x \notin D /\ win[x].there
      <3>1. win'[y] = w
        BY <1>10, <2>4
      <3> QED
        BY <1>11, <1>12, <2>4, <3>1
    <2> QED
      BY <2>1, <2>2, <2>3, <2>4
  <1>15. win'[Main].prog # "none" => win[Main].prog # "none"
    <2>1. Main \notin D
      BY <1>4, FramesAre
    <2> QED
      BY <1>1, <1>9, <1>10, <1>11, <2>1
  <1>16. \A m \in Scopes : ~Runs(m)'
    <2>1. \A m \in Frames : loop[m].pc = "off"
      BY <1>1, Quiet
    <2>2. \A m \in Scopes : loop'[m].pc \in {"off", "cleanup"}
      BY <1>8, <2>1, FramesAre
    <2> QED
      BY <2>2 DEF Runs, Alive
  <1>17. recorded' = recorded \cup {node[f].call : f \in {} \cap Up}
    BY <1>5
  <1>18. pc \in {"off", "cleanup"}
    OBVIOUS
  <1> HIDE DEF pc
  <1>19. Kills(top, Main, D, {}, {}, pc)
    BY <1>1, <1>2, <1>4, <1>5, <1>7, <1>8, <1>14, <1>15, <1>16, <1>17, <1>18 DEF Kills
  <1> QED
    BY <1>1, <1>19, KillsKeep

\* What a loop that waits for a resumed program knows of it.
LEMMA ResumingIs ==
    ASSUME NEW base \in [Scopes -> Scopes], NEW top \in [Scopes -> Scopes], Inv(base, top),
           NEW l \in Scopes, loop[l].pc = "resuming", NEW p, p = win[loop[l].at].resumable
    PROVE  /\ Runs(l) /\ l \in Tops /\ loop[l].at = l /\ win[l].prog = "resume"
           /\ p \in Paused /\ p \in Frames /\ p \in Scopes /\ Used(p) /\ p # l /\ p # Main
           /\ (l # Main => p < l) /\ p \in Tops
           /\ loop[p].pc # "off"
           /\ \A m \in Scopes : Runs(m) /\ (loop[m].at = p \/ top[loop[m].at] = p) => top[m] = p
  <1> DEFINE x == loop[l].at
  <1>1. /\ Runs(l) /\ l \in Tops /\ x \in Tops /\ win[x].prog = "resume"
        /\ p # None /\ loop[p].pc # "off"
    BY DEF Runs, Alive, Inv, Hearing
  <1>2. x = l
    <2>1. base[x] = l
      BY <1>1 DEF Inv, Bases
    <2>2. base[x] = x
      BY <1>1 DEF Inv, Bases, Tops
    <2> QED
      BY <2>1, <2>2
  <1>3. p \in Paused /\ Used(p) /\ (l \in Paused => p < l)
    BY <1>1, <1>2 DEF Inv, Windows
  <1>4. p \in Frames /\ p \in Scopes /\ p # Main /\ p \in Tops /\ p \in Nat
    BY <1>3, FramesAre DEF Tops
  <1>5. p # l
    BY <1>1, <1>3, <1>4 DEF Tops
  <1>6. ASSUME NEW m \in Scopes, Runs(m), loop[m].at = p \/ top[loop[m].at] = p
        PROVE  top[m] = p
    <2>1. top[p] = p
      BY <1>3 DEF Inv, Places
    <2>2. top[loop[m].at] = p /\ base[loop[m].at] = m /\ loop[m].at \in Scopes
      BY <1>6, <2>1, AtIs DEF Inv, Bases
    <2>3. loop[m].at # Main
      BY <1>4, <2>2 DEF Inv, Places
    <2>4. loop[m].at \in Frames /\ Used(loop[m].at)
      BY <1>6, <2>2, <2>3, AtIs, FramesAre
    <2> QED
      BY <2>2, <2>4 DEF Inv, Places
  <1> QED
    BY <1>1, <1>2, <1>3, <1>4, <1>5, <1>6 DEF Tops

LEMMA ReturnedKeeps ==
    ASSUME NEW base \in [Scopes -> Scopes], NEW top \in [Scopes -> Scopes],
           Inv(base, top), TypeOK', NEW l \in Scopes, ResumeReturned(l)
    PROVE  Inv(base, top)'
  <1> DEFINE p == win[loop[l].at].resumable
             D == Discarded(node, {p})
  <1>1. /\ loop[l].pc = "resuming" /\ loop[p].pc \in {"answered", "failed"}
        /\ loop' = [loop EXCEPT ![l].pc = "resumed", ![p] = Off]
        /\ UNCHANGED <<main, recorded, pending, called, sent, crashes, torn>>
    BY DEF ResumeReturned, tally
  <1>2. /\ Runs(l) /\ l \in Tops /\ loop[l].at = l /\ win[l].prog = "resume"
        /\ p \in Paused /\ p \in Frames /\ p \in Scopes /\ Used(p) /\ p # l /\ p # Main
        /\ p \in Tops
        /\ \A m \in Scopes : Runs(m) /\ (loop[m].at = p \/ top[loop[m].at] = p) => top[m] = p
    BY <1>1, ResumingIs
  <1>3. /\ loop \in [Scopes -> Loop] /\ win \in [Scopes -> Window] /\ node \in [Frames -> Node]
        /\ loop[l] \in Loop
    BY DEF Inv, TypeOK
  <1>4. ~Runs(p) /\ loop[p].kids = {}
    <2>1. ~Runs(p)
      BY <1>1 DEF Runs, Alive
    <2> QED
      BY <1>2, <2>1 DEF Inv, Loops
  <1>5. \A m \in Scopes : Runs(m) => top[m] # p
    BY <1>2, <1>4 DEF Inv, Places
  <1>6. /\ \A k \in Scopes \ ({p} \cup {l}) : loop'[k] = loop[k]
        /\ \A k \in {p} : loop'[k] = Off
        /\ loop'[l].pc = "resumed" /\ loop'[l].at = loop[l].at /\ loop'[l].kids = loop[l].kids \ {p}
    <2> HIDE DEF p
    <2>1. loop' = [[loop EXCEPT ![l] = [loop[l] EXCEPT !.pc = "resumed"]] EXCEPT ![p] = Off]
      BY <1>1, <1>2, <1>3
    <2>2. p \notin loop[l].kids
      <3>1. loop[l].kids \subseteq Up
        BY DEF Inv, Loops
      <3> QED
        BY <1>2, <3>1, FramesAre DEF Up
    <2> DEFINE r == [loop[l] EXCEPT !.pc = "resumed"]
    <2>3. r.pc = "resumed" /\ r.at = loop[l].at /\ r.kids = loop[l].kids
      BY <1>3 DEF Loop
    <2> HIDE DEF r
    <2>4. loop' = [[loop EXCEPT ![l] = r] EXCEPT ![p] = Off]
      BY <2>1 DEF r
    <2>5. loop'[p] = Off /\ loop'[l] = r /\ \A k \in Scopes \ {p, l} : loop'[k] = loop[k]
      BY <1>2, <1>3, <2>4
    <2> QED
      BY <2>2, <2>3, <2>5
  <1>7. ASSUME NEW m \in Scopes, Runs(m)' PROVE Runs(m) /\ m # p
    BY <1>2, <1>6, <1>7 DEF Runs, Alive, Off
  <1>8. \A k \in Scopes \ ({p} \cup {l}) : loop[k].kids \cap {p} = {}
    <2>1. \A k \in Scopes : loop[k].kids \subseteq Up
      BY DEF Inv, Loops
    <2> QED
      BY <1>2, <2>1, FramesAre DEF Up
  <1>9. CASE loop[p].pc = "answered" /\ loop[p].at = p
    <2>1. node' = [node EXCEPT ![p].status = "done"] /\ win' = [win EXCEPT ![p] = NoWindow]
      BY <1>9 DEF ResumeReturned, Put
    <2> HIDE DEF p, D
    <2>2. p \notin Up
      BY <1>2, FramesAre DEF Up
    <2>3. ASSUME NEW f \in Serving PROVE f # p /\ node[f].caller # p
      <3>1. f \in Up
        BY DEF Serving
      <3>2. ASSUME node[f].caller = p PROVE FALSE
        <4>1. win[p].call = node[f].call /\ node[f].call # None
          BY <3>1, <3>2, UpwardsIs DEF Inv, Waits
        <4>2. win[p].prog = "call"
          BY <1>2, <4>1 DEF Inv, Windows
        <4>3. win[p].prog = "none"
          BY <1>2, <1>9 DEF Inv, Answers
        <4> QED
          BY <4>2, <4>3
      <3> QED
        BY <2>2, <3>1, <3>2
    <2>4. /\ \A f \in Frames \ {p} : node'[f] = node[f]
          /\ \A f \in {p} : node'[f] = [node[f] EXCEPT !.status = IF f \in {p} THEN "done" ELSE "interrupted"]
      BY <1>2, <1>3, <2>1
    <2>5. ASSUME NEW m \in Scopes, Runs(m)' PROVE loop[m].at \notin {p}
      BY <1>2, <1>5, <1>7, <2>5
    <2>6. recorded' = recorded \cup {node[f].call : f \in {p} \cap Up}
      BY <1>1, <2>2
    <2>7. win'[p] = NoWindow /\ \A y \in Scopes \ {p} : win'[y] = win[y]
      BY <1>2, <1>3, <2>1
    <2>8. p = win[loop[l].at].resumable /\ loop[l].at \in Scopes
      BY <1>2 DEF p
    <2>9. Kills(top, l, {p}, {p}, {p}, "resumed")
      <3>1. /\ {p} \subseteq Frames /\ l \notin {p} /\ \A f \in {p} : Used(f)
            /\ "resumed" \in Alive \/ loop[l].kids \subseteq {p}
            /\ \A k \in {p} : loop[k].kids \subseteq {p}
            /\ \A f \in Serving : f \in {p} <=> node[f].caller \in {p}
            /\ win'[loop[l].at] = win[loop[l].at] /\ win'[Main] = win[Main]
        BY <1>2, <1>4, <2>3, <2>7, FramesAre DEF Alive
      <3>2. \A y \in Scopes : \/ win'[y] = win[y] /\ y \notin {p} \cap Paused
                              \/ win'[y] = NoWindow /\ y \in {p}
        BY <2>7
      <3> QED
        BY <1>1, <1>2, <1>6, <1>8, <2>4, <2>5, <2>6, <2>8, <3>1, <3>2 DEF Kills, p
    <2> QED
      BY <2>9, KillsKeep
  <1>10. CASE ~ (loop[p].pc = "answered" /\ loop[p].at = p)
    <2>1. node' = Without(node, D) /\ win' = Closed(win, D)
      BY <1>10 DEF ResumeReturned
    <2>2. /\ D \subseteq Frames /\ \A f \in D : Used(f) /\ top[f] \in {p}
          /\ \A f \in Serving : f \in D <=> node[f].caller \in D
      <3> HIDE DEF p
      <3>1. {p} \subseteq Paused
        BY <1>2
      <3> HIDE DEF D
      <3> QED
        BY <3>1, DiscardedIs DEF D
    <2> HIDE DEF p, D
    <2>3. /\ \A f \in Frames \ D : node'[f] = node[f]
          /\ \A f \in D : node'[f] = [node[f] EXCEPT !.status = IF f \in {} THEN "done" ELSE "interrupted"]
      BY <2>1, <2>2 DEF Without
    <2>4. /\ \A y \in D : win'[y] = NoWindow
          /\ \A y \in Scopes \ D : win'[y] = win[y]
      BY <2>1, <2>2, FramesAre DEF Closed
    <2>5. ASSUME NEW m \in Scopes, Runs(m)', loop[m].at \in D PROVE FALSE
      BY <1>2, <1>5, <1>7, <2>2, <2>5
    <2>6. recorded' = recorded \cup {node[f].call : f \in {} \cap Up}
      BY <1>1
    <2>7. l \notin D /\ Main \notin D
      <3>1. top[l] = l
        BY <1>2 DEF Inv, Places, Tops
      <3> QED
        BY <1>2, <2>2, <3>1, FramesAre
    <2>8. p = win[loop[l].at].resumable /\ loop[l].at \in Scopes
      BY <1>2 DEF p
    <2>9. Kills(top, l, D, {}, {p}, "resumed")
      <3>1. /\ {p} \subseteq Frames /\ l \notin {p}
            /\ "resumed" \in Alive \/ loop[l].kids \subseteq {p}
            /\ \A k \in {p} : loop[k].kids \subseteq {p}
            /\ win'[loop[l].at] = win[loop[l].at] /\ win'[Main] = win[Main]
        BY <1>2, <1>4, <2>4, <2>7, FramesAre DEF Alive
      <3>2. \A y \in Scopes : \/ win'[y] = win[y] /\ y \notin D \cap Paused
                              \/ win'[y] = NoWindow /\ y \in D
        BY <2>4
      <3> QED
        BY <1>1, <1>2, <1>6, <1>8, <2>2, <2>3, <2>5, <2>6, <2>8, <3>1, <3>2 DEF Kills, p
    <2> QED
      BY <2>9, KillsKeep
  <1> QED
    BY <1>9, <1>10

-----------------------------------------------------------------------------
(* A function returns to its caller.                                       *)

\* The loop l leaves the frame x, whose call is recorded, for its caller c.
Returns(l, x, c) ==
    /\ loop[l].pc = "step" /\ x = loop[l].at /\ x \in Up /\ node[x].kind = "serial"
    /\ c = node[x].caller
    /\ node' = [f \in Frames |-> IF f = x THEN [node[x] EXCEPT !.status = "done"]
                                 ELSE IF f = c THEN [node[f] EXCEPT !.status = "running"]
                                 ELSE node[f]]
    /\ main' = IF c = Main THEN "running" ELSE main
    /\ recorded' = recorded \cup {node[x].call}
    /\ win' = [win EXCEPT ![x] = NoWindow]
    /\ loop' = [loop EXCEPT ![l].at = c, ![l].pc = "check"]
    /\ pending' = pending \/ (pending' = FALSE /\ l \in Tops)
    /\ UNCHANGED <<called, sent, crashes, torn>>

LEMMA ReturnsKeep ==
    ASSUME NEW base \in [Scopes -> Scopes], NEW top \in [Scopes -> Scopes],
           Inv(base, top), TypeOK', NEW l \in Scopes, NEW x, NEW c, Returns(l, x, c)
    PROVE  Inv(base, top)'
  <1>0. /\ node \in [Frames -> Node] /\ win \in [Scopes -> Window] /\ loop \in [Scopes -> Loop]
        /\ called \in Nat /\ pending \in BOOLEAN /\ pending' \in BOOLEAN
    BY BoundsAssumption DEF Inv, TypeOK
  <1>1. /\ Runs(l) /\ x = loop[l].at /\ x \in Up /\ x \in Frames /\ x \in Temps /\ x \in Scopes
        /\ x # Main /\ x \notin Paused /\ x \notin Tops
        /\ node[x].status = "running" /\ Lives(x) /\ Used(x)
        /\ \A f \in Serving : node[f].caller # x
        /\ ~Saving /\ x \in Serving /\ node[x].call # None
        /\ \A m \in Scopes : Runs(m) /\ m # l => loop[m].at # x
    <2>1. Runs(l) /\ loop[l].pc = "step" /\ x = loop[l].at /\ x \in Up /\ node[x].kind = "serial"
      BY DEF Returns, Runs, Alive
    <2>2. /\ x \in Frames /\ x \in Temps /\ x \in Scopes /\ x # Main /\ x \notin Paused /\ x \notin Tops
          /\ node[x].call # None /\ Used(x)
      <3>1. x \in Frames /\ x \in Temps /\ x \in Scopes /\ x \notin Tops /\ node[x].call # None /\ Used(x)
        BY <2>1, UpwardsIs
      <3> QED
        BY <3>1 DEF Tops
    <2>3. node[x].status = "running" /\ \A f \in Serving : node[f].caller # x
      BY <2>1, <2>2, RunningAt
    <2>4. Lives(x)
      BY <2>3 DEF Lives, Live
    <2>5. x \in Serving
      BY <2>1, <2>4 DEF Serving
    <2>6. ~Saving
      <3>1. l = Main => ~Saving
        BY <2>1 DEF Saving
      <3> QED
        BY <2>1, <3>1, RunningAt
    <2>7. \A m \in Scopes : Runs(m) /\ m # l => loop[m].at # x
      BY <2>1, AtIs
    <2> QED
      BY <2>1, <2>2, <2>3, <2>4, <2>5, <2>6, <2>7
  <1>2. /\ c = node[x].caller /\ c \in Scopes /\ c # x /\ base[c] = l
        /\ win[c].there /\ win[c].call = node[x].call
        /\ c \in Up \/ c \in Tops
        /\ c = Main => main = "suspended"
        /\ c \in Temps => node[c].status = "suspended"
        /\ c \in Frames => Lives(c) /\ Used(c)
        /\ top[c] = top[x]
    <2>1. c = node[x].caller
      BY DEF Returns
    <2>2. c \in Scopes /\ c # x /\ (c \in Up \/ c \in Tops) /\ base[x] = base[c] /\ top[c] = top[x]
      <3>1. node[x].kind = "serial"
        BY DEF Returns
      <3> QED
        BY <1>1, <2>1, <3>1, UpwardsIs
    <2>3. base[x] = l
      BY <1>1 DEF Inv, Bases
    <2>4. /\ win[c].there /\ win[c].call = node[x].call
          /\ c = Main => main = "suspended"
          /\ c \in Temps => node[c].status = "suspended"
          /\ c \in Paused => Lives(c)
      BY <1>1, <2>1 DEF Inv, Waits
    <2>5. c \in Frames => Lives(c) /\ Used(c)
      BY <2>4, FramesAre DEF Lives, Live, Used
    <2> QED
      BY <2>1, <2>2, <2>3, <2>4, <2>5
  <1>3. /\ \A f \in Frames : /\ node'[f].kind = node[f].kind /\ node'[f].call = node[f].call
                             /\ node'[f].caller = node[f].caller /\ node'[f].parent = node[f].parent
                             /\ node'[f].parallel = node[f].parallel
                             /\ (Used(f)' <=> Used(f))
                             /\ (Lives(f)' <=> Lives(f) /\ f # x)
                             /\ f # x /\ f # c => node'[f] = node[f]
        /\ node'[x].status = "done"
        /\ c \in Frames => node'[c].status = "running"
    <2>1. node'[x] = [node[x] EXCEPT !.status = "done"] /\ node[x] \in Node
      BY <1>0, <1>1 DEF Returns
    <2>2. c \in Frames => node'[c] = [node[c] EXCEPT !.status = "running"] /\ node[c] \in Node
      BY <1>0, <1>2 DEF Returns
    <2>3. \A f \in Frames : f # x /\ f # c => node'[f] = node[f]
      BY DEF Returns
    <2>4. ASSUME NEW f \in Frames
          PROVE  /\ node'[f].kind = node[f].kind /\ node'[f].call = node[f].call
                 /\ node'[f].caller = node[f].caller /\ node'[f].parent = node[f].parent
                 /\ node'[f].parallel = node[f].parallel
                 /\ (Used(f)' <=> Used(f))
                 /\ (Lives(f)' <=> Lives(f) /\ f # x)
      <3>1. CASE f = x
        BY <1>1, <2>1, <3>1 DEF Node, Used, Lives, Live
      <3>2. CASE f = c
        BY <1>2, <2>2, <3>2 DEF Node, Used, Lives, Live
      <3>3. CASE f # x /\ f # c
        BY <2>3, <3>3 DEF Used, Lives
      <3> QED
        BY <3>1, <3>2, <3>3
    <2>5. node'[x].status = "done" /\ (c \in Frames => node'[c].status = "running")
      BY <2>1, <2>2 DEF Node
    <2> QED
      BY <2>3, <2>4, <2>5
  <1>4. /\ Up' = Up /\ (\A f : f \in Serving' <=> f \in Serving /\ f # x)
        /\ \A f \in Up : f \in Frames /\ f \in Scopes /\ f \in Temps
        /\ \A q \in Paused : q \in Frames /\ q \in Scopes
    <2>1. \A f \in Temps : f \in Frames /\ f \in Scopes
      BY FramesAre
    <2>2. Up' = Up
      BY <1>3, <2>1 DEF Up
    <2> QED
      BY <1>3, <2>1, <2>2, FramesAre DEF Serving, Up
  <1>5. /\ win'[x] = NoWindow /\ \A y \in Scopes : y # x => win'[y] = win[y]
        /\ win'[Main] = win[Main] /\ win'[c] = win[c]
    BY <1>0, <1>1, <1>2, FramesAre, Zenon DEF Returns
  <1>6. /\ loop'[l].at = c /\ loop'[l].pc = "check" /\ loop'[l].kids = loop[l].kids
        /\ loop'[l].call = loop[l].call
        /\ \A m \in Scopes : m # l => loop'[m] = loop[m]
        /\ loop[l].pc = "step"
        /\ \A m \in Scopes : loop'[m].kids = loop[m].kids /\ (Runs(m)' <=> Runs(m))
    <2>1. loop' = [loop EXCEPT ![l] = [loop[l] EXCEPT !.at = c, !.pc = "check"]] /\ loop[l] \in Loop
      BY <1>0 DEF Returns
    <2>2. /\ loop'[l].at = c /\ loop'[l].pc = "check" /\ loop'[l].kids = loop[l].kids
          /\ loop'[l].call = loop[l].call
          /\ \A m \in Scopes : m # l => loop'[m] = loop[m]
      BY <1>0, <2>1 DEF Loop
    <2>3. loop[l].pc = "step"
      BY DEF Returns
    <2> QED
      BY <2>2, <2>3 DEF Runs, Alive
  <1>7. /\ main' = (IF c = Main THEN "running" ELSE main) /\ recorded' = recorded \cup {node[x].call}
        /\ pending' => pending
        /\ l # Main /\ loop[Main].pc # "resuming" => (pending' <=> pending)
        /\ UNCHANGED <<called, sent, crashes, torn>> /\ main # "free"
    <2>1. l \in Paused => loop[Main].pc = "resuming"
      BY <1>1 DEF Inv, Hearing, Runs, Alive
    <2>2. pending' = pending \/ (pending' = FALSE /\ l \in Tops)
      BY DEF Returns
    <2>3. main # "free"
      <3>1. ~Runs(Main) => \A m \in Frames : loop[m].pc = "off"
        BY Quiet
      <3>2. Runs(Main)
        BY <1>1, <3>1, FramesAre DEF Runs, Alive
      <3> QED
        BY <3>2 DEF Inv, Windows, Runs, Alive
    <2> QED
      BY <2>1, <2>2, <2>3 DEF Returns, Tops
  <1>8. ~Saving'
    BY <1>1, <1>6, FramesAre DEF Saving
  <1>9. \A f \in Up : node[f].call = node[x].call => f = x
    BY <1>1, <1>4 DEF Inv, CallsAreOne, CallOnce
  <1>10. Tree'
    <2>1. \A f \in Frames : ~Used(f)' => node'[f] = NoNode /\ win'[f] = NoWindow /\ loop'[f] = Off
      <3>1. ASSUME NEW f \in Frames, ~Used(f)
            PROVE  node'[f] = NoNode /\ win'[f] = NoWindow /\ loop'[f] = Off
        <4>1. node[f] = NoNode /\ win[f] = NoWindow /\ loop[f] = Off
          BY <3>1 DEF Inv, Tree
        <4>2. f # x /\ f # c /\ f # l /\ f \in Scopes
          BY <1>1, <1>2, <3>1, <4>1, FramesAre DEF Runs, Alive, Off
        <4> QED
          BY <1>3, <1>5, <1>6, <4>1, <4>2
      <3> QED
        BY <1>3, <3>1
    <2>2. \A f \in Up' :
          /\ node'[f].kind \in {"serial", "concurrent"} /\ node'[f].call # None
          /\ node'[f].caller \in Temps => node'[f].caller < f
          /\ node'[f].parent = node'[f].caller \/ (node'[f].parent = Main /\ node'[f].caller \in Paused)
      BY <1>3, <1>4 DEF Inv, Tree
    <2>3. \A f \in Up' : node'[f].caller = Main \/ node'[node'[f].caller].status # "free"
      <3>1. \A f \in Up : node[f].caller = Main \/ (Used(node[f].caller) /\ node[f].caller \in Frames)
        <4>1. \A f \in Up : node[f].caller \in Scopes
          BY UpwardsIs
        <4> QED
          BY <4>1, FramesAre DEF Inv, Tree
      <3> QED
        BY <1>3, <1>4, <3>1 DEF Used
    <2>4. \A q \in Paused : Used(q)' =>
          /\ node'[q].kind = "previous" /\ node'[q].call = None /\ node'[q].parallel
          /\ node'[q].caller = Main /\ node'[q].parent = Main
      BY <1>3, <1>4 DEF Inv, Tree
    <2>5. \A f, g \in Temps : g < f /\ Used(f)' => Used(g)'
      <3>1. \A f \in Temps : Used(f)' <=> Used(f)
        BY <1>3, FramesAre
      <3> QED
        BY <3>1 DEF Inv, Tree
    <2> QED
      BY <2>1, <2>2, <2>3, <2>4, <2>5 DEF Tree, Used
  <1>11. Numbered'
    <2>1. PICK n \in Nat :
             /\ \A q \in Paused : Used(q) <=> q <= MaxFrames + n
             /\ n <= sent + crashes
             /\ pending /\ win[Main].prog # "none" /\ loop[Main].pc # "save" => n < sent + crashes
      BY DEF Inv, Numbered
    <2>2. \A q \in Paused : Used(q)' <=> Used(q)
      BY <1>3, <1>4
    <2>3. loop[Main].pc # "save"
      BY <1>1 DEF Saving
    <2> QED
      BY <1>5, <1>7, <2>1, <2>2, <2>3 DEF Numbered
  <1>12. Windows'
    <2>1. \A f \in Frames : Lives(f)' => win'[f].there
      BY <1>3, <1>5, FramesAre DEF Inv, Windows
    <2>2. \A q \in Paused : win'[q].there => Lives(q)'
      BY <1>1, <1>3, <1>4, <1>5 DEF Inv, Windows
    <2>3. ASSUME NEW y \in Scopes
          PROVE  /\ ~win'[y].there => win'[y] = NoWindow
                 /\ win'[y].prog = "call" <=> win'[y].call # None
                 /\ win'[y].call <= called' /\ \A d \in win'[y].inflight : d <= called'
                 /\ win'[y].resumable # None =>
                       /\ y \in Tops /\ win'[y].resumable \in Paused /\ Used(win[y].resumable)
                       /\ y \in Paused => win'[y].resumable < y
      <3>1. CASE y = x
        BY <1>0, <1>5, <1>7, <3>1 DEF NoWindow, Fresh, None
      <3>2. CASE y # x
        BY <1>5, <1>7, <3>2 DEF Inv, Windows
      <3> QED
        BY <3>1, <3>2
    <2>4. \A y \in Scopes : win'[y].resumable # None => node'[win'[y].resumable].status # "free"
      <3>1. ASSUME NEW y \in Scopes, win'[y].resumable # None
            PROVE  win'[y].resumable = win[y].resumable
        BY <1>5, <3>1 DEF NoWindow, Fresh
      <3>2. \A q \in Paused : Used(q) => node'[q].status # "free"
        BY <1>3, <1>4 DEF Used
      <3> QED
        BY <2>3, <3>1, <3>2
    <2>5. main' # "free" => win'[Main].there
      BY <1>2, <1>5, <1>7 DEF Inv, Windows
    <2>6. loop'[Main].pc \notin {"off", "crashed"} => main' # "free"
      BY <1>7
    <2> QED
      BY <2>1, <2>2, <2>3, <2>4, <2>5, <2>6 DEF Windows, Used
  <1>13. CallsAreOne'
    <2>1. CallOnce'
      BY <1>3 DEF Inv, CallsAreOne, CallOnce
    <2>2. \A f \in Frames : node'[f].call <= called'
      BY <1>3, <1>7 DEF Inv, CallsAreOne
    <2>3. \A y, z \in Scopes : win'[y].call # None => win'[y].call \notin win'[z].inflight
      BY <1>5 DEF Inv, CallsAreOne, NoWindow, Fresh
    <2>4. \A y \in Scopes : \A f \in Up' :
             /\ node'[f].call \in win'[y].inflight => node'[f].kind = "concurrent"
             /\ node'[f].call = win'[y].call => node'[f].kind = "serial"
      <3>1. ASSUME NEW y \in Scopes, NEW f \in Up
            PROVE  /\ node[f].call \in win'[y].inflight => node[f].kind = "concurrent"
                   /\ node[f].call = win'[y].call => node[f].kind = "serial"
        <4>1. node[f].call # None
          BY UpwardsIs
        <4>2. CASE y = x
          BY <1>5, <4>1, <4>2 DEF NoWindow, Fresh
        <4>3. CASE y # x
          BY <1>5, <4>3 DEF Inv, CallsAreOne
        <4> QED
          BY <4>2, <4>3
      <3> QED
        BY <1>3, <1>4, <3>1
    <2>5. ASSUME NEW m \in Scopes, loop'[m].pc = "spawn"
          PROVE  /\ loop'[m].call \in win'[loop'[m].at].inflight
                 /\ \A f \in Up' : node'[f].call # loop'[m].call
                 /\ \A k \in Scopes \ {m} : loop'[k].pc = "spawn" => loop'[k].call # loop'[m].call
                 /\ loop'[m].call \notin recorded'
      <3>1. m # l /\ loop'[m] = loop[m] /\ loop[m].pc = "spawn"
        BY <1>6, <2>5
      <3>2. Runs(m) /\ loop[m].at \in Scopes /\ loop[m].at # x
        BY <1>1, <3>1, AtIs DEF Runs, Alive
      <3>3. \A k \in Scopes : loop'[k].pc = "spawn" => loop'[k] = loop[k]
        BY <1>6
      <3>4. /\ loop[m].call \in win[loop[m].at].inflight
            /\ \A f \in Up : node[f].call # loop[m].call
            /\ \A k \in Scopes \ {m} : loop[k].pc = "spawn" => loop[k].call # loop[m].call
            /\ loop[m].call \notin recorded
        BY <3>1 DEF Inv, CallsAreOne
      <3>5. loop[m].call \notin recorded'
        BY <1>1, <1>7, <3>4
      <3> QED
        BY <1>3, <1>4, <1>5, <3>1, <3>2, <3>3, <3>4, <3>5
    <2>6. \A f \in Up' : Lives(f)' => node'[f].call \notin recorded'
      <3>1. ASSUME NEW f \in Up, Lives(f), f # x PROVE node[f].call \notin recorded'
        BY <1>7, <1>9, <3>1 DEF Inv, CallsAreOne
      <3> QED
        BY <1>3, <1>4, <3>1
    <2>7. \A d \in recorded' : d <= called'
      BY <1>1, <1>7 DEF Inv, CallsAreOne
    <2> QED
      BY <2>1, <2>2, <2>3, <2>4, <2>5, <2>6, <2>7 DEF CallsAreOne
  <1>14. \A y \in Scopes : Pends(win'[y]) \subseteq Pends(win[y])
    BY <1>5 DEF Pends, NoWindow, Fresh
  <1>15. Owners'
    <2>1. ASSUME NEW y \in Scopes, NEW f \in Up, node[f].call \in Pends(win'[y])
          PROVE  node[f].caller = y
      BY <1>1, <1>14, <2>1 DEF Inv, Owners
    <2> QED
      BY <1>3, <1>4, <2>1 DEF Owners
  <1>16. Apart'
    <2>1. \A y \in Frames : y \in Scopes
      BY FramesAre
    <2> QED
      BY <1>1, <1>14, <2>1 DEF Inv, Apart
  <1>17. \A f \in Serving : f # x => node[f].caller # c
    <2>1. ASSUME NEW f \in Serving, node[f].caller = c PROVE f = x
      <3>1. f \in Up
        BY DEF Serving
      <3>2. win[c].call = node[f].call
        BY <2>1 DEF Inv, Waits
      <3> QED
        BY <1>2, <1>9, <3>1, <3>2
    <2> QED
      BY <2>1
  <1>18. Waits'
    <2>1. ASSUME NEW f \in Serving, f # x
          PROVE  /\ win'[node[f].caller].there /\ win'[node[f].caller].call = node[f].call
                 /\ node[f].caller = Main => main' = "suspended"
                 /\ node[f].caller \in Temps => node'[node[f].caller].status = "suspended"
                 /\ node[f].caller \in Paused => Lives(node[f].caller)'
      <3>1. f \in Up /\ node[f].caller # x /\ node[f].caller # c /\ node[f].caller \in Scopes
        BY <1>1, <1>17, <2>1, UpwardsIs DEF Serving
      <3>2. /\ win[node[f].caller].there /\ win[node[f].caller].call = node[f].call
            /\ node[f].caller = Main => main = "suspended"
            /\ node[f].caller \in Temps => node[node[f].caller].status = "suspended"
            /\ node[f].caller \in Paused => Lives(node[f].caller)
        BY DEF Inv, Waits
      <3> QED
        BY <1>3, <1>4, <1>5, <1>7, <3>1, <3>2, FramesAre
    <2>2. \A f \in Serving' : f \in Serving /\ f # x /\ f \in Frames
      BY <1>4 DEF Serving
    <2> QED
      BY <1>3, <2>1, <2>2 DEF Waits, Lives
  <1>19. Deads'
    <2>1. ASSUME NEW f \in Up, NEW y \in Scopes, node[f].kind = "serial", ~Lives(f)',
                 node[f].call \notin recorded', win'[y].call = node[f].call
          PROVE  y # Main /\ ~Lives(y)'
      <3>1. f # x /\ f \in Frames /\ ~Lives(f) /\ node[f].call \notin recorded /\ node[f].call # None
        BY <1>3, <1>4, <1>7, <2>1, UpwardsIs
      <3>2. y # x
        BY <1>5, <2>1, <3>1 DEF NoWindow, Fresh
      <3>3. win[y].call = node[f].call
        BY <1>5, <2>1, <3>2
      <3>4. y # Main /\ ~Lives(y)
        BY <2>1, <3>1, <3>3 DEF Inv, Deads
      <3> QED
        BY <1>3, <3>4, FramesAre
    <2> QED
      BY <1>3, <1>4, <2>1 DEF Deads
  <1>20. Bases(base)'
    <2>1. base[Main] = Main /\ \A q \in Paused : base[q] = q
      BY DEF Inv, Bases
    <2>2. \A f \in Up' : base[f] = IF node'[f].kind = "concurrent" THEN f ELSE base[node'[f].caller]
      BY <1>3, <1>4 DEF Inv, Bases
    <2>3. ASSUME NEW m \in Scopes, Runs(m)'
          PROVE  base[loop'[m].at] = m /\ (loop'[m].at = Main \/ Lives(loop[m].at)' \/ m = l)
                 /\ (m = l => c = Main \/ Lives(c)')
      <3>1. Runs(m) /\ loop[m].at \in Scopes
        BY <1>6, <2>3, AtIs
      <3>2. base[loop[m].at] = m /\ (loop[m].at = Main \/ Lives(loop[m].at))
        BY <3>1 DEF Inv, Bases
      <3>3. c = Main \/ Lives(c)'
        BY <1>2, <1>3, FramesAre
      <3>4. m # l => loop[m].at # x
        BY <1>1, <3>1
      <3> QED
        BY <1>2, <1>3, <1>6, <3>1, <3>2, <3>3, <3>4, FramesAre
    <2>4. \A m \in Scopes : Runs(m)' => loop'[m].at = Main \/ Live(node'[loop'[m].at])
      BY <1>6, <2>3 DEF Lives
    <2>5. base[loop'[Main].at] = Main
      <3>1. base[loop[Main].at] = Main
        BY DEF Inv, Bases
      <3> QED
        BY <1>2, <1>6, <3>1, FramesAre
    <2> QED
      BY <2>1, <2>2, <2>3, <2>4, <2>5 DEF Bases, Lives
  <1>21. Loops(base)'
    <2>1. \A k \in Temps : loop'[k].pc # "off" =>
          /\ Used(k)' /\ node'[k].kind = "concurrent"
          /\ \E m \in Scopes : k \in loop'[m].kids
          /\ loop'[k].pc \in (Alive \ {"resuming", "resumed", "save"}) \cup {"ended"}
      <3>1. ASSUME NEW k \in Temps, loop'[k].pc # "off"
            PROVE  loop[k].pc # "off" /\ k \in Frames /\ k \in Scopes
                   /\ (loop'[k].pc = loop[k].pc \/ loop'[k].pc = "check")
        BY <1>6, <3>1, FramesAre
      <3>2. \A k \in Temps : loop'[k].pc # "off" =>
             /\ Used(k) /\ node[k].kind = "concurrent"
             /\ \E m \in Scopes : k \in loop[m].kids
             /\ loop[k].pc \in (Alive \ {"resuming", "resumed", "save"}) \cup {"ended"}
        BY <3>1 DEF Inv, Loops
      <3> QED
        BY <1>3, <1>6, <3>1, <3>2 DEF Alive
    <2>2. \A m \in Scopes : \A k \in loop'[m].kids :
          /\ k \in Up' /\ node'[k].kind = "concurrent" /\ loop'[k].pc # "off"
          /\ base[node'[k].caller] = m /\ Runs(m)'
      <3>1. ASSUME NEW m \in Scopes, NEW k \in loop[m].kids
            PROVE  /\ k \in Up /\ node[k].kind = "concurrent" /\ loop[k].pc # "off"
                   /\ base[node[k].caller] = m /\ Runs(m)
        BY DEF Inv, Loops
      <3>2. \A m \in Scopes : loop[m].pc # "off" => loop'[m].pc # "off"
        BY <1>6
      <3> QED
        BY <1>3, <1>4, <1>6, <3>1, <3>2
    <2>3. \A q \in Paused :
          loop'[q].pc \in (Alive \ {"save"}) \cup {"off", "paused", "answered", "failed"}
      <3>1. \A q \in Paused : loop'[q].pc = loop[q].pc \/ loop'[q].pc = "check"
        BY <1>4, <1>6
      <3> QED
        BY <3>1 DEF Inv, Loops, Alive
    <2>4. loop'[Main].pc \in Alive \cup {"off", "crashed", "answered", "failed", "cleanup"}
      <3>1. loop'[Main].pc = loop[Main].pc \/ loop'[Main].pc = "check"
        BY <1>6, FramesAre
      <3> QED
        BY <3>1 DEF Inv, Loops, Alive
    <2> QED
      BY <2>1, <2>2, <2>3, <2>4 DEF Loops
  <1>22. Leaves'
    <2>1. ASSUME NEW m \in Scopes, Runs(m), NEW f \in Up, Lives(f), f # x,
                 node[f].call = win'[loop'[m].at].call
          PROVE  /\ m = Main /\ loop'[m].at = Main
                 /\ loop'[m].pc \in {"check", "join", "save"} /\ pending'
      <3>1. m # l
        BY <1>2, <1>5, <1>6, <1>9, <2>1
      <3>2. loop'[m] = loop[m] /\ loop[m].at # x /\ loop[m].at \in Scopes
        BY <1>1, <1>6, <2>1, <3>1, AtIs
      <3>3. node[f].call = win[loop[m].at].call
        BY <1>5, <2>1, <3>2
      <3>4. m = Main /\ loop[m].at = Main /\ loop[m].pc \in {"check", "join", "save"} /\ pending
        BY <2>1, <3>3 DEF Inv, Leaves
      <3> QED
        BY <1>7, <3>1, <3>2, <3>4
    <2> QED
      BY <1>3, <1>4, <1>6, <2>1 DEF Leaves
  <1>23. Answers'
    <2>1. ASSUME NEW q \in Paused, loop'[q].pc = "answered", loop'[q].at = q
          PROVE  win'[q].prog = "none"
      <3>1. q # l /\ loop'[q] = loop[q] /\ q # x
        BY <1>1, <1>4, <1>6, <2>1
      <3>2. win'[q] = win[q]
        BY <1>4, <1>5, <3>1
      <3> QED
        BY <2>1, <3>1, <3>2 DEF Inv, Answers
    <2> QED
      BY <2>1 DEF Answers
  <1>24. Stacks(base)'
    <2>1. ASSUME NEW y \in Frames, node'[y].status = "suspended"
          PROVE  \E f \in Serving' : node'[f].caller = y
      <3>1. y # x /\ y # c /\ node[y].status = "suspended"
        BY <1>1, <1>3, <2>1
      <3>2. PICK f \in Serving : node[f].caller = y
        BY <3>1 DEF Inv, Stacks
      <3>3. f # x /\ f \in Frames
        BY <1>2, <1>4, <3>1, <3>2 DEF Serving
      <3>4. f \in Serving'
        BY <1>4, <3>3
      <3> QED
        BY <1>3, <3>2, <3>3, <3>4
    <2>2. ASSUME main' = "suspended" PROVE \E f \in Serving' : node'[f].caller = Main
      <3>1. c # Main /\ main = "suspended"
        BY <1>7, <2>2
      <3>2. PICK f \in Serving : node[f].caller = Main
        BY <3>1 DEF Inv, Stacks
      <3>3. f # x /\ f \in Frames
        BY <1>2, <1>4, <3>1, <3>2 DEF Serving
      <3>4. f \in Serving'
        BY <1>4, <3>3
      <3> QED
        BY <1>3, <3>2, <3>3, <3>4
    <2>3. \A f \in Up' : node'[f].kind = "concurrent" => node'[f].parallel
      BY <1>3, <1>4 DEF Inv, Stacks
    <2>4. \A f \in Serving' : node'[f].parallel <=> base[f] # Main
      <3>1. \A f \in Serving' : f \in Serving /\ f \in Frames
        BY <1>4 DEF Serving
      <3>2. \A f \in Serving : node[f].parallel <=> base[f] # Main
        BY DEF Inv, Stacks
      <3> QED
        BY <1>3, <3>1, <3>2
    <2> QED
      BY <2>1, <2>2, <2>3, <2>4 DEF Stacks
  <1>25. Places(base, top)'
    <2>1. top[Main] = Main /\ \A q \in Paused : top[q] = q
      BY DEF Inv, Places
    <2>2. \A f \in Up' : top[f] = top[node'[f].caller]
      BY <1>3, <1>4 DEF Inv, Places
    <2>3. \A f \in Frames : Used(f)' => top[base[f]] = top[f] /\ top[f] \in Tops
      BY <1>3 DEF Inv, Places
    <2>4. \A f \in Frames : node'[f].status = "paused" => top[f] \in Paused /\ loop'[top[f]].pc \notin Alive
      <3>1. \A f \in Frames : node'[f].status = "paused" => node[f].status = "paused"
        BY <1>3
      <3>2. \A f \in Frames : node[f].status = "paused" => top[f] \in Paused /\ ~Runs(top[f])
        BY DEF Inv, Places
      <3> QED
        BY <1>4, <1>6, <3>1, <3>2 DEF Runs
    <2>5. ASSUME NEW m \in Scopes, Runs(m)
          PROVE  /\ Runs(top[m])'
                 /\ \/ IF loop'[m].at = Main THEN main' = "running" ELSE node'[loop'[m].at].status = "running"
                    \/ Pausing(m)'
      <3>1. Runs(top[m]) /\ (Running(loop[m].at) \/ Pausing(m)) /\ loop[m].at \in Scopes
        BY <2>5, AtIs DEF Inv, Places
      <3>2. top[m] \in Scopes
        OBVIOUS
      <3>3. CASE m = l
        BY <1>2, <1>3, <1>6, <1>7, <3>1, <3>2, <3>3, FramesAre
      <3>4. CASE m # l /\ Running(loop[m].at)
        <4>1. loop'[m] = loop[m] /\ loop[m].at # x
          BY <1>1, <1>6, <2>5, <3>4
        <4> QED
          BY <1>3, <1>6, <1>7, <3>1, <3>2, <3>4, <4>1, FramesAre DEF Running
      <3>5. CASE m # l /\ Pausing(m)
        <4>1. m = Main /\ loop'[m] = loop[m] /\ loop[m].pc \in {"check", "join"}
          BY <1>6, <3>5 DEF Pausing
        <4>2. pending' <=> pending
          BY <1>7, <3>5, <4>1
        <4>3. Pausing(m)'
          BY <1>5, <3>5, <4>1, <4>2 DEF Pausing
        <4> QED
          BY <1>6, <3>1, <3>2, <4>3
      <3> QED
        BY <3>1, <3>3, <3>4, <3>5
    <2> QED
      BY <1>6, <2>1, <2>2, <2>3, <2>4, <2>5 DEF Places, Running, Runs
  <1>26. Hearing'
    <2>1. \A m \in Tops : m \in Scopes /\ m # x
      BY <1>1, FramesAre DEF Tops
    <2>2. \A m \in Scopes : m # l /\ loop[m].at \in Tops => win'[loop'[m].at] = win[loop[m].at]
      BY <1>5, <1>6, <2>1
    <2>3. ASSUME NEW k \in Tops, NEW m \in Tops,
                 loop'[k].pc \notin {"off", "crashed"}, loop'[m].pc \notin {"off", "crashed"}, Ord(m) < Ord(k)
          PROVE  loop'[k].pc = "resuming" /\ m <= win'[loop'[k].at].resumable
      <3>1. loop[k].pc \notin {"off", "crashed"} /\ loop[m].pc \notin {"off", "crashed"}
        BY <1>6, <2>1, <2>3
      <3>2. loop[k].pc = "resuming" /\ m <= win[loop[k].at].resumable
        BY <2>3, <3>1 DEF Inv, Hearing
      <3>3. k # l /\ loop[k].at \in Tops
        BY <1>6, <2>1, <3>2 DEF Inv, Hearing
      <3> QED
        BY <1>6, <2>1, <2>2, <3>2, <3>3
    <2>4. ASSUME NEW m \in Scopes, loop'[m].pc \in {"resuming", "resumed"}
          PROVE  /\ m \in Tops /\ loop'[m].at \in Tops /\ win'[loop'[m].at].prog = "resume"
                 /\ loop'[m].pc = "resuming" =>
                       win'[loop'[m].at].resumable # None /\ loop'[win'[loop'[m].at].resumable].pc # "off"
      <3>1. m # l /\ loop'[m] = loop[m]
        BY <1>6, <2>4
      <3>2. m \in Tops /\ loop[m].at \in Tops /\ win[loop[m].at].prog = "resume"
        BY <2>4, <3>1 DEF Inv, Hearing
      <3>3. ASSUME loop[m].pc = "resuming"
            PROVE  /\ win[loop[m].at].resumable # None /\ loop[win[loop[m].at].resumable].pc # "off"
                   /\ win[loop[m].at].resumable \in Scopes
        BY <3>3, ResumingIs DEF Inv, Hearing
      <3>4. \A k \in Scopes : loop[k].pc # "off" => loop'[k].pc # "off"
        BY <1>6
      <3> QED
        BY <2>2, <3>1, <3>2, <3>3, <3>4
    <2>5. ASSUME NEW q \in Paused, loop'[q].pc # "off" PROVE loop'[Main].pc = "resuming"
      <3>1. loop[q].pc # "off"
        BY <1>4, <1>6, <2>5
      <3>2. loop[Main].pc = "resuming"
        BY <3>1 DEF Inv, Hearing
      <3> QED
        BY <1>6, <3>2, FramesAre
    <2>6. \A m \in Scopes : loop'[m].pc = "join" => loop'[m].at # Main \/ win'[Main].prog # "none"
      BY <1>5, <1>6 DEF Inv, Hearing, InProgram
    <2>7. loop'[Main].pc \in {"join", "save"} => pending' /\ win'[Main].prog # "none"
      <3>1. ASSUME loop'[Main].pc \in {"join", "save"} PROVE pending' /\ win'[Main].prog # "none"
        <4>1. Main # l /\ loop[Main] = loop'[Main]
          BY <1>6, <3>1, FramesAre
        <4>2. pending /\ win[Main].prog # "none"
          BY <3>1, <4>1 DEF Inv, Hearing
        <4> QED
          BY <1>5, <1>7, <3>1, <4>1, <4>2
      <3> QED
        BY <3>1
    <2>8. loop'[Main].pc # "save"
      BY <1>8 DEF Saving
    <2> QED
      BY <2>3, <2>4, <2>5, <2>6, <2>7, <2>8 DEF Hearing, InProgram
  <1> QED
    BY <1>7, <1>10, <1>11, <1>12, <1>13, <1>15, <1>16, <1>18, <1>19, <1>20, <1>21, <1>22, <1>23, <1>24, <1>25, <1>26 DEF Inv

LEMMA ReturningKeeps ==
    ASSUME NEW base \in [Scopes -> Scopes], NEW top \in [Scopes -> Scopes],
           Inv(base, top), TypeOK', NEW l \in Scopes,
           AIReplies(l) \/ ProgramReturns(l) \/ ProgramThrows(l),
           IsFunction(loop[l].at) /\ node[loop[l].at].kind = "serial"
    PROVE  Inv(base, top)'
  <1> DEFINE x == loop[l].at
             c == node[x].caller
  <1>1. /\ loop[l].pc = "step" /\ Runs(l) /\ Reply(l) /\ Take(l)
        /\ UNCHANGED <<called, sent, crashes, torn>>
    BY DEF AIReplies, ProgramReturns, ProgramThrows, Steps, Runs, Alive, tally
  <1>2. /\ Running(x) /\ x \in {Main} \cup Paused \cup Up
        /\ Take(l) => pending' = pending \/ (pending' = FALSE /\ l \in Tops)
    BY <1>1, RunningAt, SeesIs
  <1>3. x \in Up
    <2>1. x # Main /\ node[x].kind = "serial"
      BY DEF IsFunction
    <2>2. x \in Paused => node[x].kind = "previous"
      BY <1>1, AtIs, FramesAre DEF Inv, Tree
    <2> QED
      BY <1>2, <2>1, <2>2
  <1>4. FinishFrame(l, x)
    <2>1. IsFunction(x) /\ x # Main /\ node[x].kind # "previous"
      BY DEF IsFunction
    <2> QED
      BY <1>1, <1>2, <2>1 DEF Reply
  <1>5. Returns(l, x, c)
    <2>1. node[x].kind = "serial"
      OBVIOUS
    <2> QED
      BY <1>1, <1>2, <1>3, <1>4, <2>1 DEF FinishFrame, Returns, Put
  <1> HIDE DEF x, c
  <1> QED
    BY <1>5, ReturnsKeep

-----------------------------------------------------------------------------
(* Programs that stop and run on.                                          *)

\* A paused program has the frames below it, and no others.
LEMMA ChainTops ==
    ASSUME NEW base \in [Scopes -> Scopes], NEW top \in [Scopes -> Scopes], Inv(base, top),
           NEW p \in Paused
    PROVE  \A f \in Scopes : f \in Chain(node, p) <=> f = p \/ (f \in Up /\ top[f] = p)
  <1>1. node \in [Frames -> Node] /\ Opened(node) = Up /\ p \in Scopes
    BY UpIs, FramesAre DEF Inv, TypeOK
  <1>2. /\ p \in Chain(node, p) /\ Chain(node, p) \subseteq Scopes
        /\ \A f \in Up : node[f].caller \in Chain(node, p) => f \in Chain(node, p)
        /\ \A T \in SUBSET Scopes :
              p \in T /\ (\A f \in Up : node[f].caller \in T => f \in T) => Chain(node, p) \subseteq T
        /\ \A f \in Chain(node, p) \ {p} : f \in Up /\ node[f].caller \in Chain(node, p)
    BY <1>1, ChainIs
  <1> DEFINE T == {y \in Scopes : top[y] = p}
  <1>3. Chain(node, p) \subseteq T
    <2>1. T \in SUBSET Scopes /\ p \in T
      BY <1>1 DEF Inv, Places
    <2>2. \A f \in Up : node[f].caller \in T => f \in T
      BY UpwardsIs
    <2> HIDE DEF T
    <2> QED
      BY <1>2, <2>1, <2>2
  <1> DEFINE bad == {f \in Up : top[f] = p /\ f \notin Chain(node, p)}
  <1>4. bad = {}
    <2>1. SUFFICES ASSUME bad # {} PROVE FALSE
      OBVIOUS
    <2>2. PICK f \in bad : \A g \in bad : f <= g
      <3>1. bad \subseteq Frames
        BY FramesAre DEF Up
      <3> QED
        BY <2>1, <3>1, FirstIs
    <2>3. f \in Up /\ top[node[f].caller] = p /\ node[f].caller \notin Chain(node, p)
      BY <1>2, <2>2, UpwardsIs
    <2>4. node[f].caller \in Up
      <3>1. node[f].caller \in Tops => top[node[f].caller] = node[f].caller
        BY DEF Inv, Places, Tops
      <3> QED
        BY <1>2, <2>3, <3>1, UpwardsIs
    <2>5. node[f].caller < f /\ node[f].caller \in Nat /\ f \in Nat
      BY <2>3, <2>4, UpwardsIs
    <2> QED
      BY <2>2, <2>3, <2>4, <2>5
  <1> QED
    BY <1>2, <1>3, <1>4

\* Where the stack of the frame s stopped: in the last of its serial calls.
LEMMA StoppedAt ==
    ASSUME NEW base \in [Scopes -> Scopes], NEW top \in [Scopes -> Scopes], Inv(base, top), ~Saving,
           NEW ns, \A f \in Frames : ns[f].call = node[f].call /\ (Live(ns[f]) <=> Lives(f)),
           NEW s \in Frames, base[s] = s, Lives(s), NEW i, i = Innermost(ns, s)
    PROVE  /\ i \in Frames /\ i \in Scopes /\ base[i] = s /\ top[i] = top[s] /\ Lives(i) /\ Used(i)
           /\ node[i].status # "suspended"
           /\ \A f \in Up : Lives(f) => node[f].call # win[i].call
  <1>1. ASSUME NEW y \in Scopes, NEW f \in Awaited(ns, y)
        PROVE  /\ f \in Serving /\ f \in Temps /\ node[f].caller = y /\ (y \in Temps => y < f)
               /\ f \in Scopes
    <2>1. /\ f \in Frames /\ win[y].prog = "call" /\ Callees(ns, win[y].call) # {}
          /\ f = First(Callees(ns, win[y].call))
      BY DEF Awaited
    <2>2. f \in Callees(ns, win[y].call)
      <3>1. Callees(ns, win[y].call) \subseteq Frames
        BY DEF Callees
      <3> QED
        BY <2>1, <3>1, FirstIs
    <2>3. Lives(f) /\ node[f].call = win[y].call /\ win[y].call # None
      <3>1. win[y].call # None
        BY <2>1 DEF Inv, Windows
      <3> QED
        BY <2>1, <2>2, <3>1 DEF Callees
    <2>4. f \in Up
      <3>1. Used(f)
        BY <2>3 DEF Lives, Live, Used
      <3>2. f \notin Paused
        BY <2>3, <3>1 DEF Inv, Tree
      <3> QED
        BY <2>1, <3>1, <3>2, FramesAre DEF Up
    <2>5. node[f].kind = "serial" /\ node[f].caller = y
      <3>1. node[f].call \in Pends(win[y])
        BY <2>3 DEF Pends
      <3> QED
        BY <2>3, <2>4, <3>1 DEF Inv, CallsAreOne, Owners
    <2>6. f \in Serving
      BY <2>3, <2>4, <2>5 DEF Serving
    <2>7. y \in Temps => y < f
      BY <2>4, <2>5 DEF Inv, Tree
    <2> QED
      BY <2>4, <2>5, <2>6, <2>7, UpwardsIs
  <1>2. /\ i \in Scopes /\ Awaited(ns, i) = {}
        /\ \A T \in SUBSET Scopes :
              s \in T /\ (\A y \in T : Awaited(ns, y) \subseteq T) => i \in T
    <2>1. s \in Scopes
      BY FramesAre
    <2>2. \A y \in Scopes : \A f \in Awaited(ns, y) : f \in Temps /\ (y \in Temps => y < f)
      BY <1>1
    <2> QED
      BY <2>1, <2>2, InnermostIs
  <1> DEFINE T == {y \in Frames : base[y] = s /\ top[y] = top[s] /\ Lives(y)}
  <1>3. i \in T
    <2>1. T \in SUBSET Scopes /\ s \in T
      BY FramesAre
    <2>2. ASSUME NEW y \in T PROVE Awaited(ns, y) \subseteq T
      <3>1. ASSUME NEW f \in Awaited(ns, y) PROVE f \in T
        <4>1. y \in Scopes
          BY FramesAre
        <4>2. f \in Serving /\ f \in Up /\ node[f].caller = y /\ node[f].kind = "serial" /\ Lives(f)
          BY <1>1, <4>1 DEF Serving
        <4> QED
          BY <4>2, UpwardsIs
      <3> QED
        BY <3>1
    <2> HIDE DEF T
    <2> QED
      BY <1>2, <2>1, <2>2
  <1>4. i \in Frames /\ base[i] = s /\ top[i] = top[s] /\ Lives(i) /\ Used(i)
    BY <1>3 DEF Lives, Live, Used
  <1>5. ASSUME NEW f \in Up, Lives(f), node[f].call = win[i].call PROVE FALSE
    <2>1. node[f].call # None /\ f \in Frames
      BY UpwardsIs
    <2>2. win[i].prog = "call"
      BY <1>2, <1>5, <2>1 DEF Inv, Windows
    <2>3. \A g \in Frames : g \in Callees(ns, win[i].call) => g = f
      BY <1>5, <2>1 DEF Callees, Inv, CallsAreOne, CallOnce
    <2>4. f \in Callees(ns, win[i].call)
      BY <1>5, <2>1 DEF Callees
    <2>5. First(Callees(ns, win[i].call)) = f
      <3>1. Callees(ns, win[i].call) \subseteq Frames
        BY DEF Callees
      <3> QED
        BY <2>3, <2>4, <3>1, FirstIs
    <2>6. win[f].there
      BY <1>5, <2>1 DEF Inv, Windows
    <2>7. f \in Awaited(ns, i)
      BY <2>1, <2>2, <2>4, <2>5, <2>6 DEF Awaited
    <2> QED
      BY <1>2, <2>7
  <1>6. node[i].status # "suspended"
    <2>1. ASSUME node[i].status = "suspended" PROVE FALSE
      <3>1. PICK f \in Serving : node[f].caller = i
        BY <1>4, <2>1 DEF Inv, Stacks
      <3>2. f \in Up /\ Lives(f) /\ node[f].call = win[i].call
        BY <3>1 DEF Inv, Waits, Serving
      <3> QED
        BY <1>5, <3>2
    <2> QED
      BY <2>1
  <1> QED
    BY <1>2, <1>4, <1>5, <1>6

\* The loop l starts the loops A and ends the loops Z; the marks of frames change.
Marks(base, top, l, x, A, Z, pc) ==
    /\ Runs(l) /\ loop[l].pc \in {"step", "enter", "waiting", "resuming"} /\ pc \in {"check", "resuming"}
    /\ x = loop[l].at
    /\ \A f \in Frames :
          /\ node'[f].kind = node[f].kind /\ node'[f].call = node[f].call
          /\ node'[f].caller = node[f].caller /\ node'[f].parent = node[f].parent
          /\ Used(f)' <=> Used(f)
          /\ Lives(f)' <=> Lives(f)
          /\ node'[f].status = "suspended" <=> node[f].status = "suspended"
          /\ node[f].parallel => node'[f].parallel
          /\ ~Used(f) => node'[f] = node[f]
    /\ \A f \in Serving : node'[f].parallel <=> base[f] # Main
    /\ UNCHANGED <<main, recorded, called, sent, crashes, torn>>
    /\ pending' = pending \/ (pending' = FALSE /\ l \in Tops)
    /\ win'[x].there /\ win'[x].prog = win[x].prog /\ win'[x].call = win[x].call
    /\ win'[x].inflight \subseteq win[x].inflight /\ win'[x].resumable = win[x].resumable
    /\ \A y \in Scopes \ {x} : win'[y] = win[y]
    /\ A \subseteq Frames /\ Z \subseteq Paused /\ l \notin A \cup Z /\ A \cap Z = {}
    /\ \A k \in A :
          /\ Used(k) /\ loop[k].pc = "off" /\ loop'[k].pc = "check" /\ loop'[k].kids = {}
          /\ loop'[k].at \in Frames /\ base[loop'[k].at] = k /\ Live(node[loop'[k].at])
          /\ \A f \in Up : Lives(f) => node[f].call # win[loop'[k].at].call
          /\ k \in Temps => node[k].kind = "concurrent" /\ base[node[k].caller] = l
    /\ \A z \in Z : ~Runs(z) /\ loop'[z] = Off
    /\ loop'[l].pc = pc /\ loop'[l].at = x /\ loop'[l].kids = loop[l].kids \cup (A \cap Temps)
    /\ \A k \in Scopes \ (A \cup Z \cup {l}) : loop'[k] = loop[k]
    /\ Places(base, top)' /\ Hearing'

LEMMA MarksKeep ==
    ASSUME NEW base \in [Scopes -> Scopes], NEW top \in [Scopes -> Scopes],
           Inv(base, top), TypeOK', NEW l \in Scopes, NEW x, NEW A, NEW Z, NEW pc,
           Marks(base, top, l, x, A, Z, pc)
    PROVE  Inv(base, top)'
  <1>0. /\ node \in [Frames -> Node] /\ win \in [Scopes -> Window] /\ loop \in [Scopes -> Loop]
        /\ win' \in [Scopes -> Window]
        /\ called \in Nat /\ pending \in BOOLEAN /\ pending' \in BOOLEAN
    BY BoundsAssumption DEF Inv, TypeOK
  <1>1. /\ Runs(l) /\ x = loop[l].at /\ x \in Scopes /\ base[x] = l /\ ~Saving /\ ~Saving'
        /\ loop[l].pc \in {"step", "enter", "waiting", "resuming"} /\ pc \in {"check", "resuming"}
        /\ x \in Frames => Lives(x)
        /\ \A m \in Scopes : Runs(m) /\ m # l => loop[m].at # x
        /\ \A f \in Up : Lives(f) => node[f].call # win[x].call
    <2>1. Runs(l) /\ x = loop[l].at /\ loop[l].pc \in {"step", "enter", "waiting", "resuming"}
          /\ pc \in {"check", "resuming"} /\ loop'[l].pc = pc
      BY DEF Marks
    <2>2. x \in Scopes /\ (x \in Frames => Lives(x)) /\ \A m \in Scopes : Runs(m) /\ m # l => loop[m].at # x
      BY <2>1, AtIs
    <2>3. base[x] = l
      BY <2>1 DEF Inv, Bases
    <2>4. ~Saving
      <3>1. l = Main => ~Saving
        BY <2>1 DEF Saving
      <3> QED
        BY <2>1, <3>1, SavingIsQuiet, FramesAre
    <2>5. ~Saving'
      <3>1. l # Main /\ loop'[Main].pc = "save" => loop[Main].pc = "save"
        BY FramesAre DEF Marks
      <3> QED
        BY <2>1, <2>4, <3>1 DEF Saving
    <2>6. \A f \in Up : Lives(f) => node[f].call # win[x].call
      BY <2>1 DEF Inv, Leaves
    <2> QED
      BY <2>1, <2>2, <2>3, <2>4, <2>5, <2>6
  <1>2. /\ \A f \in Frames :
          /\ node'[f].kind = node[f].kind /\ node'[f].call = node[f].call
          /\ node'[f].caller = node[f].caller /\ node'[f].parent = node[f].parent
          /\ Used(f)' <=> Used(f)
          /\ Lives(f)' <=> Lives(f)
          /\ node'[f].status = "suspended" <=> node[f].status = "suspended"
          /\ node[f].parallel => node'[f].parallel
          /\ ~Used(f) => node'[f] = node[f]
        /\ Up' = Up /\ (\A f : f \in Serving' <=> f \in Serving)
        /\ \A f \in Up : f \in Frames /\ f \in Scopes /\ f \in Temps
        /\ \A q \in Paused : q \in Frames /\ q \in Scopes
    <2>1. \A f \in Frames :
          /\ node'[f].kind = node[f].kind /\ node'[f].call = node[f].call
          /\ node'[f].caller = node[f].caller /\ node'[f].parent = node[f].parent
          /\ Used(f)' <=> Used(f)
          /\ Lives(f)' <=> Lives(f)
          /\ node'[f].status = "suspended" <=> node[f].status = "suspended"
          /\ node[f].parallel => node'[f].parallel
          /\ ~Used(f) => node'[f] = node[f]
      BY DEF Marks
    <2>2. \A f \in Temps : f \in Frames /\ f \in Scopes
      BY FramesAre
    <2>3. Up' = Up
      BY <2>1, <2>2 DEF Up
    <2> QED
      BY <2>1, <2>2, <2>3, FramesAre DEF Serving, Up
  <1>3. /\ win'[x].there /\ win'[x].prog = win[x].prog /\ win'[x].call = win[x].call
        /\ win'[x].inflight \subseteq win[x].inflight /\ win'[x].resumable = win[x].resumable
        /\ \A y \in Scopes : y # x => win'[y] = win[y]
        /\ win[x].there
    <2>1. win[x].there
      BY <1>1, AtIs
    <2> QED
      BY <2>1 DEF Marks
  <1>30. \A y \in Scopes :
            /\ win'[y].there = win[y].there /\ win'[y].prog = win[y].prog /\ win'[y].call = win[y].call
            /\ win'[y].inflight \subseteq win[y].inflight /\ win'[y].resumable = win[y].resumable
            /\ Pends(win'[y]) \subseteq Pends(win[y])
    <2>1. ASSUME NEW y \in Scopes
          PROVE /\ win'[y].there = win[y].there /\ win'[y].prog = win[y].prog /\ win'[y].call = win[y].call
                /\ win'[y].inflight \subseteq win[y].inflight /\ win'[y].resumable = win[y].resumable
      <3>1. CASE y = x
        <4>1. win'[x].there \in BOOLEAN /\ win[x].there \in BOOLEAN
          BY <1>0, <1>1 DEF Window
        <4> QED
          BY <1>3, <3>1, <4>1
      <3>2. CASE y # x
        BY <1>3, <3>2
      <3> QED
        BY <3>1, <3>2
    <2> QED
      BY <2>1 DEF Pends
  <1>4. /\ A \subseteq Frames /\ Z \subseteq Paused /\ l \notin A /\ l \notin Z /\ A \cap Z = {}
        /\ \A k \in A : Used(k) /\ loop[k].pc = "off" /\ ~Runs(k) /\ loop'[k].pc = "check" /\ loop'[k].kids = {} /\ Runs(k)'
        /\ \A z \in Z : ~Runs(z) /\ loop'[z] = Off /\ ~Runs(z)'
        /\ loop'[l].pc = pc /\ loop'[l].at = x /\ loop'[l].kids = loop[l].kids \cup (A \cap Temps)
        /\ Runs(l)'
        /\ \A k \in Scopes : k \notin A /\ k \notin Z /\ k # l => loop'[k] = loop[k]
        /\ Main \notin A /\ Main \notin Z /\ A \subseteq Scopes /\ Z \subseteq Scopes
        /\ \A k \in Scopes : Runs(k)' => Runs(k) \/ k \in A
        /\ \A k \in Scopes : Runs(k) => Runs(k)'
    <2>1. /\ A \subseteq Frames /\ Z \subseteq Paused /\ l \notin A /\ l \notin Z /\ A \cap Z = {}
          /\ \A k \in A : Used(k) /\ loop[k].pc = "off" /\ loop'[k].pc = "check" /\ loop'[k].kids = {}
          /\ \A z \in Z : ~Runs(z) /\ loop'[z] = Off
          /\ loop'[l].pc = pc /\ loop'[l].at = x /\ loop'[l].kids = loop[l].kids \cup (A \cap Temps)
          /\ \A k \in Scopes : k \notin A /\ k \notin Z /\ k # l => loop'[k] = loop[k]
      BY DEF Marks
    <2>2. Main \notin A /\ Main \notin Z /\ A \subseteq Scopes /\ Z \subseteq Scopes
      BY <2>1, FramesAre
    <2>3. Runs(l)' /\ (\A k \in A : ~Runs(k) /\ Runs(k)') /\ \A z \in Z : ~Runs(z)'
      BY <1>1, <2>1 DEF Runs, Alive, Off
    <2>4. \A k \in Scopes : k \notin A /\ k \notin Z /\ k # l => (Runs(k)' <=> Runs(k))
      BY <2>1 DEF Runs
    <2> QED
      BY <1>1, <2>1, <2>2, <2>3, <2>4
  <1>5. \A k \in A :
          /\ loop'[k].at \in Frames /\ base[loop'[k].at] = k /\ Live(node[loop'[k].at])
          /\ \A f \in Up : Lives(f) => node[f].call # win[loop'[k].at].call
          /\ k \in Temps => node[k].kind = "concurrent" /\ base[node[k].caller] = l
    BY DEF Marks
  <1>6. /\ UNCHANGED <<main, recorded, called, sent, crashes, torn>>
        /\ pending' => pending
        /\ l # Main /\ loop[Main].pc # "resuming" => (pending' <=> pending)
        /\ Places(base, top)' /\ Hearing'
        /\ \A f \in Serving : node'[f].parallel <=> base[f] # Main
    <2>1. l \in Paused => loop[Main].pc = "resuming"
      BY <1>1 DEF Inv, Hearing, Runs, Alive
    <2>2. pending' = pending \/ (pending' = FALSE /\ l \in Tops)
      BY DEF Marks
    <2>3. /\ UNCHANGED <<main, recorded, called, sent, crashes, torn>> /\ Places(base, top)' /\ Hearing'
          /\ \A f \in Serving : node'[f].parallel <=> base[f] # Main
      BY DEF Marks
    <2> QED
      BY <2>1, <2>2, <2>3 DEF Tops
  <1>10. Tree'
    <2>1. \A f \in Frames : ~Used(f)' => node'[f] = NoNode /\ win'[f] = NoWindow /\ loop'[f] = Off
      <3>1. ASSUME NEW f \in Frames, ~Used(f)
            PROVE  node'[f] = NoNode /\ win'[f] = NoWindow /\ loop'[f] = Off
        <4>1. node[f] = NoNode /\ win[f] = NoWindow /\ loop[f] = Off /\ f \in Scopes
          BY <3>1, FramesAre DEF Inv, Tree
        <4>2. f # x
          <5>1. ~win[f].there
            BY <4>1 DEF NoWindow, Fresh
          <5> QED
            BY <1>3, <5>1
        <4>3. f # l /\ f \notin A
          BY <1>1, <1>4, <3>1, <4>1 DEF Runs, Alive, Off
        <4> QED
          BY <1>2, <1>3, <1>4, <3>1, <4>1, <4>2, <4>3
      <3> QED
        BY <1>2, <3>1
    <2>2. \A f \in Up' :
          /\ node'[f].kind \in {"serial", "concurrent"} /\ node'[f].call # None
          /\ node'[f].caller \in Temps => node'[f].caller < f
          /\ node'[f].parent = node'[f].caller \/ (node'[f].parent = Main /\ node'[f].caller \in Paused)
      BY <1>2 DEF Inv, Tree
    <2>3. \A f \in Up' : node'[f].caller = Main \/ node'[node'[f].caller].status # "free"
      <3>1. \A f \in Up : node[f].caller = Main \/ (Used(node[f].caller) /\ node[f].caller \in Frames)
        <4>1. \A f \in Up : node[f].caller \in Scopes
          BY UpwardsIs
        <4> QED
          BY <4>1, FramesAre DEF Inv, Tree
      <3> QED
        BY <1>2, <3>1 DEF Used
    <2>4. \A q \in Paused : Used(q)' =>
          /\ node'[q].kind = "previous" /\ node'[q].call = None /\ node'[q].parallel
          /\ node'[q].caller = Main /\ node'[q].parent = Main
      <3>1. ASSUME NEW q \in Paused, Used(q)'
            PROVE  node[q].parallel /\ node'[q].parallel \in BOOLEAN /\ node[q].parallel \in BOOLEAN
        BY <1>2, <3>1 DEF Inv, Tree, TypeOK, Node
      <3>2. \A q \in Paused : Used(q)' => node'[q].parallel
        BY <1>2, <3>1
      <3> QED
        BY <1>2, <3>2 DEF Inv, Tree
    <2>5. \A f, g \in Temps : g < f /\ Used(f)' => Used(g)'
      <3>1. \A f \in Temps : Used(f)' <=> Used(f)
        BY <1>2, FramesAre
      <3> QED
        BY <3>1 DEF Inv, Tree
    <2> QED
      BY <2>1, <2>2, <2>3, <2>4, <2>5 DEF Tree, Used
  <1>11. Numbered'
    <2>1. PICK n \in Nat :
             /\ \A q \in Paused : Used(q) <=> q <= MaxFrames + n
             /\ n <= sent + crashes
             /\ pending /\ win[Main].prog # "none" /\ loop[Main].pc # "save" => n < sent + crashes
      BY DEF Inv, Numbered
    <2>2. \A q \in Paused : Used(q)' <=> Used(q)
      BY <1>2
    <2>3. loop[Main].pc # "save" /\ win'[Main].prog = win[Main].prog
      BY <1>1, <1>30, FramesAre DEF Saving
    <2> QED
      BY <1>6, <2>1, <2>2, <2>3 DEF Numbered
  <1>12. Windows'
    <2>1. \A f \in Frames : Lives(f)' => win'[f].there
      BY <1>2, <1>30, FramesAre DEF Inv, Windows
    <2>2. \A q \in Paused : win'[q].there => Lives(q)'
      BY <1>2, <1>30 DEF Inv, Windows
    <2>3. ASSUME NEW y \in Scopes
          PROVE  /\ ~win'[y].there => win'[y] = NoWindow
                 /\ win'[y].prog = "call" <=> win'[y].call # None
                 /\ win'[y].call <= called' /\ \A d \in win'[y].inflight : d <= called'
                 /\ win'[y].resumable # None =>
                       /\ y \in Tops /\ win'[y].resumable \in Paused /\ node'[win'[y].resumable].status # "free"
                       /\ y \in Paused => win'[y].resumable < y
      <3>1. /\ ~win[y].there => win[y] = NoWindow
            /\ win[y].prog = "call" <=> win[y].call # None
            /\ win[y].call <= called /\ \A d \in win[y].inflight : d <= called
            /\ win[y].resumable # None =>
                  /\ y \in Tops /\ win[y].resumable \in Paused /\ Used(win[y].resumable)
                  /\ y \in Paused => win[y].resumable < y
        BY DEF Inv, Windows
      <3>2. ~win'[y].there => win'[y] = NoWindow
        BY <1>3, <3>1
      <3>3. \A q \in Paused : Used(q) => node'[q].status # "free"
        BY <1>2 DEF Used
      <3> QED
        BY <1>6, <1>30, <3>1, <3>2, <3>3
    <2>4. main' # "free" => win'[Main].there
      BY <1>6, <1>30, FramesAre DEF Inv, Windows
    <2>5. loop'[Main].pc \notin {"off", "crashed"} => main' # "free"
      <3>1. loop'[Main].pc \notin {"off", "crashed"} => loop[Main].pc \notin {"off", "crashed"}
        <4>1. CASE l = Main
          BY <1>1, <4>1
        <4>2. CASE l # Main
          BY <1>4, <4>2, FramesAre
        <4> QED
          BY <4>1, <4>2
      <3> QED
        BY <1>6, <3>1 DEF Inv, Windows
    <2> QED
      BY <2>1, <2>2, <2>3, <2>4, <2>5 DEF Windows, Used
  <1>13. CallsAreOne'
    <2>1. CallOnce'
      BY <1>2 DEF Inv, CallsAreOne, CallOnce
    <2>2. \A f \in Frames : node'[f].call <= called'
      BY <1>2, <1>6 DEF Inv, CallsAreOne
    <2>3. \A y, z \in Scopes : win'[y].call # None => win'[y].call \notin win'[z].inflight
      BY <1>30 DEF Inv, CallsAreOne
    <2>4. \A y \in Scopes : \A f \in Up' :
             /\ node'[f].call \in win'[y].inflight => node'[f].kind = "concurrent"
             /\ node'[f].call = win'[y].call => node'[f].kind = "serial"
      <3>1. \A y \in Scopes : \A f \in Up :
             /\ node[f].call \in win'[y].inflight => node[f].kind = "concurrent"
             /\ node[f].call = win'[y].call => node[f].kind = "serial"
        BY <1>30 DEF Inv, CallsAreOne
      <3> QED
        BY <1>2, <3>1
    <2>5. ASSUME NEW m \in Scopes, loop'[m].pc = "spawn"
          PROVE  /\ loop'[m].call \in win'[loop'[m].at].inflight
                 /\ \A f \in Up' : node'[f].call # loop'[m].call
                 /\ \A k \in Scopes \ {m} : loop'[k].pc = "spawn" => loop'[k].call # loop'[m].call
                 /\ loop'[m].call \notin recorded'
      <3>1. \A k \in Scopes : loop'[k].pc = "spawn" => k # l /\ loop'[k] = loop[k]
        BY <1>1, <1>4 DEF Off
      <3>2. m # l /\ loop'[m] = loop[m] /\ loop[m].pc = "spawn"
        BY <2>5, <3>1
      <3>3. Runs(m) /\ loop[m].at \in Scopes /\ loop[m].at # x
        BY <1>1, <3>2, AtIs DEF Runs, Alive
      <3>4. /\ loop[m].call \in win[loop[m].at].inflight
            /\ \A f \in Up : node[f].call # loop[m].call
            /\ \A k \in Scopes \ {m} : loop[k].pc = "spawn" => loop[k].call # loop[m].call
            /\ loop[m].call \notin recorded
        BY <3>2 DEF Inv, CallsAreOne
      <3> QED
        BY <1>2, <1>3, <1>6, <3>1, <3>2, <3>3, <3>4
    <2>6. \A f \in Up' : Lives(f)' => node'[f].call \notin recorded'
      BY <1>2, <1>6 DEF Inv, CallsAreOne
    <2>7. \A d \in recorded' : d <= called'
      BY <1>6 DEF Inv, CallsAreOne
    <2> QED
      BY <2>1, <2>2, <2>3, <2>4, <2>5, <2>6, <2>7 DEF CallsAreOne
  <1>15. Owners'
    <2>1. ASSUME NEW y \in Scopes, NEW f \in Up, node[f].call \in Pends(win'[y])
          PROVE  node[f].caller = y
      BY <1>1, <1>30, <2>1 DEF Inv, Owners
    <2> QED
      BY <1>2, <2>1 DEF Owners
  <1>16. Apart'
    <2>1. \A y \in Frames : y \in Scopes
      BY FramesAre
    <2> QED
      BY <1>1, <1>30, <2>1 DEF Inv, Apart
  <1>18. Waits'
    <2>1. ASSUME NEW f \in Serving
          PROVE  /\ win'[node[f].caller].there /\ win'[node[f].caller].call = node[f].call
                 /\ node[f].caller = Main => main' = "suspended"
                 /\ node[f].caller \in Temps => node'[node[f].caller].status = "suspended"
                 /\ node[f].caller \in Paused => Live(node'[node[f].caller])
      <3>1. f \in Up /\ node[f].caller \in Scopes
        BY UpwardsIs DEF Serving
      <3>2. /\ win[node[f].caller].there /\ win[node[f].caller].call = node[f].call
            /\ node[f].caller = Main => main = "suspended"
            /\ node[f].caller \in Temps => node[node[f].caller].status = "suspended"
            /\ node[f].caller \in Paused => Lives(node[f].caller)
        BY DEF Inv, Waits
      <3>3. \A g \in Frames : Lives(g) => Live(node'[g])
        BY <1>2 DEF Lives
      <3> QED
        BY <1>2, <1>6, <1>30, <3>1, <3>2, <3>3, FramesAre
    <2>2. \A f \in Serving' : f \in Serving /\ f \in Frames
      BY <1>2 DEF Serving
    <2> QED
      BY <1>2, <2>1, <2>2 DEF Waits, Lives
  <1>19. Deads'
    <2>1. ASSUME NEW f \in Up, NEW y \in Scopes, node[f].kind = "serial", ~Lives(f),
                 node[f].call \notin recorded, win[y].call = node[f].call
          PROVE  y # Main /\ ~Lives(y)'
      <3>1. y # Main /\ ~Lives(y)
        BY <2>1 DEF Inv, Deads
      <3> QED
        BY <1>2, <3>1, FramesAre
    <2> QED
      BY <1>2, <1>6, <1>30, <2>1 DEF Deads
  <1>20. Bases(base)'
    <2>1. base[Main] = Main /\ \A q \in Paused : base[q] = q
      BY DEF Inv, Bases
    <2>2. \A f \in Up' : base[f] = IF node'[f].kind = "concurrent" THEN f ELSE base[node'[f].caller]
      BY <1>2 DEF Inv, Bases
    <2>3. \A g \in Frames : Live(node[g]) => Live(node'[g])
      BY <1>2 DEF Lives
    <2>4. ASSUME NEW m \in Scopes, Runs(m)'
          PROVE  base[loop'[m].at] = m /\ (loop'[m].at = Main \/ Live(node'[loop'[m].at]))
      <3>1. CASE m = l
        BY <1>1, <1>4, <2>3, <3>1, FramesAre DEF Lives
      <3>2. CASE m \in A
        BY <1>5, <2>3, <3>2
      <3>3. CASE m # l /\ m \notin A
        <4>1. Runs(m) /\ loop'[m] = loop[m] /\ loop[m].at \in Scopes
          BY <1>4, <2>4, <3>3, AtIs
        <4>2. base[loop[m].at] = m /\ (loop[m].at = Main \/ Live(node[loop[m].at]))
          BY <4>1 DEF Inv, Bases, Lives
        <4> QED
          BY <2>3, <4>1, <4>2, FramesAre
      <3> QED
        BY <3>1, <3>2, <3>3
    <2>5. base[loop'[Main].at] = Main
      <3>1. base[loop[Main].at] = Main
        BY DEF Inv, Bases
      <3> QED
        BY <1>1, <1>4, <3>1, FramesAre
    <2> QED
      BY <2>1, <2>2, <2>4, <2>5 DEF Bases, Lives
  <1>21. Loops(base)'
    <2>0. \A z \in Z : loop[z].kids = {}
      BY <1>4 DEF Inv, Loops
    <2>00. \A k \in A : loop[k].kids = {}
      BY <1>4 DEF Inv, Loops
    <2>1. ASSUME NEW k \in Temps, loop'[k].pc # "off"
          PROVE  /\ Used(k)' /\ node'[k].kind = "concurrent"
                 /\ \E m \in Scopes : k \in loop'[m].kids
                 /\ loop'[k].pc \in (Alive \ {"resuming", "resumed", "save"}) \cup {"ended"}
      <3>1. k \in Frames /\ k \in Scopes /\ k \notin Z
        BY <1>4, FramesAre
      <3>2. CASE k \in A
        <4>1. k \in loop'[l].kids
          BY <1>4, <3>2
        <4>2. Used(k) /\ node[k].kind = "concurrent" /\ loop'[k].pc = "check"
          BY <1>4, <1>5, <3>2
        <4> QED
          BY <1>2, <3>1, <4>1, <4>2 DEF Alive
      <3>3. CASE k \notin A
        <4>1. loop[k].pc # "off"
          BY <1>1, <1>4, <2>1, <3>1, <3>3 DEF Runs, Alive
        <4>2. /\ Used(k) /\ node[k].kind = "concurrent"
              /\ loop[k].pc \in (Alive \ {"resuming", "resumed", "save"}) \cup {"ended"}
          BY <4>1 DEF Inv, Loops
        <4>3. PICK m \in Scopes : k \in loop[m].kids
          BY <4>1 DEF Inv, Loops
        <4>4. k \in loop'[m].kids
          BY <1>4, <2>0, <2>00, <4>3
        <4>5. loop'[k].pc \in (Alive \ {"resuming", "resumed", "save"}) \cup {"ended"}
          <5>1. CASE k = l
            <6>1. loop[l].pc # "resuming" /\ k \notin Tops
              BY <4>2, <5>1, FramesAre DEF Tops
            <6>2. pc = "check"
              <7>1. pc = "resuming" => l \in Tops
                BY <1>4, <1>6 DEF Hearing
              <7> QED
                BY <1>1, <5>1, <6>1, <7>1
            <6> QED
              BY <1>4, <5>1, <6>2 DEF Alive
          <5>2. CASE k # l
            BY <1>4, <3>1, <3>3, <4>2, <5>2
          <5> QED
            BY <5>1, <5>2
        <4> QED
          BY <1>2, <3>1, <4>2, <4>4, <4>5
      <3> QED
        BY <3>2, <3>3
    <2>2. ASSUME NEW m \in Scopes, NEW k \in loop'[m].kids
          PROVE  /\ k \in Up /\ node'[k].kind = "concurrent" /\ loop'[k].pc # "off"
                 /\ base[node'[k].caller] = m /\ Runs(m)'
      <3>1. CASE k \in loop[m].kids
        <4>1. /\ k \in Up /\ node[k].kind = "concurrent" /\ loop[k].pc # "off"
              /\ base[node[k].caller] = m /\ Runs(m)
          BY <3>1 DEF Inv, Loops
        <4>2. k \notin Z /\ k \in Scopes /\ k \in Frames
          BY <1>2, <1>4, <4>1, FramesAre
        <4>3. loop'[k].pc # "off"
          BY <1>1, <1>4, <4>1, <4>2
        <4> QED
          BY <1>2, <1>4, <4>1, <4>2, <4>3
      <3>2. CASE k \notin loop[m].kids
        <4>1. m = l /\ k \in A \cap Temps
          BY <1>4, <2>2, <3>2 DEF Off
        <4>2. Used(k) /\ loop'[k].pc = "check" /\ node[k].kind = "concurrent" /\ base[node[k].caller] = l
          BY <1>4, <1>5, <4>1
        <4>3. k \in Up /\ k \in Frames
          BY <4>1, <4>2, FramesAre DEF Up
        <4> QED
          BY <1>2, <1>4, <4>1, <4>2, <4>3
      <3> QED
        BY <3>1, <3>2
    <2>3. ASSUME NEW q \in Paused
          PROVE  loop'[q].pc \in (Alive \ {"save"}) \cup {"off", "paused", "answered", "failed"}
      <3>1. \/ loop'[q].pc = loop[q].pc \/ loop'[q].pc \in {"check", "resuming", "off"}
        BY <1>1, <1>2, <1>4 DEF Off
      <3> QED
        BY <3>1 DEF Inv, Loops, Alive
    <2>4. loop'[Main].pc \in Alive \cup {"off", "crashed", "answered", "failed", "cleanup"}
      <3>1. loop'[Main].pc = loop[Main].pc \/ loop'[Main].pc \in {"check", "resuming"}
        BY <1>1, <1>4, FramesAre
      <3> QED
        BY <3>1 DEF Inv, Loops, Alive
    <2>5. \A m \in Scopes : \A k \in loop'[m].kids : k \in Up'
      BY <1>2, <2>2
    <2> QED
      BY <2>1, <2>2, <2>3, <2>4, <2>5 DEF Loops
  <1>22. Leaves'
    <2>1. ASSUME NEW m \in Scopes, Runs(m)', NEW f \in Up, Lives(f),
                 node[f].call = win'[loop'[m].at].call
          PROVE  /\ m = Main /\ loop'[m].at = Main
                 /\ loop'[m].pc \in {"check", "join", "save"} /\ pending'
      <3>1. CASE m = l
        BY <1>1, <1>3, <1>4, <2>1, <3>1
      <3>2. CASE m \in A
        <4>1. loop'[m].at \in Frames /\ node[f].call # win[loop'[m].at].call
          BY <1>5, <2>1, <3>2
        <4>2. win'[loop'[m].at].call = win[loop'[m].at].call
          BY <1>30, <4>1, FramesAre
        <4> QED
          BY <2>1, <4>1, <4>2
      <3>3. CASE m # l /\ m \notin A
        <4>1. Runs(m) /\ loop'[m] = loop[m] /\ loop[m].at \in Scopes
          BY <1>4, <2>1, <3>3, AtIs
        <4>2. node[f].call = win[loop[m].at].call
          BY <1>30, <2>1, <4>1
        <4>3. m = Main /\ loop[m].at = Main /\ loop[m].pc \in {"check", "join", "save"} /\ pending
          BY <2>1, <4>1, <4>2 DEF Inv, Leaves
        <4> QED
          BY <1>6, <3>3, <4>1, <4>3
      <3> QED
        BY <3>1, <3>2, <3>3
    <2> QED
      BY <1>2, <2>1 DEF Leaves
  <1>23. Answers'
    <2>1. ASSUME NEW q \in Paused, loop'[q].pc = "answered", loop'[q].at = q
          PROVE  win'[q].prog = "none"
      <3>1. loop'[q] = loop[q]
        BY <1>1, <1>2, <1>4, <2>1 DEF Off
      <3>2. win'[q].prog = win[q].prog
        BY <1>2, <1>30
      <3> QED
        BY <2>1, <3>1, <3>2 DEF Inv, Answers
    <2> QED
      BY <2>1 DEF Answers
  <1>24. Stacks(base)'
    <2>1. ASSUME NEW y \in Frames, node'[y].status = "suspended"
          PROVE  \E f \in Serving' : node'[f].caller = y
      <3>1. node[y].status = "suspended"
        BY <1>2, <2>1
      <3>2. PICK f \in Serving : node[f].caller = y
        BY <3>1 DEF Inv, Stacks
      <3>3. f \in Serving' /\ f \in Frames
        BY <1>2, <3>2 DEF Serving
      <3> QED
        BY <1>2, <3>2, <3>3
    <2>2. ASSUME main' = "suspended" PROVE \E f \in Serving' : node'[f].caller = Main
      <3>1. PICK f \in Serving : node[f].caller = Main
        BY <1>6, <2>2 DEF Inv, Stacks
      <3>2. f \in Serving' /\ f \in Frames
        BY <1>2, <3>1 DEF Serving
      <3> QED
        BY <1>2, <3>1, <3>2
    <2>3. \A f \in Up' : node'[f].kind = "concurrent" => node'[f].parallel
      <3>1. \A f \in Up : node[f].parallel \in BOOLEAN
        BY <1>0, <1>2 DEF Node
      <3>2. \A f \in Up : node[f].kind = "concurrent" => node[f].parallel
        BY DEF Inv, Stacks
      <3> QED
        BY <1>2, <3>1, <3>2
    <2>4. \A f \in Serving' : node'[f].parallel <=> base[f] # Main
      BY <1>2, <1>6
    <2> QED
      BY <2>1, <2>2, <2>3, <2>4 DEF Stacks
  <1> QED
    BY <1>6, <1>10, <1>11, <1>12, <1>13, <1>15, <1>16, <1>18, <1>19, <1>20, <1>21, <1>22, <1>23, <1>24 DEF Inv

\* Of two programs that run, the one resumed last goes on.
LEMMA OrdIs ==
    ASSUME NEW k \in Tops
    PROVE  /\ Ord(k) \in Nat /\ k \in Nat /\ k \in Scopes
           /\ k # Main => k \in Paused /\ Ord(k) = k /\ Ord(k) < Ord(Main)
           /\ \A m \in Tops : Ord(m) = Ord(k) => m = k
           /\ \A m \in Tops : Ord(m) < Ord(k) => m # Main /\ m \in Paused
           /\ \A m \in Tops : m # k => Ord(m) < Ord(k) \/ Ord(k) < Ord(m)
  <1>1. MaxFrames \in Nat /\ MaxPauses \in Nat
    BY ScopesAre
  <1>2. \A m \in Tops : m \in Nat /\ m \in Scopes /\ m <= MaxFrames + MaxPauses
    BY <1>1, ScopesAre, FramesAre DEF Tops
  <1>3. \A m \in Tops : m # Main => m \in Paused
    BY DEF Tops
  <1>4. Main \in Tops
    BY DEF Tops
  <1>5. \A m \in Tops : Ord(m) \in Nat /\ (m # Main => Ord(m) = m /\ Ord(m) < Ord(Main))
    <2>1. Ord(Main) = MaxFrames + MaxPauses + 1
      BY DEF Ord
    <2>2. ASSUME NEW m \in Tops, m # Main PROVE Ord(m) = m
      BY <2>2 DEF Ord
    <2> QED
      BY <1>1, <1>2, <2>1, <2>2
  <1>6. ASSUME NEW m \in Tops, Ord(m) = Ord(k) PROVE m = k
    BY <1>4, <1>5, <1>6
  <1>7. ASSUME NEW m \in Tops, Ord(m) < Ord(k) PROVE m # Main
    BY <1>4, <1>5, <1>7
  <1>8. ASSUME NEW m \in Tops, m # k PROVE Ord(m) < Ord(k) \/ Ord(k) < Ord(m)
    <2>1. Ord(m) # Ord(k) /\ Ord(m) \in Nat /\ Ord(k) \in Nat
      BY <1>5, <1>6, <1>8
    <2> QED
      BY <2>1
  <1> QED
    BY <1>2, <1>3, <1>5, <1>6, <1>7, <1>8

\* Two loops do not wait for one resumed program.
LEMMA ResumedByOne ==
    ASSUME NEW base \in [Scopes -> Scopes], NEW top \in [Scopes -> Scopes], Inv(base, top),
           NEW l \in Scopes, loop[l].pc = "resuming",
           NEW k \in Scopes, loop[k].pc = "resuming",
           win[loop[k].at].resumable = win[loop[l].at].resumable
    PROVE  k = l
  <1> DEFINE p == win[loop[l].at].resumable
  <1>1. l \in Tops /\ loop[l].at = l /\ p \in Paused /\ (l # Main => p < l)
    BY ResumingIs
  <1>2. k \in Tops /\ loop[k].at = k /\ (k # Main => p < k)
    BY ResumingIs
  <1>3. p \in Nat /\ l \in Nat /\ k \in Nat
    BY <1>1, <1>2, FramesAre, OrdIs
  <1>4. ASSUME Ord(l) < Ord(k) PROVE FALSE
    <2>1. l <= p
      BY <1>1, <1>2, <1>4 DEF Inv, Hearing
    <2> QED
      BY <1>1, <1>2, <1>3, <1>4, <2>1, OrdIs
  <1>5. ASSUME Ord(k) < Ord(l) PROVE FALSE
    <2>1. k <= p
      BY <1>1, <1>2, <1>5 DEF Inv, Hearing
    <2> QED
      BY <1>1, <1>2, <1>3, <1>5, <2>1, OrdIs
  <1> QED
    BY <1>1, <1>2, <1>4, <1>5, OrdIs

\* Behind a resumed program that does not resume another, none runs.
LEMMA LastResumed ==
    ASSUME NEW base \in [Scopes -> Scopes], NEW top \in [Scopes -> Scopes], Inv(base, top),
           NEW l \in Scopes, loop[l].pc = "resuming", NEW p, p = win[loop[l].at].resumable,
           loop[p].pc # "resuming"
    PROVE  \A m \in Tops \ {p} : Ord(m) < Ord(l) => loop[m].pc \in {"off", "crashed"}
  <1>1. /\ l \in Tops /\ loop[l].at = l /\ p \in Paused /\ p # Main /\ p \in Tops
        /\ loop[p].pc # "off"
    BY ResumingIs
  <1>2. ASSUME NEW m \in Tops, m # p, Ord(m) < Ord(l), loop[m].pc \notin {"off", "crashed"}
        PROVE  FALSE
    <2>1. m <= p
      BY <1>1, <1>2 DEF Inv, Hearing
    <2>2. m # Main /\ Ord(m) = m /\ Ord(p) = p /\ m \in Nat /\ p \in Nat
      BY <1>1, <1>2, OrdIs
    <2>3. Ord(m) < Ord(p)
      BY <1>2, <2>1, <2>2
    <2>4. loop[p].pc # "crashed"
      BY <1>1 DEF Inv, Loops, Alive
    <2> QED
      BY <1>1, <1>2, <2>3, <2>4 DEF Inv, Hearing
  <1> QED
    BY <1>2

\* Marks on the frames of one program that leave each frame live or not, as it was.
Marked(ns, p, mark, f) ==
    /\ mark[f].kind = ns[f].kind /\ mark[f].call = ns[f].call
    /\ mark[f].caller = ns[f].caller /\ mark[f].parent = ns[f].parent
    /\ mark[f].status # "free" <=> ns[f].status # "free"
    /\ Live(mark[f]) <=> Live(ns[f])
    /\ mark[f].status = "suspended" <=> ns[f].status = "suspended"
    /\ ns[f].parallel => mark[f].parallel
    /\ ns[f].status = "free" => mark[f] = ns[f]
    /\ f \notin Chain(ns, p) => mark[f] = ns[f]

LEMMA MarkedPaused ==
    ASSUME NEW ns \in [Frames -> Node], NEW p, NEW f \in Frames
    PROVE  /\ Marked(ns, p, MarkPaused(ns, p), f)
           /\ f \in Chain(ns, p) /\ Live(ns[f]) =>
                 /\ MarkPaused(ns, p)[f].parallel = TRUE /\ MarkPaused(ns, p)[f].safe = TRUE
                 /\ MarkPaused(ns, p)[f].status =
                       IF ns[f].status = "running" THEN "paused" ELSE ns[f].status
           /\ MarkPaused(ns, p)[f].status = "paused" =>
                 ns[f].status = "paused" \/ f \in Chain(ns, p)
  <1>1. CASE f \in Chain(ns, p) /\ Live(ns[f])
    <2>1. PICK s : s = IF ns[f].status = "running" THEN "paused" ELSE ns[f].status
      OBVIOUS
    <2>2. MarkPaused(ns, p)[f] = [ns[f] EXCEPT !.status = s, !.parallel = TRUE, !.safe = TRUE]
      BY <1>1, <2>1 DEF MarkPaused
    <2> DEFINE n == MarkPaused(ns, p)[f]
    <2>3. n = [ns[f] EXCEPT !.status = s, !.parallel = TRUE, !.safe = TRUE] /\ ns[f] \in Node
      BY <2>2
    <2> HIDE DEF n
    <2>4. /\ n.kind = ns[f].kind /\ n.call = ns[f].call
          /\ n.caller = ns[f].caller /\ n.parent = ns[f].parent
          /\ n.status = s /\ n.parallel = TRUE /\ n.safe = TRUE
      BY <2>3 DEF Node
    <2>5. ns[f].status \in {"running", "suspended", "paused"} /\ Live(n)
      BY <1>1, <2>1, <2>4 DEF Live
    <2>6. s \in {"suspended", "paused"} /\ (s = "suspended" <=> ns[f].status = "suspended")
      BY <2>1, <2>5
    <2>7. Marked(ns, p, MarkPaused(ns, p), f)
      BY <1>1, <2>4, <2>5, <2>6 DEF Marked, n
    <2> QED
      BY <1>1, <2>1, <2>4, <2>7 DEF n
  <1>2. CASE ~ (f \in Chain(ns, p) /\ Live(ns[f]))
    <2>1. MarkPaused(ns, p)[f] = ns[f]
      BY <1>2 DEF MarkPaused
    <2> QED
      BY <1>2, <2>1 DEF Marked
  <1> QED
    BY <1>1, <1>2

LEMMA MarkedResumed ==
    ASSUME NEW ns \in [Frames -> Node], NEW p, NEW f \in Frames
    PROVE  /\ Marked(ns, p, MarkResumed(ns, p), f)
           /\ MarkResumed(ns, p)[f].status =
                 IF f \in Chain(ns, p) /\ ns[f].status = "paused" THEN "running" ELSE ns[f].status
           /\ MarkResumed(ns, p)[f].parallel = ns[f].parallel
  <1>1. CASE f \in Chain(ns, p) /\ ns[f].status = "paused"
    <2>2. MarkResumed(ns, p)[f] = [ns[f] EXCEPT !.status = "running"]
      BY <1>1 DEF MarkResumed
    <2> DEFINE n == MarkResumed(ns, p)[f]
    <2>3. n = [ns[f] EXCEPT !.status = "running"] /\ ns[f] \in Node
      BY <2>2
    <2> HIDE DEF n
    <2>4. /\ n.kind = ns[f].kind /\ n.call = ns[f].call
          /\ n.caller = ns[f].caller /\ n.parent = ns[f].parent
          /\ n.status = "running" /\ n.parallel = ns[f].parallel
      BY <2>3 DEF Node
    <2>7. Marked(ns, p, MarkResumed(ns, p), f)
      BY <1>1, <2>4 DEF Marked, n, Live
    <2> QED
      BY <1>1, <2>4, <2>7 DEF n
  <1>2. CASE ~ (f \in Chain(ns, p) /\ ns[f].status = "paused")
    <2>1. MarkResumed(ns, p)[f] = ns[f]
      BY <1>2 DEF MarkResumed
    <2> QED
      BY <1>2, <2>1 DEF Marked
  <1> QED
    BY <1>1, <1>2

LEMMA PausedAgainKeeps ==
    ASSUME NEW base \in [Scopes -> Scopes], NEW top \in [Scopes -> Scopes],
           Inv(base, top), TypeOK', NEW l \in Scopes, ResumePaused(l)
    PROVE  Inv(base, top)'
  <1> DEFINE p == win[loop[l].at].resumable
  <1>1. /\ loop[l].pc = "resuming" /\ loop[p].pc = "paused"
        /\ node' = MarkPaused(node, p)
        /\ loop' = [loop EXCEPT ![l].pc = "check", ![p] = Off]
        /\ UNCHANGED <<main, win, recorded, pending, called, sent, crashes, torn>>
    BY DEF ResumePaused, tally
  <1>2. /\ Runs(l) /\ l \in Tops /\ loop[l].at = l /\ win[l].prog = "resume"
        /\ p \in Paused /\ p \in Frames /\ p \in Scopes /\ Used(p) /\ p # l /\ p # Main
        /\ p \in Tops
        /\ \A m \in Scopes : Runs(m) /\ (loop[m].at = p \/ top[loop[m].at] = p) => top[m] = p
    BY <1>1, ResumingIs
  <1>3. /\ loop \in [Scopes -> Loop] /\ win \in [Scopes -> Window] /\ node \in [Frames -> Node]
        /\ loop[l] \in Loop
    BY DEF Inv, TypeOK
  <1>4. ~Runs(p) /\ \A m \in Scopes : Runs(m) => top[m] # p
    <2>1. ~Runs(p)
      BY <1>1 DEF Runs, Alive
    <2> QED
      BY <2>1 DEF Inv, Places
  <1>5. \A m \in Tops \ {p} : Ord(m) < Ord(l) => loop[m].pc \in {"off", "crashed"}
    <2>1. loop[p].pc # "resuming"
      BY <1>1
    <2> HIDE DEF p
    <2> QED
      BY <1>1, <2>1, LastResumed DEF p
  <1>6. \A k \in Scopes : loop[k].pc = "resuming" /\ win[loop[k].at].resumable = p => k = l
    BY <1>1, ResumedByOne
  <1>7. \A f \in Scopes : f \in Chain(node, p) <=> f = p \/ (f \in Up /\ top[f] = p)
    <2> HIDE DEF p
    <2> QED
      BY <1>2, ChainTops
  <1> HIDE DEF p
  <1>8. /\ \A k \in Scopes : k # p /\ k # l => loop'[k] = loop[k]
        /\ loop'[p] = Off
        /\ loop'[l].pc = "check" /\ loop'[l].at = l /\ loop'[l].kids = loop[l].kids
    <2> DEFINE r == [loop[l] EXCEPT !.pc = "check"]
    <2>1. loop' = [[loop EXCEPT ![l] = r] EXCEPT ![p] = Off]
      BY <1>1, <1>2, <1>3
    <2>2. r.pc = "check" /\ r.at = l /\ r.kids = loop[l].kids
      BY <1>2, <1>3 DEF Loop
    <2> HIDE DEF r
    <2>3. loop'[p] = Off /\ loop'[l] = r /\ \A k \in Scopes : k # p /\ k # l => loop'[k] = loop[k]
      BY <1>2, <1>3, <2>1
    <2> QED
      BY <2>2, <2>3
  <1>9. \A f \in Frames : /\ Marked(node, p, node', f)
                          /\ node'[f].status = "paused" => node[f].status = "paused" \/ f \in Chain(node, p)
                          /\ f \in Chain(node, p) /\ Lives(f) => node'[f].parallel = TRUE
    BY <1>1, <1>3, MarkedPaused DEF Lives
  <1>10. ASSUME NEW m \in Scopes, Runs(m)'
         PROVE  /\ Runs(m) /\ m # p /\ loop[m].at \in Scopes /\ loop'[m].at = loop[m].at
                /\ loop[m].at \notin Chain(node, p)
    <2>1. Runs(m) /\ m # p /\ loop'[m].at = loop[m].at
      BY <1>2, <1>8, <1>10 DEF Runs, Alive, Off
    <2>2. loop[m].at \in Scopes
      BY <2>1, AtIs
    <2> QED
      BY <1>2, <1>4, <1>7, <2>1, <2>2
  <1>11. Places(base, top)'
    <2>1. /\ top[Main] = Main /\ \A q \in Paused : top[q] = q
          /\ \A f \in Up : top[f] = top[node'[f].caller]
          /\ \A f \in Frames : Used(f) => top[base[f]] = top[f] /\ top[f] \in Tops
      BY <1>9, UpwardsIs DEF Inv, Places, Marked
    <2>2. ASSUME NEW f \in Frames, node'[f].status = "paused"
          PROVE  top[f] \in Paused /\ ~Runs(top[f])'
      <3>1. node[f].status = "paused" \/ f \in Chain(node, p)
        BY <1>9, <2>2
      <3>2. CASE node[f].status = "paused"
        <4>1. top[f] \in Paused /\ ~Runs(top[f]) /\ top[f] \in Scopes
          BY <3>2, FramesAre DEF Inv, Places
        <4> QED
          BY <1>10, <4>1
      <3>3. CASE f \in Chain(node, p)
        <4>1. top[f] = p
          BY <1>2, <1>7, <3>3, <2>1, FramesAre
        <4> QED
          BY <1>2, <1>10, <4>1
      <3> QED
        BY <3>1, <3>2, <3>3
    <2>3. ASSUME NEW m \in Scopes, Runs(m)'
          PROVE  /\ Runs(top[m])'
                 /\ \/ IF loop'[m].at = Main THEN main' = "running"
                                             ELSE node'[loop'[m].at].status = "running"
                    \/ /\ m = Main /\ loop'[m].at = Main
                       /\ loop'[m].pc \in {"check", "join"} /\ pending' /\ win'[Main].prog # "none"
      <3>1. /\ Runs(m) /\ m # p /\ loop[m].at \in Scopes /\ loop'[m].at = loop[m].at
            /\ loop[m].at \notin Chain(node, p)
        BY <1>10, <2>3
      <3>2. Runs(top[m]) /\ (Running(loop[m].at) \/ Pausing(m))
        BY <3>1 DEF Inv, Places
      <3>3. Runs(top[m])'
        <4>1. top[m] # p /\ top[m] \in Scopes
          BY <1>4, <3>1
        <4> QED
          BY <1>8, <3>2, <4>1 DEF Runs, Alive
      <3>4. CASE Running(loop[m].at)
        <4>1. loop[m].at # Main => node'[loop[m].at] = node[loop[m].at]
          BY <1>9, <3>1, FramesAre DEF Marked
        <4> QED
          BY <1>1, <3>1, <3>3, <3>4, <4>1 DEF Running
      <3>5. CASE Pausing(m)
        <4>1. m # l
          BY <1>1, <3>5 DEF Pausing
        <4>2. loop'[m] = loop[m]
          BY <1>8, <3>1, <4>1
        <4> QED
          BY <1>1, <3>3, <3>5, <4>2 DEF Pausing
      <3> QED
        BY <3>2, <3>4, <3>5
    <2>4. Up' = Up /\ \A f \in Frames : Used(f)' <=> Used(f)
      BY <1>9, FramesAre DEF Marked, Up, Used
    <2> QED
      BY <2>1, <2>2, <2>3, <2>4 DEF Places, Running, Pausing
  <1>12. Hearing'
    <2>0. \A k \in Scopes : loop'[k].pc \notin {"off", "crashed"} =>
             loop[k].pc \notin {"off", "crashed"} /\ k # p
      BY <1>1, <1>8 DEF Off
    <2>1. ASSUME NEW k \in Tops, NEW m \in Tops,
                 loop'[k].pc \notin {"off", "crashed"}, loop'[m].pc \notin {"off", "crashed"},
                 Ord(m) < Ord(k)
          PROVE  loop'[k].pc = "resuming" /\ m <= win'[loop'[k].at].resumable
      <3>1. /\ loop[k].pc \notin {"off", "crashed"} /\ k # p /\ k \in Scopes
            /\ loop[m].pc \notin {"off", "crashed"} /\ m # p
        BY <2>0, <2>1, OrdIs
      <3>2. k # l
        BY <1>5, <2>1, <3>1
      <3>3. loop'[k] = loop[k]
        BY <1>8, <3>1, <3>2
      <3> QED
        BY <1>1, <2>1, <3>1, <3>3 DEF Inv, Hearing
    <2>2. ASSUME NEW k \in Scopes, loop'[k].pc \in {"resuming", "resumed"}
          PROVE  /\ k \in Tops /\ loop'[k].at \in Tops /\ win'[loop'[k].at].prog = "resume"
                 /\ loop'[k].pc = "resuming" => /\ win'[loop'[k].at].resumable # None
                                               /\ loop'[win'[loop'[k].at].resumable].pc # "off"
      <3>1. k # l /\ k # p
        BY <1>8, <2>2 DEF Off
      <3>2. loop'[k] = loop[k] /\ win' = win
        BY <1>1, <1>8, <3>1
      <3>3. k \in Tops /\ loop[k].at \in Tops /\ win[loop[k].at].prog = "resume"
        BY <2>2, <3>2 DEF Inv, Hearing
      <3>4. ASSUME loop[k].pc = "resuming"
            PROVE  /\ win[loop[k].at].resumable # None
                   /\ loop'[win[loop[k].at].resumable].pc # "off"
        <4>1. PICK r : r = win[loop[k].at].resumable
          OBVIOUS
        <4>2. r # None /\ loop[r].pc # "off"
          BY <3>4, <4>1 DEF Inv, Hearing
        <4>3. r \in Scopes
          BY <3>4, <4>1, ResumingIs
        <4>4. r # p
          BY <1>6, <3>1, <3>4, <4>1
        <4>5. loop'[r].pc # "off"
          BY <1>8, <4>2, <4>3, <4>4
        <4> QED
          BY <4>1, <4>2, <4>5
      <3> QED
        BY <2>2, <3>2, <3>3, <3>4
    <2>3. ASSUME NEW q \in Paused, loop'[q].pc # "off" PROVE loop'[Main].pc = "resuming"
      <3>1. q # p /\ loop[q].pc # "off" /\ q \in Tops /\ q \in Scopes
        BY <1>1, <1>8, <2>3, FramesAre DEF Off, Tops
      <3>2. loop[Main].pc = "resuming"
        BY <3>1 DEF Inv, Hearing
      <3>3. l # Main
        <4>1. loop[q].pc # "crashed"
          BY DEF Inv, Loops, Alive
        <4>2. q # Main
          BY FramesAre
        <4>3. Ord(q) < Ord(Main)
          BY <3>1, <4>2, OrdIs
        <4> QED
          BY <1>5, <3>1, <4>1, <4>3
      <3> QED
        BY <1>2, <1>8, <3>2, <3>3, FramesAre
    <2>4. ASSUME NEW k \in Scopes, loop'[k].pc = "join" PROVE InProgram(loop[k].at) /\ loop'[k].at = loop[k].at
      <3>1. loop'[k] = loop[k]
        BY <1>8, <2>4 DEF Off
      <3> QED
        BY <2>4, <3>1 DEF Inv, Hearing
    <2>5. loop'[Main].pc \in {"join", "save"} => loop'[Main] = loop[Main]
      BY <1>2, <1>8, FramesAre
    <2>6. loop'[Main].pc # "save"
      <3>1. l # Main => loop[Main].pc # "save"
        BY <1>2, SavingIsQuiet, FramesAre DEF Saving
      <3> QED
        BY <1>8, <2>5, <3>1
    <2>7. loop'[Main].pc \in {"join", "save"} => pending' /\ win'[Main].prog # "none"
      BY <1>1, <2>5 DEF Inv, Hearing
    <2>8. \A k \in Scopes : loop'[k].pc = "join" => loop'[k].at # Main \/ win'[Main].prog # "none"
      BY <1>1, <2>4 DEF InProgram
    <2> QED
      BY <2>1, <2>2, <2>3, <2>6, <2>7, <2>8 DEF Hearing, InProgram
  <1>13. ASSUME NEW f \in Serving PROVE node'[f].parallel <=> base[f] # Main
    <2>1. f \in Up /\ f \in Frames /\ f \in Scopes /\ Lives(f) /\ top[base[f]] = top[f]
      BY UpwardsIs DEF Serving
    <2>2. CASE f \in Chain(node, p)
      <3>1. top[f] = p
        BY <1>2, <1>7, <2>1, <2>2 DEF Inv, Places
      <3>2. base[f] # Main
        BY <1>2, <2>1, <3>1 DEF Inv, Places
      <3> QED
        BY <1>9, <2>1, <2>2, <3>2
    <2>3. CASE f \notin Chain(node, p)
      <3>1. node'[f] = node[f]
        BY <1>9, <2>1, <2>3 DEF Marked
      <3> QED
        BY <3>1 DEF Inv, Stacks
    <2> QED
      BY <2>2, <2>3
  <1>14. win[l].there
    BY <1>2, AtIs
  <1>15. Marks(base, top, l, l, {}, {p}, "check")
    <2>1. \A f \in Frames :
            /\ node'[f].kind = node[f].kind /\ node'[f].call = node[f].call
            /\ node'[f].caller = node[f].caller /\ node'[f].parent = node[f].parent
            /\ Used(f)' <=> Used(f)
            /\ Lives(f)' <=> Lives(f)
            /\ node'[f].status = "suspended" <=> node[f].status = "suspended"
            /\ node[f].parallel => node'[f].parallel
            /\ ~Used(f) => node'[f] = node[f]
      BY <1>9 DEF Marked, Used, Lives
    <2>2. /\ Runs(l) /\ loop[l].pc \in {"step", "enter", "waiting", "resuming"}
          /\ l = loop[l].at
          /\ \A z \in {p} : ~Runs(z) /\ loop'[z] = Off
          /\ loop'[l].pc = "check" /\ loop'[l].at = l /\ loop'[l].kids = loop[l].kids \cup ({} \cap Temps)
          /\ \A k \in Scopes \ ({} \cup {p} \cup {l}) : loop'[k] = loop[k]
      BY <1>1, <1>2, <1>4, <1>8
    <2> QED
      BY <1>1, <1>2, <1>11, <1>12, <1>13, <1>14, <2>1, <2>2 DEF Marks
  <1> QED
    BY <1>15, MarksKeep

LEMMA ResumedKeeps ==
    ASSUME NEW base \in [Scopes -> Scopes], NEW top \in [Scopes -> Scopes],
           Inv(base, top), TypeOK', NEW l \in Scopes, BeginResume(l)
    PROVE  Inv(base, top)'
  <1> DEFINE x == loop[l].at
             p == win[x].resumable
             i == Innermost(MarkResumed(node, p), p)
  <1>1. /\ loop[l].pc \in {"step", "enter"} /\ W(l).prog = "resume"
        /\ p # None /\ win[p].there
        /\ node' = MarkResumed(node, p)
        /\ loop' = [loop EXCEPT ![l].pc = "resuming", ![p] = [Off EXCEPT !.pc = "check", !.at = i]]
        /\ win' = [win EXCEPT ![x] = W(l)]
        /\ Take(l) \/ pending' = pending
        /\ UNCHANGED <<main, recorded, called, sent, crashes, torn>>
    BY DEF BeginResume, Pending, HasPaused, Put, tally
  <1>2. /\ loop \in [Scopes -> Loop] /\ win \in [Scopes -> Window] /\ node \in [Frames -> Node]
        /\ loop[l] \in Loop
    BY DEF Inv, TypeOK
  <1>3. /\ Runs(l) /\ x \in Scopes /\ win[x].there /\ base[x] = l /\ ~Saving
    <2>1. Runs(l)
      BY <1>1 DEF Runs, Alive
    <2>2. l = Main => ~Saving
      BY <1>1 DEF Saving
    <2>3. ~Saving
      BY <2>1, <2>2, SavingIsQuiet, FramesAre
    <2> QED
      BY <2>1, <2>3, AtIs DEF Inv, Bases
  <1>4. /\ W(l).there /\ W(l).resumable = win[x].resumable /\ W(l).inflight \subseteq win[x].inflight
        /\ W(l).prog = win[x].prog /\ W(l).call = win[x].call
        /\ pending' = pending \/ (pending' = FALSE /\ l \in Tops)
    <2>1. /\ W(l).there /\ W(l).resumable = win[x].resumable
          /\ W(l).inflight = win[x].inflight \ recorded
          /\ IF win[x].prog = "call" /\ win[x].call \in recorded
             THEN W(l).prog = "ready" /\ W(l).call = None
             ELSE W(l).prog = win[x].prog /\ W(l).call = win[x].call
          /\ Take(l) => pending' = pending \/ (pending' = FALSE /\ l \in Tops)
      BY <1>3, SeesIs
    <2> QED
      BY <1>1, <2>1
  <1>5. /\ p \in Paused /\ Used(p) /\ Lives(p) /\ x \in Tops /\ x = l /\ (l # Main => p < l)
        /\ p \in Frames /\ p \in Scopes /\ p \in Tops /\ p # Main /\ p # l /\ l \in Tops
        /\ p \in Nat
    <2>1. x \in Tops /\ p \in Paused /\ Used(p) /\ (x \in Paused => p < x)
      BY <1>1, <1>3 DEF Inv, Windows
    <2>2. base[x] = x
      BY <2>1 DEF Inv, Bases, Tops
    <2>3. Lives(p)
      BY <1>1, <2>1 DEF Inv, Windows
    <2>4. p \in Frames /\ p \in Scopes /\ p \in Tops /\ p # Main /\ p \in Nat
      BY <2>1, FramesAre DEF Tops
    <2>5. x = l
      BY <1>3, <2>2
    <2>6. l # Main => p < l
      BY <2>1, <2>5 DEF Tops
    <2>7. p # l
      BY <2>4, <2>6
    <2> QED
      BY <2>1, <2>3, <2>4, <2>5, <2>6, <2>7
  <1>6. \A f \in Scopes : f \in Chain(node, p) <=> f = p \/ (f \in Up /\ top[f] = p)
    <2> HIDE DEF p
    <2> QED
      BY <1>5, ChainTops
  <1> HIDE DEF x
  <1>7. /\ i \in Frames /\ i \in Scopes /\ base[i] = p /\ top[i] = top[p] /\ Lives(i) /\ Used(i)
        /\ node[i].status # "suspended"
        /\ \A f \in Up : Lives(f) => node[f].call # win[i].call
    <2>1. PICK ns : ns = MarkResumed(node, p)
      OBVIOUS
    <2>2. \A f \in Frames : ns[f].call = node[f].call /\ (Live(ns[f]) <=> Lives(f))
      BY <1>2, <2>1, MarkedResumed DEF Marked, Lives
    <2>3. i = Innermost(ns, p)
      BY <2>1
    <2>4. base[p] = p
      BY <1>5 DEF Inv, Bases
    <2> HIDE DEF p, i
    <2> QED
      BY <1>3, <1>5, <2>2, <2>3, <2>4, StoppedAt
  <1> HIDE DEF p, i
  <1>8. /\ \A k \in Scopes : k # p /\ k # l => loop'[k] = loop[k]
        /\ loop'[p].pc = "check" /\ loop'[p].at = i /\ loop'[p].kids = {}
        /\ loop'[l].pc = "resuming" /\ loop'[l].at = l /\ loop'[l].kids = loop[l].kids
    <2> DEFINE r == [loop[l] EXCEPT !.pc = "resuming"]
               n == [Off EXCEPT !.pc = "check", !.at = i]
    <2>1. loop' = [[loop EXCEPT ![l] = r] EXCEPT ![p] = n]
      BY <1>1, <1>2, <1>5
    <2>2. r.pc = "resuming" /\ r.at = l /\ r.kids = loop[l].kids
      BY <1>2, <1>5 DEF Loop, x
    <2>4. n.pc = "check" /\ n.at = i /\ n.kids = {}
      BY DEF Off
    <2> HIDE DEF r, n
    <2>3. loop'[p] = n /\ loop'[l] = r /\ \A k \in Scopes : k # p /\ k # l => loop'[k] = loop[k]
      BY <1>2, <1>5, <2>1
    <2> QED
      BY <2>2, <2>3, <2>4
  <1>9. \A f \in Frames : /\ Marked(node, p, node', f) /\ node'[f].parallel = node[f].parallel
                          /\ node'[f].status = IF f \in Chain(node, p) /\ node[f].status = "paused"
                                               THEN "running" ELSE node[f].status
    BY <1>1, <1>2, MarkedResumed
  <1>10. /\ win'[l] = W(l) /\ \A y \in Scopes : y # l => win'[y] = win[y]
         /\ \A y \in Scopes : win'[y].prog = win[y].prog /\ win'[y].resumable = win[y].resumable
    <2>1. win'[l] = W(l) /\ \A y \in Scopes : y # l => win'[y] = win[y]
      BY <1>1, <1>2, <1>5
    <2> QED
      BY <1>4, <1>5, <2>1
  <1>11. \A m \in Tops : Ord(m) < Ord(l) => loop[m].pc \in {"off", "crashed"}
    <2>1. l \in Tops /\ loop[l].pc \notin {"off", "crashed", "resuming"}
      BY <1>1, <1>5
    <2> QED
      BY <2>1 DEF Inv, Hearing
  <1>12. loop[p].pc = "off" /\ Ord(p) < Ord(l) /\ Ord(p) = p
    <2>1. Ord(p) = p /\ Ord(p) < Ord(Main)
      BY <1>5, OrdIs
    <2>2. l # Main => Ord(l) = l
      BY <1>5, OrdIs
    <2>3. Ord(p) < Ord(l)
      BY <1>5, <2>1, <2>2
    <2>4. loop[p].pc # "crashed"
      BY <1>5 DEF Inv, Loops, Alive
    <2> QED
      BY <1>5, <1>11, <2>1, <2>3, <2>4
  <1>13. l # Main => loop[Main].pc = "resuming"
    <2>1. l # Main => l \in Paused
      BY <1>5, OrdIs
    <2> QED
      BY <1>1, <2>1 DEF Inv, Hearing
  <1>14. ASSUME NEW m \in Scopes, Runs(m)', m # p
         PROVE  Runs(m) /\ loop[m].at \in Scopes /\ loop'[m].at = loop[m].at
    <2>1. Runs(m) /\ loop'[m].at = loop[m].at
      BY <1>3, <1>5, <1>8, <1>14 DEF Runs, Alive, x
    <2> QED
      BY <2>1, AtIs
  <1>15. Places(base, top)'
    <2>1. /\ top[Main] = Main /\ \A q \in Paused : top[q] = q
          /\ \A f \in Up : top[f] = top[node'[f].caller]
          /\ \A f \in Frames : Used(f) => top[base[f]] = top[f] /\ top[f] \in Tops
      BY <1>9, UpwardsIs DEF Inv, Places, Marked
    <2>2. ASSUME NEW f \in Frames, node'[f].status = "paused"
          PROVE  top[f] \in Paused /\ ~Runs(top[f])'
      <3>1. node[f].status = "paused" /\ f \notin Chain(node, p)
        BY <1>9, <2>2
      <3>2. top[f] \in Paused /\ ~Runs(top[f]) /\ top[f] \in Scopes
        BY <3>1, FramesAre DEF Inv, Places
      <3>3. f \in Up \/ f \in Paused
        BY <3>1, FramesAre DEF Up, Used
      <3>4. top[f] # p
        BY <1>6, <2>1, <3>1, <3>3, FramesAre
      <3> QED
        BY <1>14, <3>2, <3>4
    <2>3. ASSUME NEW m \in Scopes, Runs(m)'
          PROVE  /\ Runs(top[m])'
                 /\ \/ IF loop'[m].at = Main THEN main' = "running"
                                             ELSE node'[loop'[m].at].status = "running"
                    \/ /\ m = Main /\ loop'[m].at = Main
                       /\ loop'[m].pc \in {"check", "join"} /\ pending' /\ win'[Main].prog # "none"
      <3>1. CASE m = p
        <4>1. Runs(top[m])'
          BY <1>5, <2>1, <2>3, <3>1
        <4>2. i \in Chain(node, p)
          <5>1. i \in Up \/ i \in Paused
            BY <1>7, FramesAre DEF Up
          <5> QED
            BY <1>5, <1>6, <1>7, <2>1, <5>1
        <4>3. node'[i].status = "running" /\ i # Main
          BY <1>7, <1>9, <4>2, FramesAre DEF Lives, Live
        <4> QED
          BY <1>8, <3>1, <4>1, <4>3
      <3>2. CASE m # p
        <4>1. Runs(m) /\ loop[m].at \in Scopes /\ loop'[m].at = loop[m].at
          BY <1>14, <2>3, <3>2
        <4>2. Runs(top[m]) /\ (Running(loop[m].at) \/ Pausing(m))
          BY <4>1 DEF Inv, Places
        <4>3. Runs(top[m])'
          <5>1. top[m] \in Scopes
            OBVIOUS
          <5> QED
            BY <1>8, <4>2, <5>1 DEF Runs, Alive
        <4>4. ~Pausing(m)
          BY <1>1, <1>13 DEF Pausing
        <4>5. loop[m].at # Main => node'[loop[m].at].status = "running"
          BY <1>9, <4>1, <4>2, <4>4, FramesAre DEF Running
        <4> QED
          BY <1>1, <4>1, <4>2, <4>3, <4>4, <4>5 DEF Running
      <3> QED
        BY <3>1, <3>2
    <2>4. Up' = Up /\ \A f \in Frames : Used(f)' <=> Used(f)
      BY <1>9, FramesAre DEF Marked, Up, Used
    <2> QED
      BY <2>1, <2>2, <2>3, <2>4 DEF Places, Running, Pausing
  <1>16. Hearing'
    <2>0. \A k \in Scopes : loop'[k].pc \notin {"off", "crashed"} /\ k # p =>
             loop[k].pc \notin {"off", "crashed"}
      BY <1>1, <1>8
    <2>1. ASSUME NEW k \in Tops, NEW m \in Tops,
                 loop'[k].pc \notin {"off", "crashed"}, loop'[m].pc \notin {"off", "crashed"},
                 Ord(m) < Ord(k)
          PROVE  loop'[k].pc = "resuming" /\ m <= win'[loop'[k].at].resumable
      <3>0. /\ k \in Scopes /\ m \in Scopes /\ Ord(m) \in Nat /\ Ord(k) \in Nat /\ Ord(l) \in Nat
            /\ m \in Nat /\ m # k
        BY <1>5, <2>1, OrdIs
      <3>1. CASE k = l
        <4>1. m = p
          BY <1>11, <2>0, <2>1, <3>0, <3>1
        <4> QED
          BY <1>5, <1>8, <1>10, <3>1, <4>1 DEF p, x
      <3>2. CASE k = p
        <4>1. Ord(m) < Ord(l) /\ m # p
          BY <1>12, <2>1, <3>0, <3>2
        <4> QED
          BY <1>11, <2>0, <2>1, <3>0, <4>1
      <3>3. CASE k # l /\ k # p
        <4>1. loop'[k] = loop[k] /\ loop[k].pc \notin {"off", "crashed"}
          BY <1>8, <2>0, <2>1, <3>0, <3>3
        <4>2. CASE m # p
          <5>1. loop[k].pc = "resuming" /\ m <= win[loop[k].at].resumable
            BY <2>0, <2>1, <3>0, <4>1, <4>2 DEF Inv, Hearing
          <5>2. loop[k].at \in Scopes
            BY <1>2, <3>0 DEF Loop
          <5> QED
            BY <1>10, <4>1, <5>1, <5>2
        <4>3. CASE m = p
          <5>1. Ord(l) < Ord(k)
            BY <1>5, <1>11, <3>0, <3>3, <4>1, OrdIs
          <5>2. loop[k].pc = "resuming" /\ l <= win[loop[k].at].resumable
            BY <1>1, <1>5, <4>1, <5>1 DEF Inv, Hearing
          <5>3. p < l /\ l \in Nat
            BY <1>5, <5>1, OrdIs
          <5>4. win[loop[k].at].resumable \in Nat /\ loop[k].at \in Scopes
            <6>1. PICK r : r = win[loop[k].at].resumable
              OBVIOUS
            <6>2. r \in Frames /\ loop[k].at = k
              BY <3>0, <5>2, <6>1, ResumingIs
            <6> QED
              BY <3>0, <6>1, <6>2, FramesAre
          <5> QED
            BY <1>5, <1>10, <4>1, <4>3, <5>2, <5>3, <5>4
        <4> QED
          BY <4>2, <4>3
      <3> QED
        BY <3>1, <3>2, <3>3
    <2>2. ASSUME NEW k \in Scopes, loop'[k].pc \in {"resuming", "resumed"}
          PROVE  /\ k \in Tops /\ loop'[k].at \in Tops /\ win'[loop'[k].at].prog = "resume"
                 /\ loop'[k].pc = "resuming" => /\ win'[loop'[k].at].resumable # None
                                               /\ loop'[win'[loop'[k].at].resumable].pc # "off"
      <3>1. CASE k = l
        <4>1. win'[l].prog = "resume" /\ win'[l].resumable = p /\ l \in Scopes
          BY <1>1, <1>4, <1>5, <1>10 DEF p, x
        <4>2. loop'[k].at = l /\ p # None
          BY <1>1, <1>8, <3>1
        <4>3. loop'[p].pc # "off"
          BY <1>8
        <4> QED
          BY <1>5, <3>1, <4>1, <4>2, <4>3
      <3>2. CASE k # l
        <4>0. k # p
          BY <1>8, <2>2
        <4>1. loop'[k] = loop[k]
          BY <1>8, <3>2, <4>0
        <4>2. k \in Tops /\ loop[k].at \in Tops /\ win[loop[k].at].prog = "resume" /\ loop[k].at \in Scopes
          BY <2>2, <4>1, OrdIs DEF Inv, Hearing
        <4>3. ASSUME loop[k].pc = "resuming"
              PROVE  /\ win[loop[k].at].resumable # None
                     /\ loop'[win[loop[k].at].resumable].pc # "off"
          <5>1. PICK r : r = win[loop[k].at].resumable
            OBVIOUS
          <5>2. r # None /\ loop[r].pc # "off"
            BY <4>3, <5>1 DEF Inv, Hearing
          <5>3. r \in Scopes
            BY <4>3, <5>1, ResumingIs
          <5>5. loop'[r].pc # "off"
            BY <1>8, <5>2, <5>3
          <5> QED
            BY <5>1, <5>2, <5>5
        <4> QED
          BY <1>10, <2>2, <4>1, <4>2, <4>3
      <3> QED
        BY <3>1, <3>2
    <2>3. loop'[Main].pc = "resuming"
      BY <1>5, <1>8, <1>13, FramesAre
    <2>4. ASSUME NEW k \in Scopes, loop'[k].pc = "join"
          PROVE  loop'[k].at # Main \/ win'[Main].prog # "none"
      <3>1. loop'[k] = loop[k]
        BY <1>8, <2>4
      <3> QED
        BY <1>10, <2>4, <3>1, FramesAre DEF Inv, Hearing, InProgram
    <2> QED
      BY <2>1, <2>2, <2>3, <2>4 DEF Hearing, InProgram
  <1>17. Marks(base, top, l, l, {p}, {}, "resuming")
    <2>1. \A f \in Frames :
            /\ node'[f].kind = node[f].kind /\ node'[f].call = node[f].call
            /\ node'[f].caller = node[f].caller /\ node'[f].parent = node[f].parent
            /\ Used(f)' <=> Used(f)
            /\ Lives(f)' <=> Lives(f)
            /\ node'[f].status = "suspended" <=> node[f].status = "suspended"
            /\ node[f].parallel => node'[f].parallel
            /\ ~Used(f) => node'[f] = node[f]
      BY <1>9 DEF Marked, Used, Lives
    <2>2. \A f \in Serving : node'[f].parallel <=> base[f] # Main
      <3>1. \A f \in Serving : f \in Frames
        BY FramesAre DEF Serving, Up
      <3> QED
        BY <1>9, <3>1 DEF Inv, Stacks
    <2>3. p \notin Temps
      BY <1>5, FramesAre
    <2>4. /\ Runs(l) /\ loop[l].pc \in {"step", "enter", "waiting", "resuming"}
          /\ l = loop[l].at /\ l \notin {p} \cup {} /\ {p} \cap {} = {}
          /\ loop'[l].pc = "resuming" /\ loop'[l].at = l /\ loop'[l].kids = loop[l].kids \cup ({p} \cap Temps)
          /\ \A k \in Scopes \ ({p} \cup {} \cup {l}) : loop'[k] = loop[k]
      BY <1>1, <1>3, <1>5, <1>8, <2>3 DEF x
    <2>5. \A k \in {p} :
          /\ Used(k) /\ loop[k].pc = "off" /\ loop'[k].pc = "check" /\ loop'[k].kids = {}
          /\ loop'[k].at \in Frames /\ base[loop'[k].at] = k /\ Live(node[loop'[k].at])
          /\ \A f \in Up : Lives(f) => node[f].call # win[loop'[k].at].call
          /\ k \in Temps => node[k].kind = "concurrent" /\ base[node[k].caller] = l
      BY <1>5, <1>7, <1>8, <1>12, <2>3 DEF Lives
    <2>6. /\ win'[l].there /\ win'[l].prog = win[l].prog /\ win'[l].call = win[l].call
          /\ win'[l].inflight \subseteq win[l].inflight /\ win'[l].resumable = win[l].resumable
          /\ \A y \in Scopes \ {l} : win'[y] = win[y]
      BY <1>4, <1>5, <1>10
    <2> QED
      BY <1>1, <1>4, <1>5, <1>15, <1>16, <2>1, <2>2, <2>4, <2>5, <2>6 DEF Marks
  <1> QED
    BY <1>17, MarksKeep

\* The calls that stopped with a program are its own, and nobody runs them.
LEMMA RestartableIs ==
    ASSUME NEW base \in [Scopes -> Scopes], NEW top \in [Scopes -> Scopes], Inv(base, top),
           NEW l \in Scopes, loop[l].pc = "waiting", loop[l].kids = {},
           NEW k \in Restartable(loop[l].at)
    PROVE  /\ k \in Up /\ k \in Frames /\ k \in Scopes /\ k \in Temps /\ k # Main
           /\ Lives(k) /\ base[k] = k /\ k # l /\ loop[k].pc = "off"
           /\ node[k].kind = "concurrent" /\ base[node[k].caller] = l
           /\ top[k] = top[l]
  <1> DEFINE x == loop[l].at
  <1>1. Runs(l) /\ x \in Scopes /\ base[x] = l /\ ~Saving
    <2>1. Runs(l)
      BY DEF Runs, Alive
    <2>2. l = Main => ~Saving
      BY DEF Saving
    <2>3. ~Saving
      BY <2>1, <2>2, SavingIsQuiet, FramesAre
    <2> QED
      BY <2>1, <2>3, AtIs DEF Inv, Bases
  <1>2. PICK c \in win[x].inflight : /\ k \in Frames /\ Callees(node, c) # {}
                                     /\ k = First(Callees(node, c))
    BY DEF Restartable
  <1>3. node[k].call = c /\ Lives(k) /\ c # None
    <2>1. Callees(node, c) \subseteq Frames
      BY DEF Callees
    <2>2. k \in Callees(node, c)
      BY <1>2, <2>1, FirstIs
    <2>3. win[x].inflight \subseteq Calls
      BY <1>1 DEF Inv, TypeOK, Window
    <2>4. None \notin Calls
      BY DEF None, Calls
    <2> QED
      BY <1>2, <2>2, <2>3, <2>4 DEF Callees, Lives
  <1>4. k \in Up
    <2>1. Used(k)
      BY <1>3 DEF Lives, Live, Used
    <2>2. k \notin Paused
      BY <1>3, <2>1 DEF Inv, Tree
    <2> QED
      BY <1>2, <2>1, <2>2, FramesAre DEF Up
  <1>5. node[k].kind = "concurrent" /\ node[k].caller = x
    <2>1. node[k].call \in Pends(win[x])
      BY <1>2, <1>3 DEF Pends
    <2>2. node[k].caller = x
      BY <1>1, <1>4, <2>1 DEF Inv, Owners
    <2> QED
      BY <1>1, <1>2, <1>3, <1>4, <2>2 DEF Inv, CallsAreOne
  <1>6. k \in Frames /\ k \in Scopes /\ k \in Temps /\ k # Main /\ base[k] = k /\ top[k] = top[x]
    BY <1>4, <1>5, UpwardsIs
  <1>7. loop[k].pc = "off"
    <2>1. ASSUME loop[k].pc # "off" PROVE FALSE
      <3>1. PICK m \in Scopes : k \in loop[m].kids
        BY <1>6, <2>1 DEF Inv, Loops
      <3>2. base[node[k].caller] = m
        BY <3>1 DEF Inv, Loops
      <3> QED
        BY <1>1, <1>5, <3>1, <3>2
    <2> QED
      BY <2>1
  <1>8. top[x] = top[l]
    <2>1. CASE x = Main
      BY <1>1, <2>1 DEF Inv, Bases
    <2>2. CASE x # Main
      <3>1. x \in Frames /\ Used(x)
        BY <1>1, <2>2, AtIs, FramesAre
      <3> QED
        BY <1>1, <3>1 DEF Inv, Places
    <2> QED
      BY <2>1, <2>2
  <1> QED
    BY <1>1, <1>3, <1>4, <1>5, <1>6, <1>7, <1>8

LEMMA RestartedKeeps ==
    ASSUME NEW base \in [Scopes -> Scopes], NEW top \in [Scopes -> Scopes],
           Inv(base, top), TypeOK', NEW l \in Scopes, RunPausedCalls(l)
    PROVE  Inv(base, top)'
  <1> DEFINE x == loop[l].at
             K == Restartable(x)
  <1>16. /\ loop[l].pc = "waiting" /\ loop[l].kids = {}
         /\ UNCHANGED <<root, main, win, recorded, pending, cutOff, tally>>
    BY Zenon DEF RunPausedCalls
  <1>1. /\ loop[l].pc = "waiting" /\ loop[l].kids = {}
        /\ UNCHANGED <<main, win, recorded, pending, called, sent, crashes, torn>>
    BY <1>16 DEF tally
  <1>14. node' = [f \in Frames |-> IF f \in K THEN [node[f] EXCEPT !.safe = FALSE] ELSE node[f]]
    BY Zenon DEF RunPausedCalls
  <1>15. loop' = [k \in Scopes |->
                   IF k = l THEN [loop[l] EXCEPT !.pc = "check", !.kids = K]
                   ELSE IF k \in K THEN [Off EXCEPT !.pc = "check", !.at = Innermost(node, k)]
                   ELSE loop[k]]
    BY Zenon DEF RunPausedCalls
  <1>2. /\ loop \in [Scopes -> Loop] /\ win \in [Scopes -> Window] /\ node \in [Frames -> Node]
        /\ loop[l] \in Loop
    BY DEF Inv, TypeOK
  <1>3. /\ Runs(l) /\ x \in Scopes /\ win[x].there /\ base[x] = l /\ ~Saving
    <2>1. Runs(l)
      BY <1>1 DEF Runs, Alive
    <2>2. l = Main => ~Saving
      BY <1>1 DEF Saving
    <2>3. ~Saving
      BY <2>1, <2>2, SavingIsQuiet, FramesAre
    <2> QED
      BY <2>1, <2>3, AtIs DEF Inv, Bases
  <1>4. \A k \in K : /\ k \in Up /\ k \in Frames /\ k \in Scopes /\ k \in Temps /\ k # Main
                     /\ Lives(k) /\ base[k] = k /\ k # l /\ loop[k].pc = "off"
                     /\ node[k].kind = "concurrent" /\ base[node[k].caller] = l
                     /\ top[k] = top[l]
    BY <1>1, RestartableIs
  <1>5. ASSUME NEW k \in K
        PROVE  LET i == Innermost(node, k) IN
               /\ i \in Frames /\ i \in Scopes /\ base[i] = k /\ top[i] = top[k] /\ Lives(i) /\ Used(i)
               /\ node[i].status # "suspended"
               /\ \A f \in Up : Lives(f) => node[f].call # win[i].call
    <2>1. \A f \in Frames : node[f].call = node[f].call /\ (Live(node[f]) <=> Lives(f))
      BY DEF Lives
    <2>2. PICK i : i = Innermost(node, k)
      OBVIOUS
    <2>3. k \in Frames /\ base[k] = k /\ Lives(k)
      BY <1>4
    <2> HIDE DEF K
    <2>4. /\ i \in Frames /\ i \in Scopes /\ base[i] = k /\ top[i] = top[k] /\ Lives(i) /\ Used(i)
          /\ node[i].status # "suspended"
          /\ \A f \in Up : Lives(f) => node[f].call # win[i].call
      BY <1>3, <2>1, <2>2, <2>3, StoppedAt
    <2> QED
      BY <2>2, <2>4
  <1> HIDE DEF x, K
  <1>6. /\ \A k \in Scopes : k \notin K /\ k # l => loop'[k] = loop[k]
        /\ \A k \in K : loop'[k].pc = "check" /\ loop'[k].at = Innermost(node, k) /\ loop'[k].kids = {}
        /\ loop'[l].pc = "check" /\ loop'[l].at = x /\ loop'[l].kids = K
    <2>1. \A k \in Scopes : k \notin K /\ k # l => loop'[k] = loop[k]
      BY <1>15, Zenon
    <2>2. loop'[l] = [loop[l] EXCEPT !.pc = "check", !.kids = K]
      BY <1>15, Zenon
    <2>3. loop'[l].pc = "check" /\ loop'[l].at = x /\ loop'[l].kids = K
      BY <1>2, <2>2 DEF Loop, x
    <2>4. ASSUME NEW k \in K
          PROVE  loop'[k].pc = "check" /\ loop'[k].at = Innermost(node, k) /\ loop'[k].kids = {}
      <3>1. loop'[k] = [Off EXCEPT !.pc = "check", !.at = Innermost(node, k)]
        <4>1. k \in Scopes /\ k # l
          BY <1>4
        <4> QED
          BY <1>15, <4>1, Zenon
      <3> QED
        BY <3>1 DEF Off
    <2> QED
      BY <2>1, <2>3, <2>4
  <1>7. \A f \in Frames :
          /\ node'[f].kind = node[f].kind /\ node'[f].call = node[f].call
          /\ node'[f].caller = node[f].caller /\ node'[f].parent = node[f].parent
          /\ node'[f].status = node[f].status /\ node'[f].parallel = node[f].parallel
          /\ f \notin K => node'[f] = node[f]
    <2>1. ASSUME NEW f \in Frames
          PROVE  /\ node'[f].kind = node[f].kind /\ node'[f].call = node[f].call
                 /\ node'[f].caller = node[f].caller /\ node'[f].parent = node[f].parent
                 /\ node'[f].status = node[f].status /\ node'[f].parallel = node[f].parallel
                 /\ f \notin K => node'[f] = node[f]
      <3>1. node[f] \in Node /\ node'[f] = IF f \in K THEN [node[f] EXCEPT !.safe = FALSE] ELSE node[f]
        BY <1>2, <1>14
      <3> QED
        BY <3>1 DEF Node
    <2> QED
      BY <2>1
  <1>8. Runs(l) => Runs(top[l])
    BY DEF Inv, Places
  <1>9. ASSUME NEW m \in Scopes, Runs(m)', m \notin K
        PROVE  Runs(m) /\ loop[m].at \in Scopes /\ loop'[m].at = loop[m].at
    <2>1. Runs(m) /\ loop'[m].at = loop[m].at
      BY <1>3, <1>6, <1>9 DEF Runs, x
    <2> QED
      BY <2>1, AtIs
  <1>10. \A m \in Scopes : Runs(m) => Runs(m)'
    BY <1>4, <1>6 DEF Runs, Alive
  <1>11. Places(base, top)'
    <2>1. /\ top[Main] = Main /\ \A q \in Paused : top[q] = q
          /\ \A f \in Up : top[f] = top[node'[f].caller]
          /\ \A f \in Frames : Used(f) => top[base[f]] = top[f] /\ top[f] \in Tops
      BY <1>7, UpwardsIs DEF Inv, Places
    <2>2. ASSUME NEW f \in Frames, node'[f].status = "paused"
          PROVE  top[f] \in Paused /\ ~Runs(top[f])'
      <3>1. node[f].status = "paused"
        BY <1>7, <2>2
      <3>2. top[f] \in Paused /\ ~Runs(top[f]) /\ top[f] \in Scopes
        BY <3>1, FramesAre DEF Inv, Places
      <3>3. top[f] \notin K
        BY <1>4, <3>2, FramesAre
      <3> QED
        BY <1>9, <3>2, <3>3
    <2>3. ASSUME NEW m \in Scopes, Runs(m)'
          PROVE  /\ Runs(top[m])'
                 /\ \/ IF loop'[m].at = Main THEN main' = "running"
                                             ELSE node'[loop'[m].at].status = "running"
                    \/ /\ m = Main /\ loop'[m].at = Main
                       /\ loop'[m].pc \in {"check", "join"} /\ pending' /\ win'[Main].prog # "none"
      <3>1. CASE m \in K
        <4>1. PICK i : i = Innermost(node, m)
          OBVIOUS
        <4>2. /\ i \in Frames /\ i \in Scopes /\ top[i] = top[m] /\ Lives(i) /\ node[i].status # "suspended"
          BY <1>5, <3>1, <4>1
        <4>3. top[m] = top[l] /\ Runs(top[l]) /\ top[l] \in Scopes
          BY <1>3, <1>4, <1>8, <3>1
        <4>4. Runs(top[m])'
          BY <1>10, <4>3
        <4>5. node[i].status # "paused"
          BY <4>2, <4>3 DEF Inv, Places
        <4>6. node'[i].status = "running" /\ i # Main
          BY <1>7, <4>2, <4>5, FramesAre DEF Lives, Live
        <4> QED
          BY <1>6, <3>1, <4>1, <4>4, <4>6
      <3>2. CASE m \notin K
        <4>1. Runs(m) /\ loop[m].at \in Scopes /\ loop'[m].at = loop[m].at
          BY <1>9, <2>3, <3>2
        <4>2. Runs(top[m]) /\ (Running(loop[m].at) \/ Pausing(m)) /\ top[m] \in Scopes
          BY <4>1 DEF Inv, Places
        <4>3. Runs(top[m])'
          BY <1>10, <4>2
        <4>4. loop[m].at # Main => node'[loop[m].at].status = node[loop[m].at].status
          BY <1>7, <4>1, FramesAre
        <4>5. CASE Running(loop[m].at)
          BY <1>1, <4>1, <4>3, <4>4, <4>5 DEF Running
        <4>6. CASE Pausing(m)
          <5>1. m # l
            BY <1>1, <4>6 DEF Pausing
          <5>2. loop'[m] = loop[m]
            BY <1>6, <3>2, <5>1
          <5> QED
            BY <1>1, <4>3, <4>6, <5>2 DEF Pausing
        <4> QED
          BY <4>2, <4>5, <4>6
      <3> QED
        BY <3>1, <3>2
    <2>4. Up' = Up /\ \A f \in Frames : Used(f)' <=> Used(f)
      BY <1>7, FramesAre DEF Up, Used
    <2> QED
      BY <2>1, <2>2, <2>3, <2>4 DEF Places, Running, Pausing
  <1>12. Hearing'
    <2>0. \A k \in Tops : k \in Scopes /\ k \notin K /\ (k # l => loop'[k] = loop[k])
      <3>1. \A k \in Tops : k \in Scopes /\ k \notin Temps
        BY FramesAre DEF Tops
      <3> QED
        BY <1>4, <1>6, <3>1
    <2>1. ASSUME NEW k \in Tops, NEW m \in Tops,
                 loop'[k].pc \notin {"off", "crashed"}, loop'[m].pc \notin {"off", "crashed"},
                 Ord(m) < Ord(k)
          PROVE  loop'[k].pc = "resuming" /\ m <= win'[loop'[k].at].resumable
      <3>1. loop[k].pc \notin {"off", "crashed"} /\ loop[m].pc \notin {"off", "crashed"}
        BY <1>1, <2>0, <2>1
      <3>2. loop[k].pc = "resuming" /\ m <= win[loop[k].at].resumable
        BY <2>1, <3>1 DEF Inv, Hearing
      <3>3. loop'[k] = loop[k]
        BY <1>1, <2>0, <3>2
      <3> QED
        BY <1>1, <3>2, <3>3
    <2>2. ASSUME NEW k \in Scopes, loop'[k].pc \in {"resuming", "resumed"}
          PROVE  /\ k \in Tops /\ loop'[k].at \in Tops /\ win'[loop'[k].at].prog = "resume"
                 /\ loop'[k].pc = "resuming" => /\ win'[loop'[k].at].resumable # None
                                               /\ loop'[win'[loop'[k].at].resumable].pc # "off"
      <3>1. loop'[k] = loop[k] /\ win' = win
        BY <1>1, <1>6, <2>2
      <3>2. k \in Tops /\ loop[k].at \in Tops /\ win[loop[k].at].prog = "resume"
        BY <2>2, <3>1 DEF Inv, Hearing
      <3>3. ASSUME loop[k].pc = "resuming"
            PROVE  /\ win[loop[k].at].resumable # None
                   /\ loop'[win[loop[k].at].resumable].pc # "off"
        <4>1. PICK r : r = win[loop[k].at].resumable
          OBVIOUS
        <4>2. r # None /\ loop[r].pc # "off"
          BY <3>3, <4>1 DEF Inv, Hearing
        <4>3. r \in Scopes
          BY <3>3, <4>1, ResumingIs
        <4>4. loop'[r].pc # "off"
          BY <1>6, <4>2, <4>3
        <4> QED
          BY <4>1, <4>2, <4>4
      <3> QED
        BY <2>2, <3>1, <3>2, <3>3
    <2>3. ASSUME NEW q \in Paused, loop'[q].pc # "off" PROVE loop'[Main].pc = "resuming"
      <3>1. loop[q].pc # "off"
        BY <1>1, <2>0, <2>3 DEF Tops
      <3>2. loop[Main].pc = "resuming"
        BY <3>1 DEF Inv, Hearing
      <3> QED
        BY <1>1, <2>0, <3>2 DEF Tops
    <2>4. ASSUME NEW k \in Scopes, loop'[k].pc = "join"
          PROVE  loop'[k].at # Main \/ win'[Main].prog # "none"
      <3>1. loop'[k] = loop[k]
        BY <1>6, <2>4
      <3> QED
        BY <1>1, <2>4, <3>1 DEF Inv, Hearing, InProgram
    <2>5. loop'[Main].pc # "save" /\ (loop'[Main].pc = "join" => loop[Main].pc = "join")
      BY <1>3, <1>6, <2>0 DEF Saving, Tops
    <2>6. loop'[Main].pc \in {"join", "save"} => pending' /\ win'[Main].prog # "none"
      BY <1>1, <2>5 DEF Inv, Hearing
    <2> QED
      BY <2>1, <2>2, <2>3, <2>4, <2>5, <2>6 DEF Hearing, InProgram
  <1>13. Marks(base, top, l, x, K, {}, "check")
    <2>1. \A f \in Frames :
            /\ node'[f].kind = node[f].kind /\ node'[f].call = node[f].call
            /\ node'[f].caller = node[f].caller /\ node'[f].parent = node[f].parent
            /\ Used(f)' <=> Used(f)
            /\ Lives(f)' <=> Lives(f)
            /\ node'[f].status = "suspended" <=> node[f].status = "suspended"
            /\ node[f].parallel => node'[f].parallel
            /\ ~Used(f) => node'[f] = node[f]
      <3>1. \A f \in Frames : ~Used(f) => f \notin K
        BY <1>4 DEF Up
      <3> QED
        BY <1>7, <3>1 DEF Used, Lives, Live
    <2>2. \A f \in Serving : node'[f].parallel <=> base[f] # Main
      <3>1. \A f \in Serving : f \in Frames
        BY FramesAre DEF Serving, Up
      <3> QED
        BY <1>7, <3>1 DEF Inv, Stacks
    <2>4. /\ Runs(l) /\ loop[l].pc \in {"step", "enter", "waiting", "resuming"}
          /\ x = loop[l].at /\ l \notin K \cup {} /\ K \cap {} = {} /\ K \subseteq Frames
          /\ loop'[l].pc = "check" /\ loop'[l].at = x /\ loop'[l].kids = loop[l].kids \cup (K \cap Temps)
          /\ \A k \in Scopes \ (K \cup {} \cup {l}) : loop'[k] = loop[k]
      BY <1>1, <1>3, <1>4, <1>6 DEF x
    <2>5. ASSUME NEW k \in K
          PROVE /\ Used(k) /\ loop[k].pc = "off" /\ loop'[k].pc = "check" /\ loop'[k].kids = {}
                /\ loop'[k].at \in Frames /\ base[loop'[k].at] = k /\ Live(node[loop'[k].at])
                /\ \A f \in Up : Lives(f) => node[f].call # win[loop'[k].at].call
                /\ k \in Temps => node[k].kind = "concurrent" /\ base[node[k].caller] = l
      <3>1. PICK i : i = Innermost(node, k)
        OBVIOUS
      <3>2. /\ i \in Frames /\ base[i] = k /\ Lives(i)
            /\ \A f \in Up : Lives(f) => node[f].call # win[i].call
        BY <1>5, <3>1
      <3>3. loop'[k].at = i /\ loop'[k].pc = "check" /\ loop'[k].kids = {}
        BY <1>6, <3>1
      <3>4. Used(k) /\ loop[k].pc = "off" /\ node[k].kind = "concurrent" /\ base[node[k].caller] = l
        BY <1>4 DEF Up
      <3> QED
        BY <3>2, <3>3, <3>4 DEF Lives
    <2> QED
      BY <1>1, <1>3, <1>11, <1>12, <2>1, <2>2, <2>4, <2>5 DEF Marks
  <1> QED
    BY <1>13, MarksKeep

-----------------------------------------------------------------------------
(* The main program pauses.                                                *)

\* The frames that p takes over: those of the calls that the main program waits for.
Moved(w) == {f \in Up : node[f].caller = Main /\ node[f].call \in Pends(w)}

\* The program's window w and its frames, all of C, are those of the paused program p.
Pauses(p, w, C) ==
    /\ p \in Paused /\ ~Used(p) /\ \A q \in Paused : ~Used(q) => p <= q
    /\ w = Recover(win[Main]) /\ win'[Main] = w /\ win'[p] = w
    /\ \A y \in Scopes : y # Main /\ y # p => win'[y] = win[y]
    /\ loop[Main].pc = "join" /\ loop[Main].at = Main
    /\ loop'[Main].pc = "save" /\ loop'[Main].at = Main /\ loop'[Main].kids = {}
    /\ \A k \in Frames : loop'[k].pc = "off" /\ loop'[k].kids = {} /\ (~Used(k) => loop'[k] = Off)
    /\ main' = "running"
    /\ UNCHANGED <<recorded, pending, called, sent, crashes, torn>>
    /\ node'[p].kind = "previous" /\ node'[p].call = None /\ node'[p].parallel
    /\ node'[p].caller = Main /\ node'[p].parent = Main /\ node'[p].status = "paused"
    /\ \A f \in Frames : f # p =>
          /\ node'[f].kind = node[f].kind /\ node'[f].call = node[f].call
          /\ node'[f].parent = node[f].parent
          /\ node'[f].caller = IF f \in Moved(w) THEN p ELSE node[f].caller
          /\ node'[f].status # "free" <=> Used(f)
          /\ Live(node'[f]) <=> Lives(f)
          /\ node'[f].status = "suspended" <=> node[f].status = "suspended"
          /\ node'[f].status = "paused" => node[f].status = "paused" \/ f \in C
          /\ node[f].parallel => node'[f].parallel
          /\ f \in C /\ Lives(f) => node'[f].parallel
          /\ ~Used(f) => node'[f] = node[f]
    /\ p \in C /\ C \subseteq Scopes /\ C \ {p} \subseteq Up /\ Moved(w) \subseteq C
    /\ \A f \in Up \ Moved(w) : node[f].caller \in C <=> f \in C
    /\ \A T \in SUBSET Scopes :
          p \in T /\ Moved(w) \subseteq T /\ (\A f \in Up \ Moved(w) : node[f].caller \in T => f \in T)
             => C \subseteq T

\* When the main program may pause, no other loop runs.
LEMMA OnlyEnded ==
    ASSUME NEW base \in [Scopes -> Scopes], NEW top \in [Scopes -> Scopes], Inv(base, top),
           Stopped(Main)
    PROVE  \A k \in Frames : ~Runs(k) /\ (loop[k].pc # "off" => k \in loop[Main].kids)
  <1>1. loop[Main].pc = "join" /\ \A k \in loop[Main].kids : loop[k].pc = "ended"
    BY DEF Stopped
  <1>2. \A q \in Paused : loop[q].pc = "off"
    BY <1>1 DEF Inv, Hearing
  <1>3. ASSUME NEW k \in Temps, Runs(k) PROVE FALSE
    <2>1. Runs(top[k]) /\ top[k] \in Tops
      BY <1>3, Climb DEF Runs, Alive
    <2>2. top[k] = Main
      BY <1>2, <2>1 DEF Tops, Runs, Alive
    <2>3. \E m \in loop[Main].kids : Runs(m)
      BY <1>3, <2>2, FirstKid DEF Tops
    <2> QED
      BY <1>1, <2>3 DEF Runs, Alive
  <1>4. ASSUME NEW k \in Temps, loop[k].pc # "off" PROVE k \in loop[Main].kids
    <2>1. PICK m \in Scopes : k \in loop[m].kids /\ Runs(m)
      BY <1>4, Climb
    <2>2. m = Main
      BY <1>2, <1>3, <2>1, FramesAre DEF Runs, Alive
    <2> QED
      BY <2>1, <2>2
  <1> QED
    BY <1>2, <1>3, <1>4, FramesAre DEF Runs, Alive

LEMMA PausesKeep ==
    ASSUME NEW base \in [Scopes -> Scopes], NEW top \in [Scopes -> Scopes],
           Inv(base, top), TypeOK', Stopped(Main), NEW p, NEW w, NEW C, Pauses(p, w, C)
    PROVE  \E b, t \in [Scopes -> Scopes] : Inv(b, t)'
  <1>0. /\ node \in [Frames -> Node] /\ win \in [Scopes -> Window] /\ loop \in [Scopes -> Loop]
        /\ node' \in [Frames -> Node] /\ win' \in [Scopes -> Window]
    BY DEF Inv, TypeOK
  <1>1. /\ Main \in Scopes /\ Main \in Tops /\ ~Saving /\ Saving'
        /\ pending /\ win[Main].prog # "none" /\ win[Main].there
        /\ loop[Main].pc = "join" /\ loop[Main].at = Main
        /\ main' = "running" /\ pending' = pending
        /\ UNCHANGED <<recorded, called, sent, crashes, torn>>
    <2>1. loop[Main].pc = "join" /\ loop[Main].at = Main /\ loop'[Main].pc = "save" /\ main' = "running"
          /\ UNCHANGED <<recorded, pending, called, sent, crashes, torn>>
      BY DEF Pauses
    <2>2. pending /\ win[Main].prog # "none"
      BY <2>1 DEF Inv, Hearing
    <2>3. win[Main].there
      BY <2>1 DEF Inv, Windows
    <2> QED
      BY <2>1, <2>2, <2>3, FramesAre DEF Saving, Tops
  <1>2. /\ p \in Paused /\ p \in Frames /\ p \in Scopes /\ p \in Tops /\ p # Main /\ p \notin Up
        /\ p \notin Temps /\ ~Used(p) /\ ~Lives(p) /\ p \in Nat
        /\ node[p] = NoNode /\ win[p] = NoWindow
        /\ \A q \in Paused : ~Used(q) => p <= q
    <2>1. p \in Paused /\ ~Used(p) /\ \A q \in Paused : ~Used(q) => p <= q
      BY DEF Pauses
    <2>2. p \in Frames /\ p \in Scopes /\ p \in Tops /\ p # Main /\ p \notin Temps /\ p \in Nat
      BY <2>1, FramesAre DEF Tops
    <2> QED
      BY <2>1, <2>2 DEF Inv, Tree, Up, Lives, Live, Used
  <1>3. /\ w.there /\ w.resumable = win[Main].resumable /\ w.inflight = win[Main].inflight \ recorded
        /\ IF win[Main].prog = "call" /\ win[Main].call \in recorded
           THEN w.prog = "ready" /\ w.call = None
           ELSE w.prog = win[Main].prog /\ w.call = win[Main].call
        /\ w \in Window
    <2>1. w = Recover(win[Main]) /\ win[Main] \in Window
      BY <1>0, <1>1 DEF Pauses
    <2>2. PICK v \in Window : v = win[Main]
      BY <2>1
    <2>3. /\ Recover(v) \in Window /\ Recover(v).there = v.there
          /\ Recover(v).resumable = v.resumable
          /\ Recover(v).inflight = v.inflight \ recorded
          /\ IF v.prog = "call" /\ v.call \in recorded
             THEN Recover(v).prog = "ready" /\ Recover(v).call = None
             ELSE Recover(v).prog = v.prog /\ Recover(v).call = v.call
      BY RecoverIs
    <2>4. w = Recover(v)
      BY <2>1, <2>2
    <2> QED
      BY <1>1, <2>2, <2>3, <2>4
  <1>4. /\ win'[Main] = w /\ win'[p] = w
        /\ \A y \in Scopes : y # Main /\ y # p => win'[y] = win[y]
    BY DEF Pauses
  <1>5. /\ w.prog # "none" /\ (w.prog = "call" <=> w.call # None)
        /\ w.call = win[Main].call \/ w.call = None
        /\ w.inflight \subseteq win[Main].inflight
        /\ Pends(w) \subseteq Pends(win[Main])
        /\ \A c \in Pends(win[Main]) : c \notin recorded => c \in Pends(w)
    <2>1. win[Main].prog = "call" <=> win[Main].call # None
      BY <1>1 DEF Inv, Windows
    <2>2. w.prog # "none" /\ (w.prog = "call" <=> w.call # None)
      BY <1>1, <1>3, <2>1
    <2>3. w.call = win[Main].call \/ w.call = None
      BY <1>3
    <2>4. win[Main].call \notin recorded => w.call = win[Main].call
      BY <1>3
    <2> QED
      BY <1>3, <2>2, <2>3, <2>4 DEF Pends
  <1>6. /\ loop'[Main].pc = "save" /\ loop'[Main].at = Main /\ loop'[Main].kids = {}
        /\ \A k \in Frames : ~Used(k) => loop'[k] = Off
        /\ \A k \in Frames : loop'[k].pc = "off"
        /\ \A m \in Scopes : loop'[m].kids = {}
        /\ \A m \in Scopes : loop'[m].pc \notin {"off", "crashed"} => m = Main
    <2>1. /\ loop'[Main].pc = "save" /\ loop'[Main].at = Main /\ loop'[Main].kids = {}
          /\ \A k \in Frames : loop'[k].pc = "off" /\ loop'[k].kids = {} /\ (~Used(k) => loop'[k] = Off)
      BY DEF Pauses
    <2>2. \A m \in Scopes : m = Main \/ m \in Frames
      BY FramesAre
    <2> QED
      BY <2>1, <2>2 DEF Off
  <1>7. /\ node'[p].kind = "previous" /\ node'[p].call = None /\ node'[p].parallel
        /\ node'[p].caller = Main /\ node'[p].parent = Main /\ node'[p].status = "paused"
        /\ \A f \in Frames : f # p =>
              /\ node'[f].kind = node[f].kind /\ node'[f].call = node[f].call
              /\ node'[f].parent = node[f].parent
              /\ node'[f].caller = IF f \in Moved(w) THEN p ELSE node[f].caller
              /\ node'[f].status # "free" <=> Used(f)
              /\ Live(node'[f]) <=> Lives(f)
              /\ node'[f].status = "suspended" <=> node[f].status = "suspended"
              /\ node'[f].status = "paused" => node[f].status = "paused" \/ f \in C
              /\ node[f].parallel => node'[f].parallel
              /\ f \in C /\ Lives(f) => node'[f].parallel
              /\ ~Used(f) => node'[f] = node[f]
    BY DEF Pauses
  <1>8. /\ p \in C /\ C \subseteq Scopes /\ C \ {p} \subseteq Up /\ Moved(w) \subseteq C
        /\ \A f \in Up \ Moved(w) : node[f].caller \in C <=> f \in C
        /\ \A T \in SUBSET Scopes :
              p \in T /\ Moved(w) \subseteq T /\ (\A f \in Up \ Moved(w) : node[f].caller \in T => f \in T)
                 => C \subseteq T
        /\ Main \notin C /\ \A q \in Tops : q \in C => q = p
    <2>1. /\ p \in C /\ C \subseteq Scopes /\ C \ {p} \subseteq Up /\ Moved(w) \subseteq C
          /\ \A f \in Up \ Moved(w) : node[f].caller \in C <=> f \in C
          /\ \A T \in SUBSET Scopes :
                p \in T /\ Moved(w) \subseteq T /\ (\A f \in Up \ Moved(w) : node[f].caller \in T => f \in T)
                   => C \subseteq T
      BY DEF Pauses
    <2>2. \A q \in Tops : q \notin Up
      BY UpwardsIs
    <2> QED
      BY <1>1, <1>2, <2>1, <2>2
  <1>9. /\ \A f \in Moved(w) : f \in Up /\ node[f].caller = Main /\ node[f].call \in Pends(w)
        /\ Moved(w) \subseteq Frames
        /\ \A f \in Up : f \in Frames /\ f \in Scopes /\ f \in Temps /\ f # p
        /\ \A f \in Frames : f # p => (Used(f)' <=> Used(f)) /\ (Lives(f)' <=> Lives(f))
        /\ Used(p)' /\ Lives(p)'
        /\ Up' = Up /\ (\A f : f \in Serving' <=> f \in Serving)
    <2>1. \A f \in Up : f \in Frames /\ f \in Scopes /\ f \in Temps /\ f # p
      BY <1>2, UpwardsIs
    <2>2. \A f \in Frames : f # p => (Used(f)' <=> Used(f)) /\ (Lives(f)' <=> Lives(f))
      BY <1>7 DEF Used, Lives
    <2>3. Used(p)' /\ Lives(p)'
      BY <1>7 DEF Used, Lives, Live
    <2>4. Up' = Up
      BY <1>2, <2>2, FramesAre DEF Up
    <2>5. \A f : f \in Serving' <=> f \in Serving
      BY <1>7, <2>1, <2>2, <2>4 DEF Serving
    <2> QED
      BY <2>1, <2>2, <2>3, <2>4, <2>5 DEF Moved
  \* What a serial call of the main program opened goes with it.
  <1>10. ASSUME NEW f \in Serving, node[f].caller = Main PROVE f \in Moved(w)
    <2>1. win[Main].call = node[f].call /\ f \in Up /\ Lives(f)
      BY <1>10 DEF Inv, Waits, Serving
    <2>2. node[f].call # None /\ node[f].call \notin recorded
      BY <2>1, UpwardsIs DEF Inv, CallsAreOne
    <2> QED
      BY <1>5, <1>10, <2>1, <2>2 DEF Moved, Pends
  <1> DEFINE K == {f \in Serving : base[f] = Main /\ f \notin C}
  <1>11. \A f \in Serving : base[f] = Main => f \in C
    <2>1. SUFFICES ASSUME K # {} PROVE FALSE
      OBVIOUS
    <2>2. PICK f \in K : \A g \in K : f <= g
      <3>1. K \subseteq Frames
        BY <1>9 DEF Serving
      <3> QED
        BY <2>1, <3>1, FirstIs
    <2>3. /\ f \in Serving /\ f \in Up /\ base[f] = Main /\ f \notin C /\ node[f].kind = "serial"
          /\ base[node[f].caller] = Main /\ f \in Nat
      BY <2>2, UpwardsIs DEF Serving
    <2>4. node[f].caller # Main
      BY <1>8, <1>10, <2>3
    <2>5. node[f].caller \in Up
      <3>1. node[f].caller \in Paused => base[node[f].caller] = node[f].caller
        BY DEF Inv, Bases
      <3>2. node[f].caller \in Paused => node[f].caller # Main
        BY FramesAre
      <3> QED
        BY <2>3, <2>4, <3>1, <3>2, UpwardsIs DEF Tops
    <2>6. node[f].caller \in Serving
      <3>1. node[node[f].caller].status = "suspended"
        BY <1>9, <2>3, <2>5 DEF Inv, Waits
      <3>2. node[node[f].caller].kind = "serial"
        <4>1. base[node[f].caller] # node[f].caller
          BY <2>3, <2>4
        <4> QED
          BY <2>5, <4>1, UpwardsIs
      <3> QED
        BY <2>5, <3>1, <3>2 DEF Serving, Lives, Live
    <2>7. node[f].caller < f /\ node[f].caller \in Nat
      BY <2>3, <2>5, UpwardsIs
    <2>8. node[f].caller \in C
      BY <2>2, <2>3, <2>6, <2>7
    <2>9. f \notin Moved(w)
      BY <1>8, <2>3
    <2> QED
      BY <1>8, <2>3, <2>8, <2>9
  <1> HIDE DEF K
  \* What goes with it was below the main task, in a stack of the main program or of
  \* a call that goes with it.
  <1>12. ASSUME NEW f \in C, f # p
         PROVE  f \in Up /\ top[f] = Main /\ (base[f] = Main \/ base[f] \in C)
    <2> DEFINE T == {p} \cup {g \in Up : g \in C /\ top[g] = Main /\ (base[g] = Main \/ base[g] \in C)}
    <2>1. T \in SUBSET Scopes /\ p \in T
      BY <1>2, <1>9
    <2>2. base[Main] = Main /\ top[Main] = Main
      BY DEF Inv, Bases, Places
    <2>3. Moved(w) \subseteq T
      <3>1. ASSUME NEW g \in Moved(w) PROVE g \in T
        <4>1. g \in Up /\ g \in C /\ node[g].caller = Main
          BY <1>8, <1>9
        <4> QED
          BY <2>2, <4>1, UpwardsIs
      <3> QED
        BY <3>1
    <2>4. ASSUME NEW g \in Up \ Moved(w), node[g].caller \in T PROVE g \in T
      <3>1. node[g].caller # p
        BY <1>2, <2>4, UpwardsIs
      <3>2. g \in C
        BY <1>8, <2>4
      <3> QED
        BY <2>4, <3>1, <3>2, UpwardsIs
    <2>5. C \subseteq T
      <3> HIDE DEF T
      <3> QED
        BY <1>8, <2>1, <2>3, <2>4
    <2> QED
      BY <1>12, <2>5
  <1>13. \A f \in Up : base[f] \in C => f \in C
    <2> DEFINE bad == {f \in Up : base[f] \in C /\ f \notin C}
    <2>1. SUFFICES ASSUME bad # {} PROVE FALSE
      OBVIOUS
    <2>2. PICK f \in bad : \A g \in bad : f <= g
      <3>1. bad \subseteq Frames
        BY <1>9
      <3> QED
        BY <2>1, <3>1, FirstIs
    <2>3. f \in Up /\ base[f] \in C /\ f \notin C /\ f \notin Moved(w) /\ f \in Nat
      BY <1>8, <2>2, UpwardsIs
    <2>4. node[f].kind = "serial" /\ base[node[f].caller] \in C
      BY <2>3, UpwardsIs
    <2>5. CASE node[f].caller \in Up
      <3>1. node[f].caller < f /\ node[f].caller \in Nat
        BY <2>3, <2>5, UpwardsIs
      <3>2. node[f].caller \in C
        BY <2>2, <2>3, <2>4, <2>5, <3>1
      <3> QED
        BY <1>8, <2>3, <3>2
    <2>6. CASE node[f].caller \in Tops
      <3>1. base[node[f].caller] = node[f].caller
        BY <2>6 DEF Inv, Bases, Tops
      <3>2. node[f].caller = p
        BY <1>8, <2>4, <2>6, <3>1
      <3> QED
        BY <1>2, <2>3, <3>2, UpwardsIs
    <2> QED
      BY <2>3, <2>5, <2>6, UpwardsIs
  <1>14. PICK b \in [Scopes -> Scopes] :
            \A y \in Scopes : b[y] = IF y \in C /\ (y = p \/ base[y] = Main) THEN p ELSE base[y]
    <2> DEFINE bb == [y \in Scopes |-> IF y \in C /\ (y = p \/ base[y] = Main) THEN p ELSE base[y]]
    <2>1. bb \in [Scopes -> Scopes]
      BY <1>2
    <2>2. \A y \in Scopes : bb[y] = IF y \in C /\ (y = p \/ base[y] = Main) THEN p ELSE base[y]
      OBVIOUS
    <2> HIDE DEF bb
    <2> QED
      BY <2>1, <2>2
  <1>15. PICK t \in [Scopes -> Scopes] : \A y \in Scopes : t[y] = IF y \in C THEN p ELSE top[y]
    <2> DEFINE tt == [y \in Scopes |-> IF y \in C THEN p ELSE top[y]]
    <2>1. tt \in [Scopes -> Scopes]
      BY <1>2
    <2>2. \A y \in Scopes : tt[y] = IF y \in C THEN p ELSE top[y]
      OBVIOUS
    <2> HIDE DEF tt
    <2> QED
      BY <2>1, <2>2
  <1>16. /\ b[p] = p /\ b[Main] = Main /\ t[p] = p /\ t[Main] = Main
         /\ \A q \in Paused : b[q] = q /\ t[q] = q
         /\ \A f \in Up : f \notin C => b[f] = base[f] /\ t[f] = top[f]
         /\ \A f \in C : t[f] = p /\ b[f] # Main
         /\ \A f \in Up : node'[f].caller \in Scopes
    <2>1. base[Main] = Main /\ top[Main] = Main /\ \A q \in Paused : base[q] = q /\ top[q] = q
      BY DEF Inv, Bases, Places
    <2>2. \A q \in Paused : q \in Scopes /\ (q \in C => q = p)
      BY <1>8, FramesAre DEF Tops
    <2>3. \A q \in Paused : b[q] = q /\ t[q] = q
      BY <1>14, <1>15, <2>1, <2>2
    <2>4. \A f \in C : t[f] = p /\ b[f] # Main
      BY <1>2, <1>8, <1>12, <1>14, <1>15
    <2>5. \A f \in Up : f \notin C => b[f] = base[f] /\ t[f] = top[f]
      BY <1>9, <1>14, <1>15
    <2>6. \A f \in Up : node'[f].caller \in Scopes
      BY <1>2, <1>7, <1>9, UpwardsIs
    <2> QED
      BY <1>1, <1>2, <1>8, <1>14, <1>15, <2>1, <2>3, <2>4, <2>5, <2>6
  <1>20. Tree'
    <2>1. \A f, g \in Temps : g < f /\ Used(f)' => Used(g)'
      <3>1. \A f \in Temps : Used(f)' <=> Used(f)
        BY <1>2, <1>9, FramesAre
      <3> QED
        BY <3>1 DEF Inv, Tree
    <2>2. \A f \in Frames : ~Used(f)' => node'[f] = NoNode /\ win'[f] = NoWindow /\ loop'[f] = Off
      <3>1. ASSUME NEW f \in Frames, ~Used(f)'
            PROVE  node'[f] = node[f] /\ win'[f] = win[f] /\ loop'[f] = Off /\ ~Used(f)
        <4>1. f # p /\ f # Main /\ f \in Scopes
          BY <1>9, <3>1, FramesAre
        <4> QED
          BY <1>4, <1>6, <1>7, <1>9, <3>1, <4>1
      <3> QED
        BY <3>1 DEF Inv, Tree
    <2>3. ASSUME NEW f \in Up
          PROVE  /\ node'[f].kind \in {"serial", "concurrent"} /\ node'[f].call # None
                 /\ node'[f].caller = Main \/ node'[node'[f].caller].status # "free"
                 /\ node'[f].caller \in Temps => node'[f].caller < f
                 /\ node'[f].parent = node'[f].caller \/ (node'[f].parent = Main /\ node'[f].caller \in Paused)
      <3>1. /\ node[f].kind \in {"serial", "concurrent"} /\ node[f].call # None
            /\ node[f].caller = Main \/ Used(node[f].caller)
            /\ node[f].caller \in Temps => node[f].caller < f
            /\ node[f].parent = node[f].caller \/ (node[f].parent = Main /\ node[f].caller \in Paused)
            /\ node[f].caller \in Scopes
        BY UpwardsIs DEF Inv, Tree
      <3>2. f # p /\ f \in Frames
        BY <1>9
      <3>3. CASE f \in Moved(w)
        <4>1. node'[f].caller = p /\ node[f].caller = Main /\ node'[f].parent = Main
          BY <1>7, <1>9, <3>1, <3>2, <3>3, FramesAre
        <4>2. node'[p].status # "free"
          BY <1>7
        <4> QED
          BY <1>2, <1>7, <3>1, <3>2, <4>1, <4>2
      <3>4. CASE f \notin Moved(w)
        <4>1. node'[f].caller = node[f].caller /\ node'[f].parent = node[f].parent
          BY <1>7, <3>2, <3>4
        <4>2. node[f].caller = Main \/ (node[f].caller \in Frames /\ node[f].caller # p /\ Used(node[f].caller))
          BY <1>2, <3>1, FramesAre
        <4>3. node[f].caller = Main \/ node'[node[f].caller].status # "free"
          BY <1>7, <4>2
        <4> QED
          BY <1>7, <3>1, <3>2, <4>1, <4>3
      <3> QED
        BY <3>3, <3>4
    <2>4. ASSUME NEW q \in Paused, Used(q)'
          PROVE  /\ node'[q].kind = "previous" /\ node'[q].call = None /\ node'[q].parallel
                 /\ node'[q].caller = Main /\ node'[q].parent = Main
      <3>1. CASE q = p
        BY <1>7, <3>1
      <3>2. CASE q # p
        <4>1. q \in Frames /\ q \notin Up /\ Used(q)
          BY <1>9, <2>4, <3>2, FramesAre DEF Up
        <4>2. /\ node[q].kind = "previous" /\ node[q].call = None /\ node[q].parallel
              /\ node[q].caller = Main /\ node[q].parent = Main
          BY <4>1 DEF Inv, Tree
        <4>3. q \notin Moved(w)
          BY <1>9, <4>1
        <4> QED
          BY <1>7, <3>2, <4>1, <4>2, <4>3
      <3> QED
        BY <3>1, <3>2
    <2> QED
      BY <1>9, <2>1, <2>2, <2>3, <2>4 DEF Tree, Used
  <1>21. Numbered'
    <2>1. PICK n \in Nat :
             /\ \A q \in Paused : Used(q) <=> q <= MaxFrames + n
             /\ n <= sent + crashes
             /\ pending /\ win[Main].prog # "none" /\ loop[Main].pc # "save" => n < sent + crashes
      BY DEF Inv, Numbered
    <2>2. n < sent + crashes /\ sent + crashes <= MaxPauses
      <3>1. sent \in Nat /\ crashes \in Nat /\ sent <= MaxMessages /\ crashes <= MaxCrashes
            /\ MaxMessages \in Nat /\ MaxCrashes \in Nat
        BY BoundsAssumption DEF Inv, TypeOK
      <3> QED
        BY <1>1, <2>1, <3>1 DEF MaxPauses
    <2>3. p = MaxFrames + n + 1
      <3>1. MaxFrames \in Nat /\ MaxPauses \in Nat /\ sent + crashes \in Nat
        BY BoundsAssumption, ScopesAre DEF Inv, TypeOK
      <3>2. MaxFrames + n + 1 \in Paused
        BY <2>1, <2>2, <3>1, FramesAre
      <3>3. ~Used(MaxFrames + n + 1)
        BY <2>1, <3>1, <3>2
      <3>4. p <= MaxFrames + n + 1
        BY <1>2, <3>2, <3>3
      <3>5. ~ (p <= MaxFrames + n)
        BY <1>2, <2>1
      <3> QED
        BY <1>2, <3>1, <3>4, <3>5
    <2>4. \A q \in Paused : Used(q)' <=> q <= MaxFrames + (n + 1)
      <3>1. MaxFrames \in Nat
        BY ScopesAre
      <3>2. ASSUME NEW q \in Paused PROVE Used(q)' <=> q <= MaxFrames + (n + 1)
        <4>1. q \in Nat /\ q \in Frames
          BY FramesAre
        <4>2. CASE q = p
          BY <1>9, <2>3, <3>1, <4>1, <4>2
        <4>3. CASE q # p
          <5>1. Used(q)' <=> q <= MaxFrames + n
            BY <1>9, <2>1, <4>1, <4>3
          <5> QED
            BY <2>3, <3>1, <4>1, <4>3, <5>1
        <4> QED
          BY <4>2, <4>3
      <3> QED
        BY <3>2
    <2>5. n + 1 \in Nat /\ n + 1 <= sent' + crashes'
      <3>1. sent + crashes \in Nat
        BY BoundsAssumption DEF Inv, TypeOK
      <3> QED
        BY <1>1, <2>1, <2>2, <3>1
    <2> QED
      BY <1>6, <2>4, <2>5 DEF Numbered
  <1>22. Windows'
    <2>1. \A f \in Frames : Lives(f)' => win'[f].there
      <3>1. \A f \in Frames : f # p /\ Lives(f)' => f \in Scopes /\ f # Main /\ win[f].there
        BY <1>9, FramesAre DEF Inv, Windows
      <3> QED
        BY <1>3, <1>4, <3>1
    <2>2. \A q \in Paused : win'[q].there => Lives(q)'
      <3>1. \A q \in Paused : q # p => q \in Scopes /\ q # Main /\ q \in Frames
        BY FramesAre
      <3> QED
        BY <1>4, <1>9, <3>1 DEF Inv, Windows
    <2>3. ASSUME NEW y \in Scopes
          PROVE  /\ ~win'[y].there => win'[y] = NoWindow
                 /\ win'[y].prog = "call" <=> win'[y].call # None
                 /\ win'[y].call <= called' /\ \A d \in win'[y].inflight : d <= called'
                 /\ win'[y].resumable # None =>
                       /\ y \in Tops /\ win'[y].resumable \in Paused /\ node'[win'[y].resumable].status # "free"
                       /\ y \in Paused => win'[y].resumable < y
      <3>1. /\ \A z \in Scopes :
               /\ ~win[z].there => win[z] = NoWindow
               /\ win[z].prog = "call" <=> win[z].call # None
               /\ win[z].call <= called /\ \A d \in win[z].inflight : d <= called
               /\ win[z].resumable # None =>
                     /\ z \in Tops /\ win[z].resumable \in Paused /\ Used(win[z].resumable)
                     /\ z \in Paused => win[z].resumable < z
        BY DEF Inv, Windows
      <3>3. \A q \in Paused : Used(q) => node'[q].status # "free" /\ q # p /\ q < p
        <4>1. ASSUME NEW q \in Paused, Used(q) PROVE q < p
          <5>1. PICK n \in Nat : \A r \in Paused : Used(r) <=> r <= MaxFrames + n
            BY DEF Inv, Numbered
          <5>2. q \in Nat /\ MaxFrames \in Nat
            BY FramesAre, ScopesAre
          <5> QED
            BY <1>2, <4>1, <5>1, <5>2
        <4> QED
          BY <1>2, <1>7, <4>1, FramesAre
      <3>4. CASE y # Main /\ y # p
        BY <1>1, <1>4, <3>1, <3>3, <3>4
      <3>5. CASE y = Main \/ y = p
        <4>1. win'[y] = w
          BY <1>4, <3>5
        <4>2. w.call <= called /\ \A d \in w.inflight : d <= called
          <5>1. None <= called
            BY BoundsAssumption DEF None, Inv, TypeOK
          <5> QED
            BY <1>1, <1>5, <3>1, <5>1
        <4>3. w.resumable # None => w.resumable \in Paused /\ Used(w.resumable)
          BY <1>1, <1>3, <3>1
        <4>4. y \in Tops /\ (y \in Paused => y = p)
          BY <1>1, <1>2, <3>5, FramesAre
        <4> QED
          BY <1>1, <1>3, <1>5, <3>3, <4>1, <4>2, <4>3, <4>4
      <3> QED
        BY <3>4, <3>5
    <2>4. main' # "free" => win'[Main].there
      BY <1>3, <1>4
    <2> QED
      BY <1>1, <2>1, <2>2, <2>3, <2>4 DEF Windows, Used
  <1>23. CallsAreOne'
    <2>0. \A f \in Frames : node'[f].call = node[f].call
      BY <1>2, <1>7 DEF NoNode
    <2>1. CallOnce'
      BY <2>0 DEF Inv, CallsAreOne, CallOnce
    <2>2. \A f \in Frames : node'[f].call <= called'
      BY <1>1, <2>0 DEF Inv, CallsAreOne
    <2>3. \A y \in Scopes : \E z \in Scopes : /\ win'[y].call = win[z].call \/ win'[y].call = None
                                            /\ win'[y].inflight \subseteq win[z].inflight
      BY <1>1, <1>4, <1>5
    <2>4. \A y, z \in Scopes : win'[y].call # None => win'[y].call \notin win'[z].inflight
      <3>1. \A y, z \in Scopes : win[y].call # None => win[y].call \notin win[z].inflight
        BY DEF Inv, CallsAreOne
      <3> QED
        BY <2>3, <3>1
    <2>5. \A y \in Scopes : \A f \in Up :
             /\ node[f].call \in win'[y].inflight => node[f].kind = "concurrent"
             /\ node[f].call = win'[y].call => node[f].kind = "serial"
      <3>1. \A y \in Scopes : \A f \in Up :
             /\ node[f].call \in win[y].inflight => node[f].kind = "concurrent"
             /\ node[f].call = win[y].call => node[f].kind = "serial"
        BY DEF Inv, CallsAreOne
      <3>2. \A f \in Up : node[f].call # None
        BY UpwardsIs
      <3> QED
        BY <2>3, <3>1, <3>2
    <2>6. \A m \in Scopes : loop'[m].pc # "spawn"
      BY <1>6
    <2>7. \A f \in Up' : Lives(f)' => node'[f].call \notin recorded'
      BY <1>1, <1>9, <2>0 DEF Inv, CallsAreOne
    <2>8. \A d \in recorded' : d <= called'
      BY <1>1 DEF Inv, CallsAreOne
    <2>9. \A y \in Scopes : \A f \in Up' :
             /\ node'[f].call \in win'[y].inflight => node'[f].kind = "concurrent"
             /\ node'[f].call = win'[y].call => node'[f].kind = "serial"
      BY <1>7, <1>9, <2>0, <2>5
    <2> QED
      BY <2>1, <2>2, <2>4, <2>6, <2>7, <2>8, <2>9 DEF CallsAreOne
  <1>24. Owners'
    <2>1. ASSUME NEW y \in Scopes, NEW f \in Up, node[f].call \in Pends(win'[y])
          PROVE  node'[f].caller = y \/ (y = Main /\ node'[f].caller \in Paused)
      <3>1. f \in Frames /\ f # p
        BY <1>9
      <3>2. \A z \in Scopes : node[f].call \in Pends(win[z]) => node[f].caller = z
        BY <1>1 DEF Inv, Owners
      <3>3. CASE y # Main /\ y # p
        <4>1. node[f].caller = y
          BY <1>4, <2>1, <3>2, <3>3
        <4>2. f \notin Moved(w)
          BY <1>9, <3>3, <4>1
        <4> QED
          BY <1>7, <3>1, <4>1, <4>2
      <3>4. CASE y = Main \/ y = p
        <4>1. node[f].call \in Pends(w)
          BY <1>4, <2>1, <3>4
        <4>2. node[f].caller = Main
          BY <1>1, <1>5, <3>2, <4>1
        <4>3. f \in Moved(w)
          BY <4>1, <4>2 DEF Moved
        <4> QED
          BY <1>2, <1>7, <3>1, <3>4, <4>3
      <3> QED
        BY <3>3, <3>4
    <2>2. \A f \in Up' : f \in Up /\ node'[f].call = node[f].call
      BY <1>7, <1>9
    <2> QED
      BY <1>1, <2>1, <2>2 DEF Owners
  <1>25. Apart'
    <2>1. \A x \in Frames : \A y \in Scopes : x # y => Pends(win[x]) \cap Pends(win[y]) = {}
      BY <1>1 DEF Inv, Apart
    <2>2. \A x \in Frames : x \in Scopes /\ x # Main
      BY FramesAre
    <2>3. ASSUME NEW x \in Frames, NEW y \in Scopes \ {x}, NEW c \in Pends(win'[x]), c \in Pends(win'[y])
          PROVE  y = Main /\ x \in Paused
      <3>1. CASE x = p
        <4>1. c \in Pends(win[Main])
          BY <1>4, <1>5, <3>1
        <4>2. ASSUME y # Main PROVE FALSE
          <5>1. y \in Frames /\ y # p /\ y \in Scopes
            BY <2>3, <3>1, <4>2, FramesAre
          <5>2. win'[y] = win[y]
            BY <1>4, <4>2, <5>1
          <5>3. c \in Pends(win[y])
            BY <2>3, <5>2
          <5>4. Pends(win[y]) \cap Pends(win[Main]) = {}
            BY <1>1, <2>1, <4>2, <5>1
          <5> QED
            BY <4>1, <5>3, <5>4
        <4> QED
          BY <1>2, <3>1, <4>2
      <3>2. CASE x # p
        <4>1. c \in Pends(win[x])
          BY <1>4, <2>2, <3>2
        <4>2. c \in Pends(win[Main]) \/ (y # Main /\ c \in Pends(win[y]))
          BY <1>4, <1>5, <2>3
        <4> QED
          BY <1>1, <2>1, <2>2, <2>3, <4>1, <4>2
      <3> QED
        BY <3>1, <3>2
    <2> QED
      BY <1>1, <2>3 DEF Apart
  <1>26. Waits'
    <2>1. ASSUME NEW f \in Serving
          PROVE  /\ win'[node'[f].caller].there /\ win'[node'[f].caller].call = node'[f].call
                 /\ node'[f].caller = Main => main' = "suspended"
                 /\ node'[f].caller \in Temps => node'[node'[f].caller].status = "suspended"
                 /\ node'[f].caller \in Paused => Live(node'[node'[f].caller])
      <3>1. f \in Up /\ f \in Frames /\ f # p /\ node[f].caller \in Scopes /\ node[f].call # None
        BY <1>9, UpwardsIs DEF Serving
      <3>2. /\ win[node[f].caller].there /\ win[node[f].caller].call = node[f].call
            /\ node[f].caller \in Temps => node[node[f].caller].status = "suspended"
            /\ node[f].caller \in Paused => Lives(node[f].caller)
        BY DEF Inv, Waits
      <3>3. CASE f \in Moved(w)
        <4>1. node'[f].caller = p /\ node'[f].call = node[f].call /\ node[f].caller = Main
          BY <1>7, <1>9, <3>1, <3>3
        <4>2. w.call = node[f].call
          <5>1. node[f].call \notin recorded
            BY <3>1 DEF Inv, CallsAreOne, Serving
          <5> QED
            BY <1>3, <3>2, <4>1, <5>1
        <4>3. Live(node'[p])
          BY <1>7 DEF Live
        <4> QED
          BY <1>2, <1>3, <1>4, <4>1, <4>2, <4>3
      <3>4. CASE f \notin Moved(w)
        <4>1. node'[f].caller = node[f].caller /\ node'[f].call = node[f].call
          BY <1>7, <3>1, <3>4
        <4>2. node[f].caller # Main
          BY <1>10, <3>4
        <4>6. node[f].caller \in Paused => Used(node[f].caller)
          BY <3>1, UpwardsIs
        <4>7. PICK y \in Scopes : y = node[f].caller
          BY <3>1
        <4>8. y # p
          BY <1>2, <4>6, <4>7
        <4>3. node[f].caller # p /\ node[f].caller \in Frames
          BY <4>2, <4>7, <4>8, FramesAre
        <4>4. win'[node[f].caller] = win[node[f].caller]
          BY <1>4, <3>1, <4>2, <4>3
        <4>5. Lives(node[f].caller) => Live(node'[node[f].caller])
          BY <1>7, <4>3
        <4> QED
          BY <1>7, <3>2, <4>1, <4>2, <4>3, <4>4, <4>5
      <3> QED
        BY <3>3, <3>4
    <2>2. \A f \in Serving' : f \in Serving
      BY <1>9
    <2> QED
      BY <2>1, <2>2 DEF Waits, Lives
  <1>27. Deads'
    <2>1. ASSUME NEW f \in Up, NEW y \in Scopes, node[f].kind = "serial", ~Lives(f),
                 node[f].call \notin recorded, win'[y].call = node[f].call
          PROVE  y # Main /\ ~Lives(y)'
      <3>1. \A z \in Scopes : win[z].call = node[f].call => z # Main /\ ~Lives(z)
        BY <2>1 DEF Inv, Deads
      <3>2. node[f].call # None
        BY UpwardsIs
      <3>3. y # Main /\ y # p
        BY <1>1, <1>4, <1>5, <2>1, <3>1, <3>2
      <3> QED
        BY <1>4, <1>9, <2>1, <3>1, <3>3, FramesAre
    <2>2. \A f \in Up : node'[f].kind = node[f].kind /\ node'[f].call = node[f].call /\ (Lives(f)' <=> Lives(f))
      BY <1>7, <1>9
    <2> QED
      BY <1>1, <1>9, <2>1, <2>2 DEF Deads
  <1>28. Bases(b)'
    <2>1. ASSUME NEW f \in Up
          PROVE  b[f] = IF node'[f].kind = "concurrent" THEN f ELSE b[node'[f].caller]
      <3>1. /\ f \in Frames /\ f \in Scopes /\ f # p /\ node'[f].kind = node[f].kind
            /\ base[f] = IF node[f].kind = "concurrent" THEN f ELSE base[node[f].caller]
            /\ node[f].caller \in Scopes /\ node[f].caller # p
        BY <1>2, <1>7, <1>9, UpwardsIs
      <3>2. CASE node[f].kind = "concurrent"
        <4>1. base[f] # Main
          BY <1>9, <3>1, <3>2, FramesAre
        <4> QED
          BY <1>14, <3>1, <3>2, <4>1
      <3>3. CASE node[f].kind # "concurrent" /\ f \in Moved(w)
        <4>1. node'[f].caller = p /\ base[f] = base[Main] /\ f \in C
          BY <1>7, <1>8, <1>9, <3>1, <3>3
        <4>2. base[f] = Main
          BY <4>1 DEF Inv, Bases
        <4> QED
          BY <1>14, <1>16, <3>1, <3>3, <4>1, <4>2
      <3>4. CASE node[f].kind # "concurrent" /\ f \notin Moved(w)
        <4>1. node'[f].caller = node[f].caller /\ base[f] = base[node[f].caller]
          BY <1>7, <3>1, <3>4
        <4>2. node[f].caller \in C <=> f \in C
          BY <1>8, <3>4
        <4> QED
          BY <1>14, <3>1, <3>4, <4>1, <4>2
      <3> QED
        BY <3>2, <3>3, <3>4
    <2>2. \A l \in Scopes : Runs(l)' => l = Main
      BY <1>6 DEF Runs, Alive
    <2> QED
      BY <1>6, <1>9, <1>16, <2>1, <2>2 DEF Bases
  <1>29. Loops(b)'
    <2>1. \A k \in Temps : loop'[k].pc = "off"
      BY <1>6, FramesAre DEF Off
    <2>2. \A q \in Paused : loop'[q].pc = "off"
      BY <1>6, FramesAre DEF Off
    <2> QED
      BY <1>6, <2>1, <2>2 DEF Loops, Alive
  <1>30. Leaves'
    <2>1. \A l \in Scopes : Runs(l)' => l = Main
      BY <1>6 DEF Runs, Alive
    <2> QED
      BY <1>1, <1>6, <2>1 DEF Leaves
  <1>31. Answers'
    <2>1. \A q \in Paused : loop'[q].pc = "off"
      BY <1>6, FramesAre DEF Off
    <2> QED
      BY <2>1 DEF Answers
  <1>32. Stacks(b)'
    <2>1. ASSUME NEW y \in Frames, node'[y].status = "suspended"
          PROVE  \E f \in Serving' : node'[f].caller = y
      <3>1. node[y].status = "suspended" /\ y # p
        BY <1>7, <2>1
      <3>2. PICK f \in Serving : node[f].caller = y
        BY <3>1 DEF Inv, Stacks
      <3>3. f \in Serving' /\ f \in Frames /\ f # p /\ f \notin Moved(w)
        BY <1>9, <3>2, FramesAre DEF Serving
      <3> QED
        BY <1>7, <3>2, <3>3
    <2>2. main' # "suspended"
      BY <1>1
    <2>3. \A f \in Up : f \in Frames /\ f # p /\ node'[f].parallel \in BOOLEAN /\ node[f].parallel \in BOOLEAN
      BY <1>0, <1>9 DEF Node
    <2>4. \A f \in Up : node'[f].kind = "concurrent" => node'[f].parallel
      BY <1>7, <2>3 DEF Inv, Stacks
    <2>5. ASSUME NEW f \in Serving PROVE node'[f].parallel <=> b[f] # Main
      <3>1. f \in Up /\ f \in Frames /\ f \in Scopes /\ f # p /\ Lives(f)
        BY <1>9 DEF Serving
      <3>2. CASE f \in C
        BY <1>7, <1>16, <3>1, <3>2
      <3>3. CASE f \notin C
        <4>1. b[f] = base[f] /\ base[f] # Main
          BY <1>11, <1>16, <3>1, <3>3
        <4>2. node[f].parallel
          BY <4>1 DEF Inv, Stacks
        <4> QED
          BY <1>7, <3>1, <4>1, <4>2
      <3> QED
        BY <3>2, <3>3
    <2> QED
      BY <1>9, <2>1, <2>2, <2>4, <2>5 DEF Stacks
  <1>33. Places(b, t)'
    <2>1. ASSUME NEW f \in Up PROVE t[f] = t[node'[f].caller]
      <3>1. f \in Frames /\ f \in Scopes /\ f # p /\ node[f].caller \in Scopes
        BY <1>9, UpwardsIs
      <3>2. CASE f \in Moved(w)
        <4>1. node'[f].caller = p /\ f \in C
          BY <1>7, <1>8, <3>1, <3>2
        <4> QED
          BY <1>16, <4>1
      <3>3. CASE f \notin Moved(w)
        <4>1. node'[f].caller = node[f].caller /\ (node[f].caller \in C <=> f \in C)
          BY <1>7, <1>8, <3>1, <3>3
        <4>2. top[f] = top[node[f].caller]
          BY UpwardsIs
        <4> QED
          BY <1>15, <3>1, <4>1, <4>2
      <3> QED
        BY <3>2, <3>3
    <2>2. ASSUME NEW f \in Frames, Used(f)' PROVE t[b[f]] = t[f] /\ t[f] \in Tops
      <3>1. CASE f \in Paused
        BY <1>16, <3>1 DEF Tops
      <3>2. CASE f \notin Paused
        <4>1. f \in Up /\ f \in Scopes /\ f # p /\ b[f] \in Scopes
          BY <1>2, <1>9, <2>2, <3>2, FramesAre DEF Up
        <4>2. CASE f \in C
          <5>1. b[f] \in C
            BY <1>8, <1>12, <1>14, <4>1, <4>2
          <5> QED
            BY <1>2, <1>16, <4>2, <5>1
        <4>3. CASE f \notin C
          <5>1. b[f] = base[f] /\ t[f] = top[f]
            BY <1>16, <4>1, <4>3
          <5>2. base[f] \notin C
            BY <1>13, <4>1, <4>3
          <5>3. top[base[f]] = top[f] /\ top[f] \in Tops
            BY <4>1, UpwardsIs
          <5> QED
            BY <1>15, <4>1, <5>1, <5>2, <5>3
        <4> QED
          BY <4>2, <4>3
      <3> QED
        BY <3>1, <3>2
    <2>3. ASSUME NEW f \in Frames, node'[f].status = "paused" PROVE t[f] \in Paused
      <3>1. CASE f \in C
        BY <1>2, <1>16, <3>1
      <3>2. CASE f \notin C
        <4>1. f # p /\ node[f].status = "paused" /\ f \in Scopes
          BY <1>7, <1>8, <2>3, <3>2, FramesAre
        <4>2. top[f] \in Paused
          BY <4>1 DEF Inv, Places
        <4> QED
          BY <1>15, <3>2, <4>1, <4>2
      <3> QED
        BY <3>1, <3>2
    <2>4. \A m \in Scopes : Runs(m)' => m = Main
      BY <1>6 DEF Runs, Alive
    <2>5. Runs(Main)'
      BY <1>6 DEF Runs, Alive
    <2>6. Running(loop[Main].at)'
      <3>1. loop'[Main].at = Main
        BY <1>6
      <3> QED
        BY <1>1, <3>1 DEF Running
    <2>7. \A q \in Paused : q # Main /\ q \in Scopes
      BY FramesAre
    <2>8. \A f \in Frames : node'[f].status = "paused" => t[f] \in Paused /\ ~Runs(t[f])'
      BY <2>3, <2>4, <2>7
    <2>9. \A m \in Scopes : Runs(m)' => Runs(t[m])' /\ (Running(loop[m].at)' \/ Pausing(m)')
      BY <1>16, <2>4, <2>5, <2>6
    <2> QED
      BY <1>9, <1>16, <2>1, <2>2, <2>8, <2>9 DEF Places
  <1>34. Hearing'
    <2>1. \A l, m \in Tops : loop'[l].pc \notin {"off", "crashed"} /\ loop'[m].pc \notin {"off", "crashed"}
             => l = Main /\ m = Main
      <3>1. \A l \in Tops : l \in Scopes
        BY OrdIs
      <3> QED
        BY <1>6, <3>1
    <2>2. ~ (Ord(Main) < Ord(Main))
      BY OrdIs, <1>1
    <2>3. \A l \in Scopes : loop'[l].pc \notin {"resuming", "resumed", "join"}
      BY <1>6
    <2>4. \A q \in Paused : loop'[q].pc = "off"
      BY <1>6, FramesAre DEF Off
    <2>5. pending' /\ win'[Main].prog # "none"
      BY <1>1, <1>4, <1>5
    <2>6. \E q \in Paused : Used(q)'
      BY <1>2, <1>9
    <2> QED
      BY <1>1, <1>6, <2>1, <2>2, <2>3, <2>4, <2>5, <2>6 DEF Hearing
  <1>35. ~torn'
    BY <1>1 DEF Inv
  <1>36. Inv(b, t)'
    BY <1>20, <1>21, <1>22, <1>23, <1>24, <1>25, <1>26, <1>27, <1>28, <1>29, <1>30, <1>31, <1>32, <1>33, <1>34, <1>35 DEF Inv
  <1> QED
    BY <1>36

\* A program takes over the frames of its unfinished calls.
LEMMA MovedNodes ==
    ASSUME TypeOK, Tree, NEW p \in Paused, ~Used(p), NEW w \in Window,
           w.prog = "call" <=> w.call # None
    PROVE  \E ns \in [Frames -> Node] :
             /\ PausedNodes(p, w) = MarkPaused(ns, p)
             /\ ns[p] = [NoNode EXCEPT !.status = "paused", !.kind = "previous", !.parallel = TRUE]
             /\ \A f \in Frames : f # p =>
                   ns[f] = IF f \in Moved(w) THEN [node[f] EXCEPT !.caller = p] ELSE node[f]
  <1> DEFINE calls == w.inflight \cup (IF w.prog = "call" THEN {w.call} ELSE {})
             moved == [f \in Frames |->
                 IF f = p THEN [NoNode EXCEPT !.status = "paused", !.kind = "previous",
                                  !.parallel = TRUE]
                 ELSE IF node[f].status # "free" /\ node[f].kind # "previous"
                         /\ node[f].caller = Main /\ node[f].call \in calls
                 THEN [node[f] EXCEPT !.caller = p] ELSE node[f]]
  <1>1. PausedNodes(p, w) = MarkPaused(moved, p)
    BY DEF PausedNodes
  <1>2. calls = Pends(w)
    BY DEF Pends
  <1>3. \A f \in Frames : f \in Up <=> node[f].status # "free" /\ node[f].kind # "previous"
    BY UpIs DEF Opened
  <1>4. /\ p \in Frames /\ p \in Scopes /\ node \in [Frames -> Node]
        /\ \A f \in Frames : node[f] \in Node
    BY FramesAre DEF TypeOK
  <1>5. [NoNode EXCEPT !.status = "paused", !.kind = "previous", !.parallel = TRUE] \in Node
    BY FramesAre DEF NoNode, Node, Statuses
  <1>6. \A f \in Frames : [node[f] EXCEPT !.caller = p] \in Node
    <2>1. \A n \in Node : [n EXCEPT !.caller = p] \in Node
      BY <1>4 DEF Node
    <2> QED
      BY <1>4, <2>1
  <1>7. ASSUME NEW f \in Frames
        PROVE  f \in Moved(w) <=> node[f].status # "free" /\ node[f].kind # "previous"
                                  /\ node[f].caller = Main /\ node[f].call \in calls
    BY <1>2, <1>3 DEF Moved
  <1> HIDE DEF calls
  <1>8. ASSUME NEW f \in Frames, f # p
        PROVE  moved[f] = IF f \in Moved(w) THEN [node[f] EXCEPT !.caller = p] ELSE node[f]
    BY <1>7, <1>8
  <1>9. moved[p] = [NoNode EXCEPT !.status = "paused", !.kind = "previous", !.parallel = TRUE]
    BY <1>4
  <1> HIDE DEF moved
  <1>10. moved \in [Frames -> Node]
    <2>1. moved = [f \in Frames |-> moved[f]]
      BY DEF moved
    <2>2. \A f \in Frames : moved[f] \in Node
      BY <1>4, <1>5, <1>6, <1>8, <1>9
    <2> QED
      BY <2>1, <2>2
  <1> QED
    BY <1>1, <1>8, <1>9, <1>10

\* There is a frame left for the paused program, and a window to move to it.
LEMMA FrameIsLeft ==
    ASSUME NEW base \in [Scopes -> Scopes], NEW top \in [Scopes -> Scopes], Inv(base, top),
           loop[Main].pc = "join",
           NEW p, p = First(Unused(Paused)), NEW w, w = Recover(win[Main])
    PROVE  /\ p \in Paused /\ p \in Frames /\ p \in Scopes /\ p # Main /\ p \notin Temps /\ ~Used(p)
           /\ \A q \in Paused : ~Used(q) => p <= q
           /\ Main \in Scopes /\ w \in Window /\ (w.prog = "call" <=> w.call # None)
  <1>2. TypeOK /\ win \in [Scopes -> Window]
    BY DEF Inv, TypeOK
  <1>3. /\ p \in Paused /\ p \in Frames /\ p \in Scopes /\ p # Main /\ p \notin Temps /\ ~Used(p)
        /\ \A q \in Paused : ~Used(q) => p <= q
    <2>1. PICK n \in Nat :
             /\ \A q \in Paused : Used(q) <=> q <= MaxFrames + n
             /\ pending /\ win[Main].prog # "none" /\ loop[Main].pc # "save" => n < sent + crashes
      BY DEF Inv, Numbered
    <2>2. n < sent + crashes
      BY <2>1 DEF Inv, Hearing
    <2>3. n < MaxPauses
      BY <1>2, <2>1, <2>2, BoundsAssumption DEF TypeOK, MaxPauses
    <2>4. MaxFrames + n + 1 \in Paused /\ ~ (MaxFrames + n + 1 <= MaxFrames + n)
      BY <2>1, <2>3, FramesAre, ScopesAre
    <2>5. Unused(Paused) \subseteq Frames /\ \A q \in Paused : q \in Unused(Paused) <=> ~Used(q)
      BY FramesAre DEF Unused, Used
    <2>6. Unused(Paused) # {}
      BY <2>1, <2>4, <2>5
    <2>7. p \in Unused(Paused) /\ \A q \in Unused(Paused) : p <= q
      BY <2>5, <2>6, FirstIs
    <2>8. p \in Paused
      BY <2>7 DEF Unused
    <2> QED
      BY <2>5, <2>7, <2>8, FramesAre
  <1>4. Main \in Scopes /\ w \in Window /\ (w.prog = "call" <=> w.call # None)
    <2>1. Main \in Scopes /\ win[Main] \in Window /\ (win[Main].prog = "call" <=> win[Main].call # None)
      BY <1>2, FramesAre DEF Inv, Windows
    <2>2. PICK v \in Window : v = win[Main]
      BY <2>1
    <2>3. /\ Recover(v) \in Window
          /\ IF v.prog = "call" /\ v.call \in recorded
             THEN Recover(v).prog = "ready" /\ Recover(v).call = None
             ELSE Recover(v).prog = v.prog /\ Recover(v).call = v.call
      BY RecoverIs
    <2> QED
      BY <2>1, <2>2, <2>3
  <1> QED
    BY <1>3, <1>4

LEMMA PausesAre ==
    ASSUME NEW base \in [Scopes -> Scopes], NEW top \in [Scopes -> Scopes],
           Inv(base, top), TypeOK', PauseMain
    PROVE  \E b, t \in [Scopes -> Scopes] : Inv(b, t)'
  <1> DEFINE p == First(Unused(Paused))
             w == Recover(win[Main])
  <1>1. /\ Stopped(Main) /\ loop[Main].at = Main /\ loop[Main].pc = "join"
        /\ node' = PausedNodes(p, w)
        /\ win' = [win EXCEPT ![Main] = w, ![p] = w]
        /\ JoinedKids(Main, "save", Main) /\ main' = "running"
        /\ UNCHANGED <<recorded, pending, called, sent, crashes, torn>>
    BY DEF PauseMain, Stopped, tally
  <1>2. TypeOK /\ Tree /\ node \in [Frames -> Node] /\ win \in [Scopes -> Window] /\ loop \in [Scopes -> Loop]
    BY DEF Inv, TypeOK
  <1>3. /\ p \in Paused /\ p \in Frames /\ p \in Scopes /\ p # Main /\ p \notin Temps /\ ~Used(p)
        /\ \A q \in Paused : ~Used(q) => p <= q
    BY <1>1, FrameIsLeft
  <1>4. Main \in Scopes /\ w \in Window /\ (w.prog = "call" <=> w.call # None)
    BY <1>1, FrameIsLeft
  <1>5. w = Recover(win[Main])
    OBVIOUS
  <1> HIDE DEF p, w
  <1>6. PICK ns \in [Frames -> Node] :
             /\ PausedNodes(p, w) = MarkPaused(ns, p)
             /\ ns[p] = [NoNode EXCEPT !.status = "paused", !.kind = "previous", !.parallel = TRUE]
             /\ \A f \in Frames : f # p =>
                   ns[f] = IF f \in Moved(w) THEN [node[f] EXCEPT !.caller = p] ELSE node[f]
    BY <1>2, <1>3, <1>4, MovedNodes
  <1>7. /\ ns[p].status = "paused" /\ ns[p].kind = "previous" /\ ns[p].parallel = TRUE
        /\ ns[p].caller = Main /\ ns[p].parent = Main /\ ns[p].call = None
    BY <1>6 DEF NoNode
  <1>8. ASSUME NEW f \in Frames, f # p
        PROVE  /\ ns[f].status = node[f].status /\ ns[f].kind = node[f].kind
               /\ ns[f].parallel = node[f].parallel /\ ns[f].safe = node[f].safe
               /\ ns[f].parent = node[f].parent /\ ns[f].call = node[f].call
               /\ ns[f].caller = IF f \in Moved(w) THEN p ELSE node[f].caller
               /\ f \notin Moved(w) => ns[f] = node[f]
    <2>1. node[f] \in Node
      BY <1>2
    <2>2. CASE f \in Moved(w)
      <3>1. ns[f] = [node[f] EXCEPT !.caller = p]
        BY <1>6, <1>8, <2>2
      <3> QED
        BY <2>1, <2>2, <3>1 DEF Node
    <2>3. CASE f \notin Moved(w)
      BY <1>6, <1>8, <2>3
    <2> QED
      BY <2>2, <2>3
  <1>9. /\ Up \subseteq Frames /\ Moved(w) \subseteq Up /\ p \notin Up
        /\ \A f \in Moved(w) : node[f].caller = Main
    BY <1>2, <1>3, UpIs DEF Moved, Up
  <1>10. Opened(ns) = Up
    <2>1. \A f \in Frames : f # p => (f \in Opened(ns) <=> f \in Opened(node))
      BY <1>8 DEF Opened
    <2>2. p \notin Opened(ns) /\ Opened(ns) \subseteq Frames /\ Opened(node) = Up
      BY <1>2, <1>7, UpIs DEF Opened
    <2> QED
      BY <1>9, <2>1, <2>2
  <1> DEFINE C == Chain(ns, p)
  <1>11. /\ p \in C /\ C \subseteq Scopes
         /\ \A f \in Up : ns[f].caller \in C => f \in C
         /\ \A T \in SUBSET Scopes :
               p \in T /\ (\A f \in Up : ns[f].caller \in T => f \in T) => C \subseteq T
         /\ \A f \in C \ {p} : f \in Up /\ ns[f].caller \in C
    BY <1>3, <1>6, <1>10, ChainIs
  <1>12. ASSUME NEW f \in Frames
         PROVE  /\ Marked(ns, p, node', f)
                /\ f \in C /\ Live(ns[f]) => node'[f].parallel
                /\ node'[f].status = "paused" => ns[f].status = "paused" \/ f \in C
                /\ f = p => node'[f].parallel /\ node'[f].status = "paused"
    <2>1. node' = MarkPaused(ns, p)
      BY <1>1, <1>6
    <2>2. /\ Marked(ns, p, MarkPaused(ns, p), f)
          /\ f \in C /\ Live(ns[f]) =>
                 /\ MarkPaused(ns, p)[f].parallel = TRUE
                 /\ MarkPaused(ns, p)[f].status =
                       IF ns[f].status = "running" THEN "paused" ELSE ns[f].status
          /\ MarkPaused(ns, p)[f].status = "paused" => ns[f].status = "paused" \/ f \in C
      BY MarkedPaused
    <2>3. f = p => f \in C /\ Live(ns[f]) /\ ns[f].status = "paused"
      BY <1>7, <1>11 DEF Live
    <2> HIDE DEF C
    <2> QED
      BY <2>1, <2>2, <2>3
  <1> HIDE DEF C
  <1>13. ASSUME NEW f \in Frames, f # p
         PROVE  /\ node'[f].kind = node[f].kind /\ node'[f].call = node[f].call
                /\ node'[f].parent = node[f].parent
                /\ node'[f].caller = IF f \in Moved(w) THEN p ELSE node[f].caller
                /\ node'[f].status # "free" <=> Used(f)
                /\ Live(node'[f]) <=> Lives(f)
                /\ node'[f].status = "suspended" <=> node[f].status = "suspended"
                /\ node'[f].status = "paused" => node[f].status = "paused" \/ f \in C
                /\ node[f].parallel => node'[f].parallel
                /\ f \in C /\ Lives(f) => node'[f].parallel
                /\ ~Used(f) => node'[f] = node[f]
    <2>1. Live(ns[f]) <=> Lives(f)
      BY <1>8, <1>13 DEF Live, Lives
    <2>2. ~Used(f) => f \notin Moved(w)
      BY DEF Moved, Up
    <2> QED
      BY <1>8, <1>12, <1>13, <2>1, <2>2 DEF Marked, Used
  <1>14. /\ node'[p].kind = "previous" /\ node'[p].call = None /\ node'[p].parallel
         /\ node'[p].caller = Main /\ node'[p].parent = Main /\ node'[p].status = "paused"
    BY <1>3, <1>7, <1>12 DEF Marked
  <1>15. /\ win'[Main] = w /\ win'[p] = w
         /\ \A y \in Scopes : y # Main /\ y # p => win'[y] = win[y]
    BY <1>1, <1>2, <1>3, <1>4
  <1>16. loop' = [k \in Scopes |->
            IF k = Main THEN [loop[Main] EXCEPT !.kids = {}, !.pc = "save", !.at = Main]
            ELSE IF k \in loop[Main].kids THEN Off ELSE loop[k]]
    BY <1>1, Zenon DEF JoinedKids
  <1>17. loop'[Main].pc = "save" /\ loop'[Main].at = Main /\ loop'[Main].kids = {}
    <2>1. loop[Main] \in Loop
      BY <1>2, <1>4
    <2>2. loop'[Main] = [loop[Main] EXCEPT !.kids = {}, !.pc = "save", !.at = Main]
      BY <1>4, <1>16
    <2> QED
      BY <2>1, <2>2 DEF Loop
  <1>18. ASSUME NEW k \in Frames
         PROVE  loop'[k].pc = "off" /\ loop'[k].kids = {} /\ (~Used(k) => loop'[k] = Off)
    <2>1. k \in Scopes /\ k # Main
      BY FramesAre
    <2>2. loop'[k] = IF k \in loop[Main].kids THEN Off ELSE loop[k]
      BY <1>16, <2>1
    <2>3. /\ ~Runs(k) /\ (loop[k].pc # "off" => k \in loop[Main].kids)
      BY <1>1, OnlyEnded
    <2>4. loop[k].kids = {}
      <3>1. \A j \in loop[k].kids : Runs(k)
        BY <2>1 DEF Inv, Loops
      <3> QED
        BY <2>3, <3>1
    <2>5. ~Used(k) => loop[k] = Off
      BY <1>2 DEF Tree
    <2>6. Off.pc = "off" /\ Off.kids = {}
      BY DEF Off
    <2> QED
      BY <2>2, <2>3, <2>4, <2>5, <2>6
  <1>19. Moved(w) \subseteq C
    <2>1. ASSUME NEW f \in Moved(w) PROVE f \in C
      <3>1. f \in Up /\ f \in Frames /\ f # p
        BY <1>9
      <3>2. ns[f].caller = p
        BY <1>8, <3>1
      <3> QED
        BY <1>11, <3>1, <3>2
    <2> QED
      BY <2>1
  <1>20. \A f \in Up \ Moved(w) : node[f].caller \in C <=> f \in C
    <2>1. ASSUME NEW f \in Up \ Moved(w) PROVE ns[f].caller = node[f].caller /\ f # p
      BY <1>8, <1>9
    <2> QED
      BY <1>11, <2>1
  <1>21. ASSUME NEW T \in SUBSET Scopes, p \in T, Moved(w) \subseteq T,
                \A f \in Up \ Moved(w) : node[f].caller \in T => f \in T
         PROVE  C \subseteq T
    <2>1. ASSUME NEW f \in Up, ns[f].caller \in T PROVE f \in T
      <3>1. f \notin Moved(w) => ns[f].caller = node[f].caller
        BY <1>8, <1>9
      <3> QED
        BY <1>21, <2>1, <3>1
    <2> QED
      BY <1>11, <1>21, <2>1
  <1>22. C \ {p} \subseteq Up
    BY <1>11
  <1>23. Pauses(p, w, C)
    BY <1>1, <1>3, <1>5, <1>11, <1>13, <1>14, <1>15, <1>17, <1>18, <1>19, <1>20, <1>21, <1>22 DEF Pauses
  <1> QED
    BY <1>1, <1>23, PausesKeep

-----------------------------------------------------------------------------
(* A turn starts.                                                          *)

\* A stack is not suspended at its end, so a suspended main task has a frame in view.
LEMMA SuspendedInView ==
    ASSUME NEW base \in [Scopes -> Scopes], NEW top \in [Scopes -> Scopes], Inv(base, top),
           main = "suspended"
    PROVE  InView # {}
  <1> DEFINE S == {f \in Serving : base[f] = Main}
  <1>1. S # {} /\ S \subseteq Frames
    <2>1. PICK f \in Serving : node[f].caller = Main
      BY DEF Inv, Stacks
    <2>2. f \in Up /\ base[f] = Main
      BY <2>1, UpwardsIs DEF Serving, Inv, Bases
    <2> QED
      BY <2>1, <2>2, UpIs, FramesAre DEF Serving, Up
  <1>2. PICK f \in S : \A g \in S : g <= f
    BY <1>1, LastExists
  <1>3. f \in Up /\ f \in Frames /\ f \in Serving /\ base[f] = Main /\ Lives(f) /\ f \in Nat
    BY <1>1, <1>2, UpwardsIs DEF Serving
  <1>4. node[f].status # "suspended"
    <2>1. SUFFICES ASSUME node[f].status = "suspended" PROVE FALSE
      OBVIOUS
    <2>2. PICK g \in Serving : node[g].caller = f
      BY <1>3, <2>1 DEF Inv, Stacks
    <2>3. g \in Up /\ node[g].kind = "serial"
      BY <2>2 DEF Serving
    <2>4. base[g] = Main /\ f < g /\ g \in Nat
      BY <1>3, <2>2, <2>3, UpwardsIs
    <2> QED
      BY <1>2, <1>3, <2>2, <2>4
  <1>5. node[f].status # "paused"
    <2>1. top[f] = Main
      BY <1>3, UpwardsIs DEF Inv, Places
    <2> QED
      BY <1>3, <2>1, FramesAre DEF Inv, Places
  <1>6. node[f].status = "running" /\ ~node[f].parallel
    BY <1>3, <1>4, <1>5 DEF Inv, Stacks, Lives, Live
  <1> QED
    BY <1>3, <1>6 DEF InView

\* The turn's loop starts in the frame x; the main window is now w.
Starts(base, x, w) ==
    /\ loop[Main].pc \in {"off", "crashed"}
    /\ loop' = [loop EXCEPT ![Main] = [Off EXCEPT !.pc = "check", !.at = x]]
    /\ x \in Scopes /\ base[x] = Main /\ (x = Main \/ Lives(x))
    /\ \A f \in Serving : node[f].caller # x
    /\ IF x = Main THEN main' = "running" ELSE node[x].status = "running"
    /\ win'[Main] = w /\ w.there /\ \A y \in Frames : win'[y] = win[y]
    /\ \/ w = win[Main] /\ main' = main /\ main # "free"
       \/ w = Fresh /\ main # "suspended" /\ main' = "running"
    /\ UNCHANGED <<node, recorded, called, pending, sent, crashes, torn>>

LEMMA StartsKeep ==
    ASSUME NEW base \in [Scopes -> Scopes], NEW top \in [Scopes -> Scopes],
           Inv(base, top), TypeOK', NEW x, NEW w, Starts(base, x, w)
    PROVE  Inv(base, top)'
  <1>1. /\ Up' = Up /\ Serving' = Serving /\ \A f : Lives(f)' = Lives(f) /\ Used(f)' = Used(f)
        /\ node' = node /\ recorded' = recorded /\ pending' = pending /\ called' = called
        /\ sent' = sent /\ crashes' = crashes /\ torn' = torn
    BY DEF Starts, Up, Serving, Lives, Used
  <1>2. /\ ~Runs(Main) /\ ~Saving /\ loop[Main].pc \in {"off", "crashed"}
        /\ \A k \in Frames : loop[k].pc = "off"
        /\ \A m \in Scopes : loop[m].kids = {}
    <2>1. ~Runs(Main) /\ ~Saving /\ loop[Main].pc \in {"off", "crashed"}
      BY DEF Starts, Runs, Alive, Saving
    <2>2. \A k \in Frames : loop[k].pc = "off"
      BY <2>1, Quiet
    <2>3. \A m \in Scopes : ~Runs(m)
      BY <2>1, <2>2, FramesAre DEF Runs, Alive
    <2>4. \A m \in Scopes : \A k \in loop[m].kids : Runs(m)
      BY DEF Inv, Loops
    <2> QED
      BY <2>1, <2>2, <2>3, <2>4
  <1>3. /\ loop'[Main].pc = "check" /\ loop'[Main].at = x /\ loop'[Main].kids = {}
        /\ \A k \in Frames : loop'[k] = loop[k]
        /\ \A m \in Scopes : loop'[m].kids = {}
        /\ \A m \in Scopes : m # Main => loop'[m].pc = "off"
        /\ Main \in Scopes /\ ~Saving'
        /\ \A m \in Scopes : Runs(m)' => m = Main
    <2>1. /\ loop' = [loop EXCEPT ![Main] = [Off EXCEPT !.pc = "check", !.at = x]]
          /\ loop \in [Scopes -> Loop] /\ Main \in Scopes
      BY FramesAre DEF Starts, Inv, TypeOK
    <2>2. loop'[Main].pc = "check" /\ loop'[Main].at = x /\ loop'[Main].kids = {}
      BY <2>1 DEF Off
    <2>3. \A k \in Scopes : k # Main => k \in Frames /\ loop'[k] = loop[k]
      BY <2>1, FramesAre
    <2>4. \A k \in Frames : k \in Scopes /\ k # Main
      BY FramesAre
    <2> QED
      BY <1>2, <2>1, <2>2, <2>3, <2>4 DEF Saving, Runs, Alive
  <1>4. /\ x \in Scopes /\ base[x] = Main /\ (x = Main \/ Lives(x))
        /\ \A f \in Serving : node[f].caller # x
        /\ IF x = Main THEN main' = "running" ELSE node[x].status = "running"
        /\ win'[Main] = w /\ w.there /\ \A y \in Frames : win'[y] = win[y]
        /\ \/ w = win[Main] /\ main' = main /\ main # "free"
           \/ w = Fresh /\ main # "suspended" /\ main' = "running"
    BY DEF Starts
  <1>5. /\ Fresh.there /\ Fresh.prog = "none" /\ Fresh.call = None /\ Fresh.inflight = {}
        /\ Fresh.resumable = None
    BY DEF Fresh
  <1>6. \A y \in Scopes : y = Main \/ (y \in Frames /\ win'[y] = win[y])
    BY <1>4, FramesAre
  <1>7. \A y \in Scopes : win'[y] = win[y] \/ (y = Main /\ win'[y] = Fresh)
    BY <1>4, <1>6
  <1>8. \A y \in Scopes : Pends(win'[y]) \subseteq Pends(win[y])
    <2>1. Pends(Fresh) = {}
      BY <1>5 DEF Pends
    <2> QED
      BY <1>7, <2>1
  <1>9. \A f \in Serving : node[f].caller # Main \/ win'[Main] = win[Main]
    BY <1>4 DEF Inv, Waits
  <1>10. Tree'
    BY <1>1, <1>3, <1>4 DEF Inv, Tree
  <1>11. Numbered'
    <2>1. PICK n \in Nat :
             /\ \A q \in Paused : Used(q) <=> q <= MaxFrames + n
             /\ n <= sent + crashes
             /\ pending /\ win[Main].prog # "none" /\ loop[Main].pc # "save" => n < sent + crashes
      BY DEF Inv, Numbered
    <2>2. win'[Main].prog # "none" => win[Main].prog # "none"
      BY <1>4, <1>5
    <2>3. loop[Main].pc # "save"
      BY <1>2
    <2> QED
      BY <1>1, <2>1, <2>2, <2>3 DEF Numbered
  <1>12. Windows'
    <2>1. ASSUME NEW y \in Scopes
          PROVE  /\ ~win'[y].there => win'[y] = NoWindow
                 /\ win'[y].prog = "call" <=> win'[y].call # None
                 /\ win'[y].call <= called' /\ \A c \in win'[y].inflight : c <= called'
                 /\ win'[y].resumable # None =>
                      /\ y \in Tops /\ win'[y].resumable \in Paused /\ Used(win'[y].resumable)
                      /\ y \in Paused => win'[y].resumable < y
      <3>1. CASE win'[y] = win[y]
        BY <1>1, <3>1 DEF Inv, Windows
      <3>2. CASE win'[y] = Fresh
        BY <1>1, <1>5, <3>2 DEF None, Inv, TypeOK
      <3> QED
        BY <1>7, <3>1, <3>2
    <2>2. main' # "free" => win'[Main].there
      BY <1>4
    <2>3. main' # "free"
      BY <1>4
    <2>4. \A f \in Frames : Lives(f) => win'[f].there
      BY <1>4 DEF Inv, Windows
    <2>5. \A q \in Paused : win'[q].there => Lives(q)
      BY <1>4, FramesAre DEF Inv, Windows
    <2>6. /\ \A y \in Scopes :
              /\ ~win'[y].there => win'[y] = NoWindow
              /\ win'[y].prog = "call" <=> win'[y].call # None
              /\ win'[y].call <= called' /\ \A c \in win'[y].inflight : c <= called'
              /\ win'[y].resumable # None =>
                      /\ y \in Tops /\ win'[y].resumable \in Paused /\ Used(win'[y].resumable)
                      /\ y \in Paused => win'[y].resumable < y
      BY <2>1
    <2> QED
      BY <1>1, <2>2, <2>3, <2>4, <2>5, <2>6 DEF Windows, Used
  <1>13. CallsAreOne'
    <2>1. \A y, z \in Scopes : win'[y].call # None => win'[y].call \notin win'[z].inflight
      <3>1. ASSUME NEW y \in Scopes, NEW z \in Scopes, win'[y].call # None
            PROVE  win'[y].call \notin win'[z].inflight
        <4>1. win'[y] = win[y] /\ (win'[z] = win[z] \/ win'[z].inflight = {})
          BY <1>5, <1>7, <3>1
        <4> QED
          BY <3>1, <4>1 DEF Inv, CallsAreOne
      <3> QED
        BY <3>1
    <2>2. ASSUME NEW y \in Scopes, NEW f \in Up
          PROVE  /\ node[f].call \in win'[y].inflight => node[f].kind = "concurrent"
                 /\ node[f].call = win'[y].call => node[f].kind = "serial"
      <3>1. node[f].call # None
        BY UpwardsIs
      <3>2. CASE win'[y] = win[y]
        BY <3>2 DEF Inv, CallsAreOne
      <3>3. CASE win'[y] = Fresh
        BY <1>5, <3>1, <3>3
      <3> QED
        BY <1>7, <3>2, <3>3
    <2>3. \A m \in Scopes : loop'[m].pc # "spawn"
      BY <1>3
    <2>4. /\ CallOnce' /\ \A f \in Frames : node'[f].call <= called'
          /\ \A f \in Up' : Lives(f)' => node'[f].call \notin recorded'
          /\ \A c \in recorded' : c <= called'
      BY <1>1 DEF Inv, CallsAreOne, CallOnce
    <2> QED
      BY <1>1, <2>1, <2>2, <2>3, <2>4 DEF CallsAreOne, CallOnce
  <1>14. Owners'
    BY <1>1, <1>2, <1>8 DEF Inv, Owners
  <1>15. Apart'
    <2>1. ASSUME NEW y \in Frames, NEW z \in Scopes \ {y}, NEW c \in Pends(win'[y]), c \in Pends(win'[z])
          PROVE  FALSE
      <3>1. c \in Pends(win[y]) /\ c \in Pends(win[z])
        BY <1>8, <2>1, FramesAre
      <3> QED
        BY <1>2, <2>1, <3>1 DEF Inv, Apart
    <2> QED
      BY <2>1 DEF Apart
  <1>16. Waits'
    <2>1. ASSUME NEW f \in Serving
          PROVE  LET c == node[f].caller IN
                 /\ win'[c].there /\ win'[c].call = node[f].call
                 /\ c = Main => main' = "suspended"
                 /\ c \in Temps => node[c].status = "suspended"
                 /\ c \in Paused => Lives(c)
      <3>1. node[f].caller \in Scopes
        BY UpwardsIs DEF Serving
      <3>2. /\ win[node[f].caller].there /\ win[node[f].caller].call = node[f].call
            /\ node[f].caller = Main => main = "suspended"
            /\ node[f].caller \in Temps => node[node[f].caller].status = "suspended"
            /\ node[f].caller \in Paused => Lives(node[f].caller)
        BY DEF Inv, Waits
      <3>3. win'[node[f].caller] = win[node[f].caller]
        BY <1>6, <1>9, <3>1
      <3>4. node[f].caller = Main => main' = "suspended"
        BY <1>4, <3>2
      <3> QED
        BY <3>2, <3>3, <3>4
    <2> QED
      BY <1>1, <2>1 DEF Waits
  <1>17. Deads'
    <2>1. ASSUME NEW f \in Up, NEW y \in Scopes, node[f].kind = "serial", ~Lives(f),
                 node[f].call \notin recorded, win'[y].call = node[f].call
          PROVE  y # Main /\ ~Lives(y)
      <3>1. win'[y] = win[y]
        BY <1>5, <1>7, <2>1, UpwardsIs
      <3> QED
        BY <2>1, <3>1 DEF Inv, Deads
    <2> QED
      BY <1>1, <2>1 DEF Deads
  <1>18. Bases(base)'
    <2>1. \A m \in Scopes : Runs(m)' =>
            base[loop'[m].at] = m /\ (loop'[m].at = Main \/ Lives(loop'[m].at))
      BY <1>3, <1>4
    <2> QED
      BY <1>1, <1>3, <1>4, <2>1 DEF Inv, Bases, Lives
  <1>19. Loops(base)'
    <2>1. \A k \in Temps : k \in Scopes /\ k # Main
      BY FramesAre
    <2>2. \A k \in Paused : k \in Scopes /\ k # Main
      BY FramesAre
    <2>3. loop'[Main].pc \in Alive \cup {"off", "crashed", "answered", "failed", "cleanup"}
      BY <1>3 DEF Alive
    <2> QED
      BY <1>1, <1>3, <2>1, <2>2, <2>3 DEF Loops
  <1>20. Leaves'
    <2>1. ASSUME NEW f \in Up, Lives(f), node[f].call = win'[x].call PROVE FALSE
      <3>1. node[f].call # None
        BY UpwardsIs
      <3>2. win'[x] = win[x]
        BY <1>4, <1>5, <1>7, <2>1, <3>1
      <3>3. f \in Serving
        BY <1>4, <2>1, <3>2 DEF Inv, CallsAreOne, Serving
      <3>4. node[f].call \in Pends(win[x])
        BY <2>1, <3>1, <3>2 DEF Pends
      <3>5. node[f].caller = x
        BY <1>2, <1>4, <3>4 DEF Inv, Owners
      <3> QED
        BY <1>4, <3>3, <3>5
    <2> QED
      BY <1>1, <1>3, <2>1 DEF Leaves, Lives
  <1>21. Answers'
    BY <1>3, FramesAre DEF Answers
  <1>22. Stacks(base)'
    <2>1. main' = "suspended" => main = "suspended"
      BY <1>4
    <2> QED
      BY <1>1, <2>1 DEF Inv, Stacks
  <1>23. Places(base, top)'
    <2>1. \A f \in Frames : node'[f].status = "paused" => top[f] \in Paused /\ ~Runs(top[f])'
      <3>1. ASSUME NEW f \in Frames, node[f].status = "paused" PROVE top[f] \in Paused /\ ~Runs(top[f])'
        <4>1. top[f] \in Paused
          BY <3>1 DEF Inv, Places
        <4>2. top[f] \in Scopes /\ top[f] # Main
          BY <4>1, FramesAre
        <4> QED
          BY <1>3, <4>1, <4>2
      <3> QED
        BY <1>1, <3>1
    <2>2. Runs(Main)' /\ top[Main] = Main
      BY <1>3 DEF Inv, Places, Runs, Alive
    <2>5. /\ top[Main] = Main /\ \A q \in Paused : top[q] = q
          /\ \A f \in Up' : top[f] = top[node'[f].caller]
          /\ \A f \in Frames : Used(f)' => top[base[f]] = top[f] /\ top[f] \in Tops
      BY <1>1 DEF Inv, Places
    <2>6. \A m \in Scopes : Runs(m)' => /\ Runs(top[m])' 
                                        /\ \/ IF loop'[m].at = Main THEN main' = "running" ELSE node'[loop'[m].at].status = "running"
                                           \/ Pausing(m)'
      <3>1. ASSUME NEW m \in Scopes, Runs(m)' PROVE Runs(top[m])'
        BY <1>3, <2>2, <3>1
      <3>2. ASSUME NEW m \in Scopes, Runs(m)' PROVE IF loop'[m].at = Main THEN main' = "running" ELSE node'[loop'[m].at].status = "running"
        <4>1. m = Main /\ loop'[m].at = x
          BY <1>3, <3>2
        <4> QED
          BY <1>1, <1>4, <4>1
      <3> QED
        BY <3>1, <3>2
    <2> QED
      BY <2>1, <2>5, <2>6 DEF Places, Running
  <1>24. Hearing'
    <2>1. \A l, m \in Tops : loop'[l].pc \notin {"off", "crashed"} /\ loop'[m].pc \notin {"off", "crashed"}
              => l = Main /\ m = Main
      BY <1>3, FramesAre DEF Tops
    <2>2. ~ (Ord(Main) < Ord(Main))
      BY ScopesAre DEF Ord
    <2>3. \A q \in Paused : q \in Scopes /\ q # Main
      BY FramesAre
    <2>4. \A m \in Scopes : loop'[m].pc \notin {"resuming", "resumed", "join", "save"}
      BY <1>3
    <2> QED
      BY <1>3, <2>1, <2>2, <2>3, <2>4 DEF Hearing
  <1> QED
    BY <1>1, <1>10, <1>11, <1>12, <1>13, <1>14, <1>15, <1>16, <1>17, <1>18, <1>19, <1>20, <1>21, <1>22, <1>23, <1>24 DEF Inv

LEMMA StartsAre ==
    ASSUME NEW base \in [Scopes -> Scopes], NEW top \in [Scopes -> Scopes],
           Inv(base, top), TypeOK', StartTurn
    PROVE  Inv(base, top)'
  <1>1. /\ loop[Main].pc \in {"off", "crashed"} /\ Main \in Scopes /\ base[Main] = Main
        /\ UNCHANGED <<node, recorded, called, pending, sent, crashes, torn>>
        /\ win \in [Scopes -> Window] /\ loop \in [Scopes -> Loop]
    <2>1. loop[Main].pc \in {"off", "crashed"}
      BY Zenon DEF StartTurn
    <2>2. UNCHANGED <<node, recorded, called, programs, pending, sent, crashes, cutOff, torn>>
      BY Zenon DEF StartTurn
    <2> QED
      BY <2>1, <2>2, FramesAre DEF Inv, Bases, TypeOK
  <1>2. CASE /\ InView = {} /\ main' = "running" /\ Put(Main, Fresh)
             /\ loop' = [loop EXCEPT ![Main] = [Off EXCEPT !.pc = "check"]]
    <2>1. main # "suspended"
      BY <1>2, SuspendedInView
    <2>2. \A f \in Serving : node[f].caller # Main
      BY <2>1 DEF Inv, Waits
    <2>3. [Off EXCEPT !.pc = "check"] = [Off EXCEPT !.pc = "check", !.at = Main]
      <3>1. \A r \in Loop : r.at = Main => [r EXCEPT !.pc = "check"] = [r EXCEPT !.pc = "check", !.at = Main]
        BY DEF Loop
      <3>2. Off \in Loop /\ Off.at = Main
        BY FramesAre DEF Off, Loop
      <3> QED
        BY <3>1, <3>2, Zenon
    <2>4. win'[Main] = Fresh /\ \A y \in Frames : win'[y] = win[y]
      BY <1>1, <1>2, FramesAre DEF Put
    <2>5. Fresh.there
      BY DEF Fresh
    <2>6. Starts(base, Main, Fresh)
      BY <1>1, <1>2, <2>1, <2>2, <2>3, <2>4, <2>5 DEF Starts
    <2> QED
      BY <2>6, StartsKeep
  <1>3. ASSUME NEW x \in InView, win[x].there,
               loop' = [loop EXCEPT ![Main] = [Off EXCEPT !.pc = "check", !.at = x]],
               main' = main, win' = win
        PROVE  Inv(base, top)'
    <2>1. CASE x = Main
      <3>1. main = "running" 
        BY <2>1, FramesAre DEF InView
      <3>2. \A f \in Serving : node[f].caller # Main
        BY <3>1 DEF Inv, Waits
      <3>3. Starts(base, Main, win[Main])
        BY <1>1, <1>3, <2>1, <3>1, <3>2 DEF Starts
      <3> QED
        BY <3>3, StartsKeep
    <2>2. CASE x # Main
      <3>1. x \in Frames /\ node[x].status = "running" /\ ~node[x].parallel
        BY <2>2 DEF InView
      <3>2. Used(x) /\ Lives(x) /\ x \in Scopes
        BY <3>1, FramesAre DEF Used, Lives, Live
      <3>3. x \in Up
        BY <3>1, <3>2, FramesAre DEF Inv, Tree, Up
      <3>4. x \in Serving /\ base[x] = Main
        <4>1. node[x].kind # "concurrent"
          BY <3>1, <3>3 DEF Inv, Stacks
        <4>2. x \in Serving
          BY <3>2, <3>3, <4>1, UpwardsIs DEF Serving
        <4> QED
          BY <3>1, <4>2 DEF Inv, Stacks
      <3>5. main = "suspended"
        BY <3>2, <3>3, <3>4, MainWaits
      <3>6. \A f \in Serving : node[f].caller # x
        BY <3>1, <3>3 DEF Inv, Waits, Up
      <3>7. win[Main].there
        BY <3>5 DEF Inv, Windows
      <3>8. \A y \in Frames : win'[y] = win[y]
        BY <1>3
      <3>9. Starts(base, x, win[Main])
        BY <1>1, <1>3, <2>2, <3>1, <3>2, <3>4, <3>5, <3>6, <3>7, <3>8 DEF Starts
      <3> QED
        BY <3>9, StartsKeep
    <2> QED
      BY <2>1, <2>2
  <1>4. \/ /\ InView = {} /\ main' = "running" /\ Put(Main, Fresh)
           /\ loop' = [loop EXCEPT ![Main] = [Off EXCEPT !.pc = "check"]]
        \/ \E x \in InView :
              /\ win[x].there
              /\ loop' = [loop EXCEPT ![Main] = [Off EXCEPT !.pc = "check", !.at = x]]
              /\ main' = main /\ win' = win
    BY Zenon DEF StartTurn
  <1>5. CASE ~ (/\ InView = {} /\ main' = "running" /\ Put(Main, Fresh)
                /\ loop' = [loop EXCEPT ![Main] = [Off EXCEPT !.pc = "check"]])
    <2>1. PICK x \in InView :
              /\ win[x].there
              /\ loop' = [loop EXCEPT ![Main] = [Off EXCEPT !.pc = "check", !.at = x]]
              /\ main' = main /\ win' = win
      BY <1>4, <1>5, Zenon
    <2> QED
      BY <1>3, <2>1, Zenon
  <1> QED
    BY <1>2, <1>5, Zenon

-----------------------------------------------------------------------------
(* Every step keeps the types.                                             *)

Pcs == {"off", "crashed", "check", "join", "save", "step", "enter", "spawn", "waiting",
        "resuming", "resumed", "ended", "paused", "answered", "failed", "cleanup"}

LEMMA LoopTypes ==
    ASSUME TypeOK
    PROVE  /\ Off \in Loop /\ loop \in [Scopes -> Loop]
           /\ \A r \in Loop : \A pc \in Pcs :
                 /\ [r EXCEPT !.pc = pc] \in Loop
                 /\ [r EXCEPT !.pc = pc, !.kids = {}] \in Loop
           /\ \A l, pc : pc \in Pcs /\ Go(l, pc) => loop' \in [Scopes -> Loop]
           /\ \A l, pc : pc \in Pcs /\ l \in Scopes /\ End(l, pc) =>
                 loop' \in [Scopes -> Loop] /\ cutOff' \subseteq Frames
           /\ \A K \in SUBSET Scopes : Cut(K) => cutOff' \subseteq Frames
           /\ \A l : Take(l) => pending' \in BOOLEAN
  <1>1. Off \in Loop
    BY FramesAre DEF Off, Loop
  <1>2. loop \in [Scopes -> Loop] /\ cutOff \subseteq Frames
    BY DEF TypeOK
  <1>3. ASSUME NEW r \in Loop, NEW pc \in Pcs
        PROVE  /\ [r EXCEPT !.pc = pc] \in Loop
               /\ [r EXCEPT !.pc = pc, !.kids = {}] \in Loop
    BY DEF Loop, Pcs
  <1>4. ASSUME NEW l, NEW pc \in Pcs, Go(l, pc) PROVE loop' \in [Scopes -> Loop]
    <2>1. loop' = [loop EXCEPT ![l] = [loop[l] EXCEPT !.pc = pc]]
      BY <1>2, <1>4 DEF Go
    <2>2. CASE l \in Scopes
      <3>1. [loop[l] EXCEPT !.pc = pc] \in Loop
        BY <1>2, <1>3, <2>2, Zenon
      <3> QED
        BY <1>2, <2>1, <3>1
    <2>3. CASE l \notin Scopes
      BY <1>2, <2>1, <2>3
    <2> QED
      BY <2>2, <2>3
  <1>5. \A K \in SUBSET Scopes : Cut(K) => cutOff' \subseteq Frames
    BY <1>2, FramesAre DEF Cut
  <1>6. ASSUME NEW l \in Scopes, NEW pc \in Pcs, End(l, pc)
        PROVE  loop' \in [Scopes -> Loop] /\ cutOff' \subseteq Frames
    <2>1. PICK N : N = Nested(l)
      OBVIOUS
    <2>2. loop' = [k \in Scopes |-> IF k = l THEN [loop[l] EXCEPT !.pc = pc, !.kids = {}]
                                    ELSE IF k \in N THEN Off ELSE loop[k]]
          /\ Cut(N)
      BY <1>6, <2>1 DEF End
    <2>3. PICK r : r = [loop[l] EXCEPT !.pc = pc, !.kids = {}]
      OBVIOUS
    <2>4. r \in Loop
      BY <1>2, <1>3, <2>3, Zenon
    <2>5. loop' \in [Scopes -> Loop]
      BY <1>1, <1>2, <2>2, <2>3, <2>4
    <2>6. N \in SUBSET Scopes
      BY <2>1, NestedIs
    <2> QED
      BY <1>5, <2>2, <2>5, <2>6
  <1>7. \A l : Take(l) => pending' \in BOOLEAN
    BY DEF Take
  <1> QED
    BY <1>1, <1>2, <1>3, <1>4, <1>5, <1>6, <1>7, Zenon

LEMMA WindowTypes ==
    ASSUME TypeOK
    PROVE  /\ Fresh \in Window /\ NoWindow \in Window /\ win \in [Scopes -> Window]
           /\ \A w \in Window :
                /\ [w EXCEPT !.prog = "ready"] \in Window
                /\ [w EXCEPT !.prog = "none"] \in Window
                /\ [w EXCEPT !.prog = "resume"] \in Window
                /\ [w EXCEPT !.prog = "none", !.inflight = {}] \in Window
                /\ [w EXCEPT !.inflight = {}] \in Window
                /\ [w EXCEPT !.resumable = None] \in Window
                /\ \A c \in Calls : /\ [w EXCEPT !.prog = "call", !.call = c] \in Window
                                    /\ [w EXCEPT !.inflight = @ \cup {c}] \in Window
                /\ \A p \in Frames : [w EXCEPT !.resumable = p] \in Window
           /\ \A x, w : w \in Window /\ Put(x, w) => win' \in [Scopes -> Window]
           /\ \A D : Closed(win, D) \in [Scopes -> Window]
           /\ \A l \in Scopes : W(l) \in Window /\ loop[l].at \in Scopes /\ win[loop[l].at] \in Window
           /\ \A l \in Scopes : W(l).prog = "call" =>
                 win[loop[l].at].prog = "call" /\ W(l).call = win[loop[l].at].call
  <1>1. Fresh \in Window /\ NoWindow \in Window
    BY DEF Fresh, NoWindow, Window
  <1>2. win \in [Scopes -> Window] /\ loop \in [Scopes -> Loop]
    BY DEF TypeOK
  <1>3. ASSUME NEW w \in Window
        PROVE   /\ [w EXCEPT !.prog = "ready"] \in Window
                /\ [w EXCEPT !.prog = "none"] \in Window
                /\ [w EXCEPT !.prog = "resume"] \in Window
                /\ [w EXCEPT !.prog = "none", !.inflight = {}] \in Window
                /\ [w EXCEPT !.inflight = {}] \in Window
                /\ [w EXCEPT !.resumable = None] \in Window
                /\ \A c \in Calls : /\ [w EXCEPT !.prog = "call", !.call = c] \in Window
                                    /\ [w EXCEPT !.inflight = @ \cup {c}] \in Window
                /\ \A p \in Frames : [w EXCEPT !.resumable = p] \in Window
    BY Zenon DEF Window
  <1>4. \A x, w : w \in Window /\ Put(x, w) => win' \in [Scopes -> Window]
    BY <1>2 DEF Put
  <1>5. \A D : Closed(win, D) \in [Scopes -> Window]
    BY <1>1, <1>2 DEF Closed
  <1>6. ASSUME NEW l \in Scopes
        PROVE  /\ W(l) \in Window /\ loop[l].at \in Scopes /\ win[loop[l].at] \in Window
               /\ W(l).prog = "call" => win[loop[l].at].prog = "call" /\ W(l).call = win[loop[l].at].call
    <2>1. loop[l].at \in Scopes /\ win[loop[l].at] \in Window
      BY <1>2 DEF Loop
    <2>2. PICK v \in Window : v = win[loop[l].at]
      BY <2>1
    <2>3. /\ Recover(v) \in Window
          /\ IF v.prog = "call" /\ v.call \in recorded
             THEN Recover(v).prog = "ready" /\ Recover(v).call = None
             ELSE Recover(v).prog = v.prog /\ Recover(v).call = v.call
      BY RecoverIs
    <2>4. W(l) = Recover(v)
      BY <2>2 DEF W
    <2> QED
      BY <2>1, <2>2, <2>3, <2>4
  <1> QED
    BY <1>1, <1>2, <1>3, <1>4, <1>5, <1>6, Zenon

LEMMA NodeTypes ==
    ASSUME NEW ns \in [Frames -> Node]
    PROVE  /\ \A n \in Node : /\ \A s \in Statuses : [n EXCEPT !.status = s] \in Node
                              /\ [n EXCEPT !.safe = FALSE] \in Node
           /\ \A p : MarkPaused(ns, p) \in [Frames -> Node]
           /\ \A p : MarkResumed(ns, p) \in [Frames -> Node]
           /\ \A D : Without(ns, D) \in [Frames -> Node]
           /\ \A C : Interrupted(ns, C) \in [Frames -> Node]
  <1>1. ASSUME NEW n \in Node
        PROVE  /\ \A s \in Statuses : [n EXCEPT !.status = s] \in Node
               /\ \A s \in Statuses : [n EXCEPT !.status = s, !.parallel = TRUE, !.safe = TRUE] \in Node
               /\ [n EXCEPT !.safe = FALSE] \in Node
    BY Zenon DEF Node
  <1>2. {"running", "paused", "interrupted"} \subseteq Statuses
    BY DEF Statuses
  <1>3. ASSUME NEW p PROVE MarkPaused(ns, p) \in [Frames -> Node]
    <2> DEFINE N == MarkPaused(ns, p)
    <2>1. ASSUME NEW f \in Frames PROVE N[f] \in Node
      <3>1. CASE f \in Chain(ns, p) /\ Live(ns[f])
        <4>1. PICK s : s = IF ns[f].status = "running" THEN "paused" ELSE ns[f].status
          OBVIOUS
        <4>2. N[f] = [ns[f] EXCEPT !.status = s, !.parallel = TRUE, !.safe = TRUE]
          BY <3>1, <4>1 DEF MarkPaused
        <4>3. s \in Statuses /\ ns[f] \in Node
          BY <1>2, <4>1 DEF Node
        <4>4. [ns[f] EXCEPT !.status = s, !.parallel = TRUE, !.safe = TRUE] \in Node
          BY <1>1, <4>3, Zenon
        <4> QED
          BY <4>2, <4>4
      <3>2. CASE ~ (f \in Chain(ns, p) /\ Live(ns[f]))
        BY <3>2 DEF MarkPaused
      <3> QED
        BY <3>1, <3>2
    <2>2. N = [f \in Frames |-> N[f]]
      BY DEF MarkPaused
    <2> HIDE DEF N
    <2> QED
      BY <2>1, <2>2 DEF N
  <1>4. ASSUME NEW p PROVE MarkResumed(ns, p) \in [Frames -> Node]
    <2>1. \A f \in Frames : [ns[f] EXCEPT !.status = "running"] \in Node
      BY <1>1, <1>2, Zenon
    <2> QED
      BY <2>1 DEF MarkResumed
  <1>5. \A f \in Frames : [ns[f] EXCEPT !.status = "interrupted"] \in Node
    BY <1>1, <1>2, Zenon
  <1>6. \A D : Without(ns, D) \in [Frames -> Node]
    BY <1>5 DEF Without
  <1>7. \A C : Interrupted(ns, C) \in [Frames -> Node]
    BY <1>5 DEF Interrupted
  <1> QED
    BY <1>1, <1>3, <1>4, <1>6, <1>7, Zenon

LEMMA WindowStepTypes ==
    ASSUME TypeOK, NEW l \in Scopes,
           \/ Check(l) \/ WriteProgram(l) \/ Rewrite(l) \/ ProgramCalls(l) \/ ProgramSpawns(l)
           \/ ProgramWaits(l) \/ ProgramResumes(l) \/ ResumeRecorded(l) \/ InterruptUnfinished(l)
    PROVE  TypeOK'
  <1> DEFINE x == loop[l].at
  <1>1. /\ node \in [Frames -> Node] /\ W(l) \in Window /\ x \in Scopes /\ win[x] \in Window
        /\ win \in [Scopes -> Window] /\ loop \in [Scopes -> Loop] /\ loop[l] \in Loop
    BY WindowTypes, Zenon DEF TypeOK
  <1>2. {"join", "step", "check", "enter", "waiting"} \subseteq Pcs
    BY DEF Pcs
  <1>3. called < MaxCalls /\ called' = called + 1 => called' \in Calls /\ called' \in 0 .. MaxCalls
    BY BoundsAssumption DEF TypeOK, Calls
  <1> HIDE DEF x
  <1>4. CASE Check(l)
    <2>1. /\ Go(l, IF InProgram(loop[l].at) /\ pending THEN "join" ELSE "step")
          /\ UNCHANGED <<root, main, node, win, recorded, pending, cutOff, tally>>
      BY <1>4, Zenon DEF Check
    <2>2. PICK pc \in Pcs : Go(l, pc)
      BY <1>2, <2>1
    <2> QED
      BY <2>1, <2>2, LoopTypes, Zenon DEF TypeOK, tally
  <1>5. CASE WriteProgram(l)
    <2>1. /\ programs < MaxPrograms /\ programs' = programs + 1
          /\ Put(x, [W(l) EXCEPT !.prog = "ready"]) /\ Go(l, "check") /\ Take(l)
          /\ UNCHANGED <<root, main, node, recorded, cutOff, called, sent, turn, crashes, torn>>
      BY <1>5, Zenon DEF WriteProgram, x
    <2>2. win' \in [Scopes -> Window]
      BY <1>1, <2>1, WindowTypes, Zenon
    <2>3. loop' \in [Scopes -> Loop] /\ pending' \in BOOLEAN
      BY <1>2, <2>1, LoopTypes, Zenon
    <2>4. programs' \in 0 .. MaxPrograms
      BY <2>1, BoundsAssumption DEF TypeOK
    <2>5. UNCHANGED <<root, main, node, recorded, cutOff, called, sent, turn, crashes, torn>>
      BY <2>1, Zenon
    <2> QED
      BY <2>2, <2>3, <2>4, <2>5 DEF TypeOK
  <1>6. CASE Rewrite(l)
    <2>1. /\ Put(x, [W(l) EXCEPT !.prog = "none", !.inflight = {}]) /\ Go(l, "check") /\ Take(l)
          /\ UNCHANGED <<root, main, node, recorded, cutOff, tally>>
      BY <1>6, Zenon DEF Rewrite, x
    <2>2. win' \in [Scopes -> Window]
      BY <1>1, <2>1, WindowTypes, Zenon
    <2>3. loop' \in [Scopes -> Loop] /\ pending' \in BOOLEAN
      BY <1>2, <2>1, LoopTypes, Zenon
    <2>4. UNCHANGED <<root, main, node, recorded, cutOff, tally>>
      BY <2>1, Zenon
    <2> QED
      BY <2>2, <2>3, <2>4 DEF TypeOK, tally
  <1>7. CASE ProgramCalls(l)
    <2>1. /\ called < MaxCalls /\ called' = called + 1
          /\ Put(x, [W(l) EXCEPT !.prog = "call", !.call = called']) /\ Go(l, "enter") /\ Take(l)
          /\ UNCHANGED <<root, main, node, recorded, cutOff, programs, sent, turn, crashes, torn>>
      BY <1>7, Zenon DEF ProgramCalls, x
    <2>2. win' \in [Scopes -> Window]
      <3>1. called' \in Calls
        BY <1>3, <2>1, Zenon
      <3> QED
        BY <1>1, <2>1, <3>1, WindowTypes, Zenon
    <2>3. loop' \in [Scopes -> Loop] /\ pending' \in BOOLEAN
      BY <1>2, <2>1, LoopTypes, Zenon
    <2>4. UNCHANGED <<root, main, node, recorded, cutOff, programs, sent, turn, crashes, torn>>
          /\ called' \in 0 .. MaxCalls
      BY <1>3, <2>1, Zenon
    <2> QED
      BY <2>2, <2>3, <2>4 DEF TypeOK
  <1>8. CASE ProgramSpawns(l)
    <2>1. /\ called < MaxCalls /\ called' = called + 1
          /\ Put(x, [W(l) EXCEPT !.inflight = @ \cup {called'}]) /\ Take(l)
          /\ loop' = [loop EXCEPT ![l].pc = "spawn", ![l].call = called']
          /\ UNCHANGED <<root, main, node, recorded, cutOff, programs, sent, turn, crashes, torn>>
      BY <1>8, Zenon DEF ProgramSpawns, x
    <2>5. called' \in Calls
      BY <1>3, <2>1, Zenon
    <2>2. win' \in [Scopes -> Window]
      BY <1>1, <2>1, <2>5, WindowTypes, Zenon
    <2>3. loop' \in [Scopes -> Loop] /\ pending' \in BOOLEAN
      <3>1. loop' = [loop EXCEPT ![l] = [loop[l] EXCEPT !.pc = "spawn", !.call = called']]
        BY <1>1, <2>1
      <3>2. \A r \in Loop : \A c \in Calls : [r EXCEPT !.pc = "spawn", !.call = c] \in Loop
        BY DEF Loop
      <3>3. [loop[l] EXCEPT !.pc = "spawn", !.call = called'] \in Loop
        BY <1>1, <2>5, <3>2, Zenon
      <3>4. loop' \in [Scopes -> Loop]
        BY <1>1, <3>1, <3>3
      <3> QED
        BY <2>1, <3>4, LoopTypes, Zenon
    <2>4. UNCHANGED <<root, main, node, recorded, cutOff, programs, sent, turn, crashes, torn>>
          /\ called' \in 0 .. MaxCalls
      BY <1>3, <2>1, Zenon
    <2> QED
      BY <2>2, <2>3, <2>4 DEF TypeOK
  <1>9. CASE ProgramWaits(l)
    <2>1. /\ Put(x, W(l)) /\ Go(l, "waiting") /\ Take(l)
          /\ UNCHANGED <<root, main, node, recorded, cutOff, tally>>
      BY <1>9, Zenon DEF ProgramWaits, x
    <2>2. win' \in [Scopes -> Window]
      BY <1>1, <2>1, WindowTypes, Zenon
    <2>3. loop' \in [Scopes -> Loop] /\ pending' \in BOOLEAN
      BY <1>2, <2>1, LoopTypes, Zenon
    <2> QED
      BY <2>1, <2>2, <2>3 DEF TypeOK, tally
  <1>10. CASE ProgramResumes(l)
    <2>1. /\ called < MaxCalls /\ called' = called + 1
          /\ Put(x, [W(l) EXCEPT !.prog = "resume"]) /\ Go(l, "enter") /\ Take(l)
          /\ UNCHANGED <<root, main, node, recorded, cutOff, programs, sent, turn, crashes, torn>>
      BY <1>10, Zenon DEF ProgramResumes, x
    <2>2. win' \in [Scopes -> Window]
      BY <1>1, <2>1, WindowTypes, Zenon
    <2>3. loop' \in [Scopes -> Loop] /\ pending' \in BOOLEAN
      BY <1>2, <2>1, LoopTypes, Zenon
    <2>4. UNCHANGED <<root, main, node, recorded, cutOff, programs, sent, turn, crashes, torn>>
          /\ called' \in 0 .. MaxCalls
      BY <1>3, <2>1, Zenon
    <2> QED
      BY <2>2, <2>3, <2>4 DEF TypeOK
  <1>11. CASE ResumeRecorded(l)
    <2>1. /\ Put(x, [win[x] EXCEPT !.prog = "ready"]) /\ Go(l, "check")
          /\ UNCHANGED <<root, main, node, recorded, pending, cutOff, tally>>
      BY <1>11, Zenon DEF ResumeRecorded, x
    <2>2. win' \in [Scopes -> Window]
      BY <1>1, <2>1, WindowTypes, Zenon
    <2>3. loop' \in [Scopes -> Loop]
      BY <1>2, <2>1, LoopTypes, Zenon
    <2>4. UNCHANGED <<root, main, node, recorded, pending, cutOff, tally>>
      BY <2>1, Zenon
    <2> QED
      BY <2>2, <2>3, <2>4 DEF TypeOK, tally
  <1>12. CASE InterruptUnfinished(l)
    <2>1. /\ node' = Interrupted(node, win[x].inflight)
          /\ Put(x, [win[x] EXCEPT !.inflight = {}]) /\ Go(l, "check")
          /\ UNCHANGED <<root, main, recorded, pending, cutOff, tally>>
      BY <1>12, Zenon DEF InterruptUnfinished, x
    <2>2. win' \in [Scopes -> Window]
      BY <1>1, <2>1, WindowTypes, Zenon
    <2>3. loop' \in [Scopes -> Loop]
      BY <1>2, <2>1, LoopTypes, Zenon
    <2>4. node' \in [Frames -> Node]
      BY <1>1, <2>1, NodeTypes
    <2>5. UNCHANGED <<root, main, recorded, pending, cutOff, tally>>
      BY <2>1, Zenon
    <2> QED
      BY <2>2, <2>3, <2>4, <2>5 DEF TypeOK, tally
  <1> QED
    BY <1>4, <1>5, <1>6, <1>7, <1>8, <1>9, <1>10, <1>11, <1>12

\* A loop's reply, or a failure that ends it.
LEMMA ReplyTypes ==
    ASSUME NEW base \in [Scopes -> Scopes], NEW top \in [Scopes -> Scopes], Inv(base, top),
           NEW l \in Scopes, AIReplies(l) \/ ProgramReturns(l) \/ ProgramThrows(l)
    PROVE  TypeOK'
  <1> DEFINE x == loop[l].at
             w == [W(l) EXCEPT !.prog = "none", !.inflight = {}]
  <1>1. /\ TypeOK /\ node \in [Frames -> Node] /\ x \in Scopes /\ loop[l] \in Loop
        /\ win \in [Scopes -> Window] /\ loop \in [Scopes -> Loop] /\ w \in Window
        /\ root \in {"running", "suspended"} /\ main \in {"free", "running", "suspended", "done"}
        /\ recorded \subseteq Calls
    BY WindowTypes, Zenon DEF Inv, TypeOK
  <1>2. {"answered", "ended", "check"} \subseteq Pcs /\ {"done", "running"} \subseteq Statuses
    BY DEF Pcs, Statuses
  <1>3. Reply(l) /\ Take(l) /\ UNCHANGED tally /\ loop[l].pc = "step"
    BY Zenon DEF AIReplies, ProgramReturns, ProgramThrows, Steps
  <1>4. pending' \in BOOLEAN
    BY <1>1, <1>3, LoopTypes, Zenon
  <1>5. SUFFICES /\ root' \in {"running", "suspended"}
                 /\ main' \in {"free", "running", "suspended", "done"}
                 /\ node' \in [Frames -> Node] /\ win' \in [Scopes -> Window]
                 /\ loop' \in [Scopes -> Loop] /\ recorded' \subseteq Calls /\ cutOff' \subseteq Frames
    BY <1>1, <1>3, <1>4 DEF TypeOK, tally
  <1> HIDE DEF x, w
  <1>6. ASSUME NEW pc \in Pcs, End(l, pc)
        PROVE  loop' \in [Scopes -> Loop] /\ cutOff' \subseteq Frames
    BY <1>1, <1>6, LoopTypes, Zenon
  <1>7. Put(x, w) => win' \in [Scopes -> Window]
    BY <1>1, WindowTypes, Zenon
  <1>8. CASE /\ x = Main
             /\ main' = IF main = "running" THEN "done" ELSE main
             /\ root' = IF main = "running" THEN "running" ELSE root
             /\ Put(Main, w) /\ End(l, "answered") /\ UNCHANGED <<node, recorded>>
    BY <1>1, <1>2, <1>6, <1>7, <1>8
  <1>9. CASE /\ Put(x, w) /\ End(l, "answered") /\ UNCHANGED <<root, main, node, recorded>>
    BY <1>1, <1>2, <1>6, <1>7, <1>9
  <1>10. CASE /\ Put(x, w) /\ End(l, IF Hears(l) THEN "answered" ELSE "ended")
              /\ UNCHANGED <<root, main, node, recorded>>
    <2>1. PICK pc \in Pcs : End(l, pc)
      BY <1>2, <1>10
    <2> QED
      BY <1>1, <1>6, <1>7, <1>10, <2>1
  <1>11. CASE IsFunction(x) /\ Running(x) /\ FinishFrame(l, x) /\ UNCHANGED root
    <2>1. x \in Frames /\ node[x] \in Node /\ node[x].call \in Calls
      <3>1. x \in Frames /\ node[x].status # "free" /\ node[x].kind # "previous"
        BY <1>1, <1>11, FramesAre DEF IsFunction, Running
      <3>2. x \in Up
        BY <1>1, <3>1, UpIs DEF Inv, Opened
      <3>3. node[x].call # None
        BY <3>2, UpwardsIs
      <3> QED
        BY <1>1, <3>1, <3>3 DEF Node
    <2>2. \A s \in Statuses : \A n \in Node : [n EXCEPT !.status = s] \in Node
      BY <1>1, NodeTypes
    <2>3. recorded \cup {node[x].call} \subseteq Calls
      BY <1>1, <2>1
    <2>4. CASE node[x].kind = "concurrent"
      <3>1. /\ node' = [node EXCEPT ![x].status = "done"]
            /\ recorded' = recorded \cup {node[x].call}
            /\ Put(x, w) /\ End(l, "ended") /\ UNCHANGED main
        BY <1>11, <2>4, Zenon DEF FinishFrame, w
      <3>2. node' \in [Frames -> Node]
        <4>1. node' = [node EXCEPT ![x] = [node[x] EXCEPT !.status = "done"]]
          BY <1>1, <2>1, <3>1
        <4>2. [node[x] EXCEPT !.status = "done"] \in Node
          BY <1>2, <2>1, <2>2
        <4> QED
          BY <1>1, <2>1, <4>1, <4>2
      <3> QED
        BY <1>1, <1>2, <1>6, <1>7, <1>11, <2>3, <3>1, <3>2
    <2>5. CASE node[x].kind # "concurrent"
      <3> DEFINE c == node[x].caller
      <3>1. /\ node' = [f \in Frames |-> IF f = x THEN [node[x] EXCEPT !.status = "done"]
                                    ELSE IF f = c THEN [node[f] EXCEPT !.status = "running"]
                                    ELSE node[f]]
            /\ main' = IF c = Main THEN "running" ELSE main
            /\ recorded' = recorded \cup {node[x].call}
            /\ Put(x, NoWindow)
            /\ loop' = [loop EXCEPT ![l].at = c, ![l].pc = "check"]
            /\ UNCHANGED cutOff
        BY <1>11, <2>5, Zenon DEF FinishFrame
      <3>2. c \in Scopes
        BY <2>1 DEF Node
      <3>3. win' \in [Scopes -> Window]
        BY <1>1, <3>1, WindowTypes, Zenon
      <3>4. loop' \in [Scopes -> Loop]
        <4> HIDE DEF c
        <4>1. loop' = [loop EXCEPT ![l] = [loop[l] EXCEPT !.at = c, !.pc = "check"]]
          BY <1>1, <3>1
        <4>2. \A r \in Loop : [r EXCEPT !.at = c, !.pc = "check"] \in Loop
          BY <3>2 DEF Loop
        <4>3. [loop[l] EXCEPT !.at = c, !.pc = "check"] \in Loop
          BY <1>1, <4>2, Zenon
        <4> QED
          BY <1>1, <4>1, <4>3
      <3>5. node' \in [Frames -> Node]
        <4> HIDE DEF c
        <4>1. ASSUME NEW f \in Frames
              PROVE  /\ [node[x] EXCEPT !.status = "done"] \in Node
                     /\ [node[f] EXCEPT !.status = "running"] \in Node
          BY <1>1, <1>2, <2>1, <2>2, Zenon
        <4>2. PICK d : d = [node[x] EXCEPT !.status = "done"]
          OBVIOUS
        <4>3. d \in Node
          <5>1. "done" \in Statuses
            BY <1>2
          <5> QED
            BY <2>1, <2>2, <4>2, <5>1, Zenon
        <4> QED
          BY <1>1, <3>1, <4>1, <4>2, <4>3
      <3>6. main' \in {"free", "running", "suspended", "done"}
        BY <1>1, <3>1
      <3>7. root' = root /\ cutOff' = cutOff /\ cutOff \subseteq Frames
        BY <1>1, <1>11, <3>1 DEF TypeOK
      <3> QED
        BY <1>1, <2>3, <3>1, <3>3, <3>4, <3>5, <3>6, <3>7
    <2> QED
      BY <2>4, <2>5
  <1> QED
    BY <1>3, <1>8, <1>9, <1>10, <1>11, Zenon DEF Reply, x, w

LEMMA OpenTypes ==
    ASSUME NEW base \in [Scopes -> Scopes], NEW top \in [Scopes -> Scopes], Inv(base, top),
           NEW l \in Scopes, Enter(l) \/ Spawn(l)
    PROVE  TypeOK'
  <1> DEFINE x == loop[l].at
             c == W(l).call
             g == First(Unused(Temps))
  <1>1. /\ TypeOK /\ node \in [Frames -> Node] /\ x \in Scopes /\ loop[l] \in Loop
        /\ win \in [Scopes -> Window] /\ loop \in [Scopes -> Loop] /\ W(l) \in Window
        /\ win[x] \in Window /\ loop[l].call \in {None} \cup Calls
        /\ W(l).prog = "call" => win[x].prog = "call" /\ c = win[x].call
    BY WindowTypes, Zenon DEF Inv, TypeOK, Loop
  <1>2. \A prog \in {"none", "ready"} : [Fresh EXCEPT !.prog = prog] \in Window
    <2>1. Fresh \in Window
      BY <1>1, WindowTypes, Zenon
    <2> QED
      BY <2>1, <1>1, WindowTypes, Zenon
  <1>3. Unused(Temps) # {} => g \in Temps /\ g \in Frames /\ g \in Scopes
    <2>1. Unused(Temps) \subseteq Frames /\ Unused(Temps) \subseteq Temps
      BY FramesAre DEF Unused
    <2>2. PICK S : S = Unused(Temps)
      OBVIOUS
    <2> QED
      BY <2>1, <2>2, FirstIs, FramesAre
  <1>4. \A kind \in {"serial", "concurrent"}, d \in {None} \cup Calls : NewNode(kind, x, d) \in Node
    <2>1. NoNode \in Node
      BY FramesAre DEF NoNode, Node, Statuses
    <2>2. \A n \in Node, kind \in {"serial", "concurrent"}, d \in {None} \cup Calls, b \in BOOLEAN :
             [n EXCEPT !.status = "running", !.kind = kind, !.caller = x, !.parent = x,
                       !.call = d, !.parallel = b] \in Node
      BY <1>1 DEF Node, Statuses
    <2>3. \A kind : (kind = "concurrent" \/ (x # Main /\ node[x].parallel)) \in BOOLEAN
      OBVIOUS
    <2> HIDE DEF x
    <2> QED
      BY <2>1, <2>2, <2>3, Zenon DEF NewNode, x
  <1>5. \A n \in Node : \A s \in Statuses : [n EXCEPT !.status = s] \in Node
    BY <1>1, NodeTypes, Zenon
  <1>6. "suspended" \in Statuses /\ "check" \in Pcs
    BY DEF Statuses, Pcs
  <1> HIDE DEF x, g, c
  <1>7. CASE Enter(l)
    <2>1. /\ UNCHANGED <<root, cutOff, tally>>
          /\ IF loop[l].pc = "step" THEN Take(l) ELSE UNCHANGED pending
          /\ W(l).prog = "call"
      BY <1>7, Zenon DEF Enter, Pending
    <2>2. pending' \in BOOLEAN
      BY <1>1, <2>1, LoopTypes, Zenon DEF TypeOK
    <2>3. c \in Calls
      <3>1. win[x].call # None
        BY <1>1, <2>1 DEF Inv, Windows
      <3> QED
        BY <1>1, <2>1, <3>1 DEF Window
    <2>4. CASE Running(x) /\ Unused(Temps) # {}
      <3>1. /\ node' = [f \in Frames |->
                          IF f = g THEN NewNode("serial", x, c)
                          ELSE IF f = x THEN [node[f] EXCEPT !.status = "suspended"]
                          ELSE node[f]]
            /\ main' = IF x = Main THEN "suspended" ELSE main
            /\ \E prog \in {"none", "ready"} :
                  win' = [win EXCEPT ![x] = W(l), ![g] = [Fresh EXCEPT !.prog = prog]]
            /\ loop' = [loop EXCEPT ![l].at = g, ![l].pc = "check"]
            /\ UNCHANGED recorded
        BY <1>7, <2>4, Zenon DEF Enter, x, c, g
      <3>2. node' \in [Frames -> Node]
        <4>1. PICK n \in Node : n = NewNode("serial", x, c)
          BY <1>4, <2>3
        <4>2. \A f \in Frames : [node[f] EXCEPT !.status = "suspended"] \in Node
          BY <1>1, <1>5, <1>6, Zenon
        <4> QED
          BY <1>1, <3>1, <4>1, <4>2
      <3>3. win' \in [Scopes -> Window]
        <4>1. PICK prog \in {"none", "ready"} :
                  win' = [win EXCEPT ![x] = W(l), ![g] = [Fresh EXCEPT !.prog = prog]]
          BY <3>1
        <4>2. PICK v \in Window : v = [Fresh EXCEPT !.prog = prog]
          BY <1>2
        <4> QED
          BY <1>1, <4>1, <4>2
      <3>4. loop' \in [Scopes -> Loop]
        <4>1. loop' = [loop EXCEPT ![l] = [loop[l] EXCEPT !.at = g, !.pc = "check"]]
          BY <1>1, <3>1
        <4>2. \A r \in Loop : [r EXCEPT !.at = g, !.pc = "check"] \in Loop
          BY <1>3, <2>4 DEF Loop
        <4>3. [loop[l] EXCEPT !.at = g, !.pc = "check"] \in Loop
          BY <1>1, <4>2, Zenon
        <4> QED
          BY <1>1, <4>1, <4>3
      <3>5. main' \in {"free", "running", "suspended", "done"}
        BY <1>1, <3>1 DEF TypeOK
      <3>6. recorded' = recorded
        BY <3>1
      <3> QED
        BY <1>1, <2>1, <2>2, <3>2, <3>3, <3>4, <3>5, <3>6 DEF TypeOK, tally
    <2>5. CASE ~ (Running(x) /\ Unused(Temps) # {})
      <3>1. /\ recorded' = recorded \cup {c} /\ Put(x, W(l)) /\ Go(l, "check")
            /\ UNCHANGED <<node, main>>
        BY <1>7, <2>5, Zenon DEF Enter, x, c
      <3>2. win' \in [Scopes -> Window] /\ loop' \in [Scopes -> Loop]
        BY <1>1, <1>6, <3>1, WindowTypes, LoopTypes, Zenon
      <3>3. recorded' \subseteq Calls
        BY <1>1, <2>3, <3>1 DEF TypeOK
      <3> QED
        BY <1>1, <2>1, <2>2, <3>1, <3>2, <3>3 DEF TypeOK, tally
    <2> QED
      BY <2>4, <2>5
  <1>8. CASE Spawn(l)
    <2>1. /\ Unused(Temps) # {}
          /\ node' = [node EXCEPT ![g] = NewNode("concurrent", x, loop[l].call)]
          /\ \E prog \in {"none", "ready"} : Put(g, [Fresh EXCEPT !.prog = prog])
          /\ loop' = [loop EXCEPT ![l].pc = "check", ![l].call = None, ![l].kids = @ \cup {g},
                             ![g] = [Off EXCEPT !.pc = "check", !.at = g]]
          /\ UNCHANGED <<root, main, recorded, pending, cutOff, tally>>
      BY <1>8, Zenon DEF Spawn, x, g
    <2>2. node' \in [Frames -> Node]
      <3>1. PICK n \in Node : n = NewNode("concurrent", x, loop[l].call)
        BY <1>1, <1>4
      <3> QED
        BY <1>1, <2>1, <3>1
    <2>3. win' \in [Scopes -> Window]
      BY <1>1, <1>2, <2>1, WindowTypes, Zenon
    <2>4. loop' \in [Scopes -> Loop]
      <3>1. PICK o \in Loop : o = [Off EXCEPT !.pc = "check", !.at = g]
        <4>1. \A r \in Loop : [r EXCEPT !.pc = "check", !.at = g] \in Loop
          BY <1>3, <2>1 DEF Loop
        <4>2. Off \in Loop
          BY <1>1, LoopTypes, Zenon
        <4> QED
          BY <4>1, <4>2, Zenon
      <3>2. loop' = [loop EXCEPT ![l] = [loop[l] EXCEPT !.pc = "check", !.call = None, !.kids = @ \cup {g}],
                                 ![g] = o]
        BY <1>1, <2>1, <3>1
      <3>3. \A r \in Loop : [r EXCEPT !.pc = "check", !.call = None, !.kids = @ \cup {g}] \in Loop
        BY <1>3, <2>1 DEF Loop
      <3>4. PICK v \in Loop : v = [loop[l] EXCEPT !.pc = "check", !.call = None, !.kids = @ \cup {g}]
        BY <1>1, <3>3, Zenon
      <3> QED
        BY <1>1, <3>2, <3>4
    <2>5. UNCHANGED <<root, main, recorded, pending, cutOff, tally>>
      BY <2>1, Zenon
    <2> QED
      BY <1>1, <2>2, <2>3, <2>4, <2>5 DEF TypeOK, tally
  <1> QED
    BY <1>7, <1>8

LEMMA FailTypes ==
    ASSUME NEW base \in [Scopes -> Scopes], NEW top \in [Scopes -> Scopes], Inv(base, top),
           NEW l \in Scopes, Fail(l)
    PROVE  TypeOK'
  <1>1. /\ TypeOK /\ node \in [Frames -> Node] /\ win \in [Scopes -> Window]
        /\ UNCHANGED <<root, main, pending, tally>>
        /\ loop[l].pc \in {"step", "enter", "spawn"} /\ Runs(l)
    <2>1. UNCHANGED <<root, main, pending, tally>> /\ loop[l].pc \in {"step", "enter", "spawn"}
      BY DEF Fail
    <2> QED
      BY <2>1 DEF Inv, TypeOK, Runs, Alive
  <1>2. {"failed", "ended"} \subseteq Pcs /\ "done" \in Statuses
    BY DEF Pcs, Statuses
  <1>3. CASE Hears(l)
    <2>1. End(l, "failed") /\ UNCHANGED <<node, win, recorded>>
      BY <1>3, Zenon DEF Fail
    <2>2. loop' \in [Scopes -> Loop] /\ cutOff' \subseteq Frames
      BY <1>1, <1>2, <2>1, LoopTypes, Zenon
    <2> QED
      BY <1>1, <2>1, <2>2 DEF TypeOK, tally
  <1>4. CASE ~Hears(l)
    <2> DEFINE x == loop[l].at
               w == W(l)
               S == IF Running(x) THEN Stack(l) ELSE {}
               ns == Interrupted(node, w.inflight)
    <2>1. /\ node' = [f \in Frames |-> IF f \in S THEN [ns[f] EXCEPT !.status = "done"] ELSE ns[f]]
          /\ recorded' = recorded \cup {node[f].call : f \in S}
          /\ win' = [y \in Scopes |-> IF y \in S \ {l} THEN NoWindow
                                      ELSE IF y = x THEN [w EXCEPT !.inflight = {}] ELSE win[y]]
          /\ End(l, "ended")
      BY <1>4, Zenon DEF Fail, FailedCall
    <2>2. l \in Temps
      <3>1. Used(l) \/ l = Main
        BY <1>1, FramesAre DEF Inv, Tree, Off
      <3>2. l \notin Tops
        BY <1>1, <1>4, <3>1, HearsIs DEF Inv
      <3> QED
        BY <3>2, FramesAre DEF Tops
    <2>3. S \subseteq Up
      BY <1>1, <2>2, StackIs
    <2>4. w \in Window /\ x \in Scopes
      BY <1>1, WindowTypes, Zenon
    <2>5. loop' \in [Scopes -> Loop] /\ cutOff' \subseteq Frames
      BY <1>1, <1>2, <2>1, LoopTypes, Zenon
    <2>6. recorded' \subseteq Calls
      <3> HIDE DEF S
      <3>1. \A f \in S : node[f].call \in Calls
        <4>1. ASSUME NEW f \in S PROVE node[f].call \in Calls
          <5>1. f \in Up /\ f \in Frames
            BY <2>3, FramesAre DEF Up
          <5>2. node[f].call # None
            BY <5>1, UpwardsIs
          <5> QED
            BY <1>1, <5>1, <5>2 DEF Node
        <4> QED
          BY <4>1
      <3> QED
        BY <1>1, <2>1, <3>1 DEF TypeOK
    <2>7. ns \in [Frames -> Node]
      BY <1>1, NodeTypes
    <2> HIDE DEF S, ns, w, x
    <2>8. node' \in [Frames -> Node]
      <3>1. \A f \in Frames : [ns[f] EXCEPT !.status = "done"] \in Node
        BY <1>1, <1>2, <2>7, NodeTypes, Zenon
      <3> QED
        BY <2>1, <2>7, <3>1
    <2>9. win' \in [Scopes -> Window]
      <3>1. PICK v \in Window : v = [w EXCEPT !.inflight = {}]
        BY <1>1, <2>4, WindowTypes, Zenon
      <3>2. NoWindow \in Window
        BY <1>1, WindowTypes, Zenon
      <3> QED
        BY <1>1, <2>1, <3>1, <3>2
    <2> QED
      BY <1>1, <2>5, <2>6, <2>8, <2>9 DEF TypeOK, tally
  <1> QED
    BY <1>3, <1>4

LEMMA ResumeTypes ==
    ASSUME NEW base \in [Scopes -> Scopes], NEW top \in [Scopes -> Scopes], Inv(base, top),
           NEW l \in Scopes,
           RunPausedCalls(l) \/ BeginResume(l) \/ ResumePaused(l) \/ ResumeReturned(l)
    PROVE  TypeOK'
  <1> DEFINE x == loop[l].at
             p == win[x].resumable
  <1>1. /\ TypeOK /\ node \in [Frames -> Node] /\ win \in [Scopes -> Window]
        /\ loop \in [Scopes -> Loop] /\ loop[l] \in Loop /\ x \in Scopes /\ win[x] \in Window
        /\ p \in {None} \cup Frames
    <2>1. TypeOK /\ node \in [Frames -> Node] /\ loop \in [Scopes -> Loop]
      BY DEF Inv, TypeOK
    <2>2. win \in [Scopes -> Window] /\ x \in Scopes /\ win[x] \in Window
      BY <2>1, WindowTypes, Zenon
    <2>3. p \in {None} \cup Frames
      BY <2>2 DEF Window
    <2> QED
      BY <2>1, <2>2, <2>3
  <1>2. \A s \in Scopes : \A r \in Loop : [r EXCEPT !.pc = "check", !.at = s] \in Loop
    BY DEF Loop
  <1>3. \A pc \in Pcs : \A r \in Loop : [r EXCEPT !.pc = pc] \in Loop
    BY <1>1, LoopTypes, Zenon
  <1>4. Off \in Loop
    BY <1>1, LoopTypes, Zenon
  <1>5. {"check", "resuming", "resumed"} \subseteq Pcs /\ "done" \in Statuses
    BY DEF Pcs, Statuses
  <1>6. CASE RunPausedCalls(l)
    <2> DEFINE K == Restartable(x)
    <2>1. /\ loop[l].pc = "waiting" /\ loop[l].kids = {}
          /\ node' = [f \in Frames |-> IF f \in K THEN [node[f] EXCEPT !.safe = FALSE] ELSE node[f]]
          /\ loop' = [k \in Scopes |->
                  IF k = l THEN [loop[l] EXCEPT !.pc = "check", !.kids = K]
                  ELSE IF k \in K THEN [Off EXCEPT !.pc = "check", !.at = Innermost(node, k)]
                  ELSE loop[k]]
          /\ UNCHANGED <<root, main, win, recorded, pending, cutOff, tally>>
      BY <1>6, Zenon DEF RunPausedCalls
    <2>2. ~Saving
      BY <2>1, SavingIsQuiet, FramesAre, Zenon DEF Saving, Runs, Alive
    <2>3. ASSUME NEW k \in K PROVE Innermost(node, k) \in Scopes
      <3>3. loop[l].pc = "waiting" /\ loop[l].kids = {} /\ k \in Restartable(loop[l].at)
        BY <2>1, Zenon
      <3>1. k \in Frames /\ base[k] = k /\ Lives(k)
        BY <3>3, RestartableIs
      <3>2. \A f \in Frames : node[f].call = node[f].call /\ (Live(node[f]) <=> Lives(f))
        BY DEF Lives
      <3> QED
        BY <2>2, <3>1, <3>2, StoppedAt
    <2>4. K \subseteq Frames
      BY DEF Restartable
    <2> HIDE DEF K
    <2>5. node' \in [Frames -> Node]
      <3>1. \A f \in Frames : [node[f] EXCEPT !.safe = FALSE] \in Node
        BY <1>1, NodeTypes, Zenon
      <3> QED
        BY <1>1, <2>1, <3>1, Zenon
    <2>6. loop' \in [Scopes -> Loop]
      <3>1. PICK r \in Loop : r = [loop[l] EXCEPT !.pc = "check", !.kids = K]
        <4>1. \A o \in Loop : [o EXCEPT !.pc = "check", !.kids = K] \in Loop
          BY <2>4 DEF Loop
        <4> QED
          BY <1>1, <4>1, Zenon
      <3>2. \A k \in K : [Off EXCEPT !.pc = "check", !.at = Innermost(node, k)] \in Loop
        BY <1>2, <1>4, <2>3, Zenon
      <3> QED
        BY <1>1, <2>1, <3>1, <3>2, Zenon
    <2>7. UNCHANGED <<root, main, win, recorded, pending, cutOff, tally>>
      BY <2>1, Zenon
    <2> QED
      BY <1>1, <2>5, <2>6, <2>7 DEF TypeOK, tally
  <1>7. CASE BeginResume(l)
    <2> DEFINE ns == MarkResumed(node, p)
    <2>1. /\ HasPaused(x) /\ loop[l].pc \in {"step", "enter"}
          /\ node' = ns
          /\ loop' = [loop EXCEPT ![l].pc = "resuming",
                             ![p] = [Off EXCEPT !.pc = "check", !.at = Innermost(ns, p)]]
          /\ Put(x, W(l))
          /\ IF loop[l].pc = "step" THEN Take(l) ELSE UNCHANGED pending
          /\ UNCHANGED <<root, main, recorded, cutOff, tally>>
      BY <1>7, Zenon DEF BeginResume, Pending
    <2>2. p \in Paused /\ p \in Frames /\ p \in Scopes /\ Lives(p) /\ base[p] = p
      BY <1>1, <2>1, FramesAre, Zenon DEF HasPaused, Inv, Windows, Bases
    <2>3. ~Saving
      BY <2>1, SavingIsQuiet, FramesAre DEF Saving, Runs, Alive
    <2>4. Innermost(ns, p) \in Scopes
      <3>1. ASSUME NEW f \in Frames PROVE ns[f].call = node[f].call /\ (Live(ns[f]) <=> Lives(f))
        BY <1>1, MarkedResumed DEF Marked, Lives
      <3> HIDE DEF ns, p
      <3> QED
        BY <2>2, <2>3, <3>1, StoppedAt
    <2>5. node' \in [Frames -> Node]
      BY <1>1, <2>1, NodeTypes
    <2> HIDE DEF ns, p, x
    <2>6. loop' \in [Scopes -> Loop]
      <3>1. PICK r \in Loop : r = [Off EXCEPT !.pc = "check", !.at = Innermost(ns, p)]
        BY <1>2, <1>4, <2>4, Zenon
      <3>2. PICK v \in Loop : v = [loop[l] EXCEPT !.pc = "resuming"]
        BY <1>1, <1>3, <1>5
      <3>3. loop' = [loop EXCEPT ![l] = v, ![p] = r]
        BY <1>1, <2>1, <3>1, <3>2
      <3> QED
        BY <1>1, <3>3
    <2>7. win' \in [Scopes -> Window] /\ pending' \in BOOLEAN
      BY <1>1, <2>1, WindowTypes, LoopTypes, Zenon DEF TypeOK
    <2>8. UNCHANGED <<root, main, recorded, cutOff, tally>>
      BY <2>1, Zenon
    <2> QED
      BY <1>1, <2>5, <2>6, <2>7, <2>8 DEF TypeOK, tally
  <1>8. CASE ResumePaused(l)
    <2>1. /\ node' = MarkPaused(node, p)
          /\ loop' = [loop EXCEPT ![l].pc = "check", ![p] = Off]
          /\ UNCHANGED <<root, main, win, recorded, pending, cutOff, tally>>
      BY <1>8, Zenon DEF ResumePaused
    <2> HIDE DEF p, x
    <2>2. node' \in [Frames -> Node]
      BY <1>1, <2>1, NodeTypes
    <2>3. loop' \in [Scopes -> Loop]
      <3>2. PICK v \in Loop : v = [loop[l] EXCEPT !.pc = "check"]
        BY <1>1, <1>3, <1>5
      <3>3. loop' = [loop EXCEPT ![l] = v, ![p] = Off]
        BY <1>1, <2>1, <3>2
      <3> QED
        BY <1>1, <1>4, <3>3
    <2>4. UNCHANGED <<root, main, win, recorded, pending, cutOff, tally>>
      BY <2>1, Zenon
    <2> QED
      BY <1>1, <2>2, <2>3, <2>4 DEF TypeOK, tally
  <1>9. CASE ResumeReturned(l)
    <2>1. /\ \/ node' = [node EXCEPT ![p].status = "done"] /\ Put(p, NoWindow)
             \/ \E D : node' = Without(node, D) /\ win' = Closed(win, D)
          /\ loop' = [loop EXCEPT ![l].pc = "resumed", ![p] = Off]
          /\ UNCHANGED <<root, main, recorded, pending, cutOff, tally>>
      BY <1>9, Zenon DEF ResumeReturned
    <2> HIDE DEF p, x
    <2>2. node' \in [Frames -> Node] /\ win' \in [Scopes -> Window]
      <3>1. CASE node' = [node EXCEPT ![p].status = "done"] /\ Put(p, NoWindow)
        <4>1. win' \in [Scopes -> Window]
          BY <1>1, <3>1, WindowTypes, Zenon
        <4>2. CASE p \in Frames
          <5>1. PICK n \in Node : n = [node[p] EXCEPT !.status = "done"]
            BY <1>1, <1>5, <4>2, NodeTypes
          <5>2. node' = [node EXCEPT ![p] = n]
            BY <1>1, <3>1, <4>2, <5>1
          <5> QED
            BY <1>1, <4>1, <5>2
        <4>3. CASE p \notin Frames
          BY <1>1, <3>1, <4>1, <4>3
        <4> QED
          BY <4>2, <4>3
      <3>2. CASE \E D : node' = Without(node, D) /\ win' = Closed(win, D)
        <4>1. PICK D : node' = Without(node, D) /\ win' = Closed(win, D)
          BY <3>2
        <4>2. Without(node, D) \in [Frames -> Node]
          BY <1>1, NodeTypes
        <4>3. Closed(win, D) \in [Scopes -> Window]
          BY <1>1, WindowTypes, Zenon
        <4> QED
          BY <4>1, <4>2, <4>3
      <3> QED
        BY <2>1, <3>1, <3>2
    <2>3. loop' \in [Scopes -> Loop]
      <3>2. PICK v \in Loop : v = [loop[l] EXCEPT !.pc = "resumed"]
        BY <1>1, <1>3, <1>5
      <3>3. loop' = [loop EXCEPT ![l] = v, ![p] = Off]
        BY <1>1, <2>1, <3>2
      <3> QED
        BY <1>1, <1>4, <3>3
    <2>4. UNCHANGED <<root, main, recorded, pending, cutOff, tally>>
      BY <2>1, Zenon
    <2> QED
      BY <1>1, <2>2, <2>3, <2>4 DEF TypeOK, tally
  <1> QED
    BY <1>6, <1>7, <1>8, <1>9

LEMMA JoinTypes ==
    ASSUME TypeOK, NEW l \in Scopes, StopNested(l) \/ JoinNext(l) \/ StopInFunction
    PROVE  TypeOK'
  <1>1. /\ loop \in [Scopes -> Loop] /\ loop[l] \in Loop /\ Off \in Loop /\ Main \in Scopes
        /\ loop[Main] \in Loop
    BY LoopTypes, FramesAre, Zenon
  <1>2. CASE StopNested(l)
    <2>1. /\ loop' = [k \in Scopes |->
               IF k = l THEN [loop[l] EXCEPT !.kids = {},
                                !.pc = IF node[l].kind = "previous" THEN "paused" ELSE "ended"]
               ELSE IF k \in loop[l].kids THEN Off ELSE loop[k]]
          /\ UNCHANGED <<root, main, node, win, recorded, pending, cutOff, tally>>
      BY <1>2, Zenon DEF StopNested
    <2>2. PICK pc \in Pcs : pc = IF node[l].kind = "previous" THEN "paused" ELSE "ended"
      BY DEF Pcs
    <2>3. PICK r \in Loop : r = [loop[l] EXCEPT !.kids = {}, !.pc = pc]
      <3>1. \A o \in Loop : [o EXCEPT !.kids = {}, !.pc = pc] \in Loop
        BY DEF Loop, Pcs
      <3> QED
        BY <1>1, <3>1, Zenon
    <2>4. loop' = [k \in Scopes |-> IF k = l THEN r ELSE IF k \in loop[l].kids THEN Off ELSE loop[k]]
      BY <2>1, <2>2, <2>3
    <2>5. loop' \in [Scopes -> Loop]
      BY <1>1, <2>4
    <2> QED
      BY <2>1, <2>5 DEF TypeOK, tally
  <1>3. CASE JoinNext(l)
    <2>1. /\ \E k \in loop[l].kids :
               loop' = [loop EXCEPT ![l].pc = "check", ![l].kids = @ \ {k}, ![k] = Off]
          /\ UNCHANGED <<root, main, node, win, recorded, pending, cutOff, tally>>
      BY <1>3, Zenon DEF JoinNext
    <2>2. PICK k : loop' = [loop EXCEPT ![l].pc = "check", ![l].kids = @ \ {k}, ![k] = Off]
      BY <2>1
    <2>3. PICK r \in Loop : r = [loop[l] EXCEPT !.pc = "check", !.kids = @ \ {k}]
      <3>1. \A o \in Loop : [o EXCEPT !.pc = "check", !.kids = @ \ {k}] \in Loop
        BY DEF Loop
      <3> QED
        BY <1>1, <3>1, Zenon
    <2>4. loop' = [loop EXCEPT ![l] = r, ![k] = Off]
      BY <1>1, <2>2, <2>3
    <2>5. loop' \in [Scopes -> Loop]
      BY <1>1, <2>4
    <2> QED
      BY <2>1, <2>5 DEF TypeOK, tally
  <1>4. CASE StopInFunction
    <2>1. /\ JoinedKids(Main, "check", Main)
          /\ UNCHANGED <<root, main, node, win, recorded, pending, cutOff, tally>>
      BY <1>4, Zenon DEF StopInFunction
    <2>2. PICK r \in Loop : r = [loop[Main] EXCEPT !.kids = {}, !.pc = "check", !.at = Main]
      <3>1. \A o \in Loop : [o EXCEPT !.kids = {}, !.pc = "check", !.at = Main] \in Loop
        BY <1>1 DEF Loop
      <3> QED
        BY <1>1, <3>1, Zenon
    <2>3. loop' = [k \in Scopes |-> IF k = Main THEN r ELSE IF k \in loop[Main].kids THEN Off ELSE loop[k]]
      BY <2>1, <2>2 DEF JoinedKids
    <2>4. loop' \in [Scopes -> Loop]
      BY <1>1, <2>3
    <2> QED
      BY <2>1, <2>4 DEF TypeOK, tally
  <1> QED
    BY <1>2, <1>3, <1>4

LEMMA TopTypes ==
    ASSUME NEW base \in [Scopes -> Scopes], NEW top \in [Scopes -> Scopes], Inv(base, top),
           PauseMain \/ PauseSaved \/ EndTurn \/ CleanUp \/ StartTurn \/ Say \/ Crash
    PROVE  TypeOK'
  <1>1. /\ TypeOK /\ node \in [Frames -> Node] /\ win \in [Scopes -> Window]
        /\ loop \in [Scopes -> Loop] /\ Main \in Scopes /\ loop[Main] \in Loop /\ Off \in Loop
        /\ loop[Main].at \in Scopes
    <2>1. TypeOK /\ Main \in Scopes
      BY FramesAre DEF Inv
    <2>2. Off \in Loop /\ loop \in [Scopes -> Loop]
      BY <2>1, LoopTypes, Zenon
    <2>3. loop[Main].at \in Scopes
      BY <2>1, WindowTypes, Zenon
    <2> QED
      BY <2>1, <2>2, <2>3 DEF TypeOK
  <1>2. {"save", "step", "off", "cleanup", "check", "crashed"} \subseteq Pcs
    BY DEF Pcs
  <1>3. CASE PauseMain
    <2> DEFINE p == First(Unused(Paused))
               w == Recover(win[Main])
    <2>1. /\ loop[Main].pc = "join" /\ node' = PausedNodes(p, w)
          /\ win' = [win EXCEPT ![Main] = w, ![p] = w]
          /\ JoinedKids(Main, "save", Main) /\ main' = "running"
          /\ UNCHANGED <<root, recorded, pending, cutOff, tally>>
      BY <1>3, Zenon DEF PauseMain, Stopped
    <2>2. p \in Paused /\ p \in Scopes /\ ~Used(p) /\ w \in Window /\ (w.prog = "call" <=> w.call # None)
      BY <2>1, FrameIsLeft
    <2> HIDE DEF p, w
    <2>3. node' \in [Frames -> Node]
      <3>1. PICK ns \in [Frames -> Node] : PausedNodes(p, w) = MarkPaused(ns, p)
        BY <1>1, <2>2, MovedNodes DEF Inv
      <3>2. MarkPaused(ns, p) \in [Frames -> Node]
        BY NodeTypes
      <3> QED
        BY <2>1, <3>1, <3>2
    <2>4. win' \in [Scopes -> Window]
      BY <1>1, <2>1, <2>2
    <2>5. loop' \in [Scopes -> Loop]
      <3>1. PICK r \in Loop : r = [loop[Main] EXCEPT !.kids = {}, !.pc = "save", !.at = Main]
        <4>1. \A o \in Loop : [o EXCEPT !.kids = {}, !.pc = "save", !.at = Main] \in Loop
          BY <1>1 DEF Loop
        <4> QED
          BY <1>1, <4>1, Zenon
      <3>2. loop' = [k \in Scopes |-> IF k = Main THEN r ELSE IF k \in loop[Main].kids THEN Off ELSE loop[k]]
        BY <2>1, <3>1 DEF JoinedKids
      <3> QED
        BY <1>1, <3>2
    <2>6. UNCHANGED <<root, recorded, pending, cutOff, tally>> /\ main' = "running"
      BY <2>1, Zenon
    <2> QED
      BY <1>1, <2>3, <2>4, <2>5, <2>6 DEF TypeOK, tally
  <1>4. CASE PauseSaved
    <2> DEFINE taken == Paused \ Unused(Paused)
               p == CHOOSE f \in taken : \A g \in taken : g <= f
    <2>1. /\ Put(Main, [Fresh EXCEPT !.resumable = p]) /\ Go(Main, "step")
          /\ UNCHANGED <<root, main, node, recorded, pending, cutOff, tally>>
          /\ loop[Main].pc = "save"
      BY <1>4, Zenon DEF PauseSaved
    <2>2. p \in Frames
      <3>1. \E q \in Paused : Used(q)
        BY <2>1 DEF Inv, Hearing
      <3>2. taken # {} /\ taken \subseteq Frames
        BY <3>1, FramesAre DEF Unused, Used
      <3> HIDE DEF taken
      <3>3. \E f \in taken : \A g \in taken : g <= f
        BY <3>2, LastExists
      <3> QED
        BY <3>2, <3>3
    <2> HIDE DEF p
    <2>3. win' \in [Scopes -> Window]
      <3>1. Fresh \in Window
        BY <1>1, WindowTypes, Zenon
      <3>2. [Fresh EXCEPT !.resumable = p] \in Window
        BY <1>1, <2>2, <3>1, WindowTypes, Zenon
      <3> QED
        BY <1>1, <2>1, <3>2, WindowTypes, Zenon
    <2>4. loop' \in [Scopes -> Loop]
      BY <1>1, <1>2, <2>1, LoopTypes, Zenon
    <2>5. UNCHANGED <<root, main, node, recorded, pending, cutOff, tally>>
      BY <2>1, Zenon
    <2> QED
      BY <1>1, <2>3, <2>4, <2>5 DEF TypeOK, tally
  <1>5. CASE EndTurn
    <2> DEFINE D == Discarded(node, Unresumed)
    <2>1. /\ node' = Without(node, D)
          /\ win' = [Closed(win, D) EXCEPT ![loop[Main].at].resumable = None]
          /\ Go(Main, IF loop[Main].pc = "answered" THEN "off" ELSE "cleanup")
          /\ UNCHANGED <<root, main, recorded, pending, cutOff, tally>>
      BY <1>5, Zenon DEF EndTurn
    <2>2. node' \in [Frames -> Node]
      BY <1>1, <2>1, NodeTypes
    <2>3. win' \in [Scopes -> Window]
      <3>1. PICK ws \in [Scopes -> Window] : ws = Closed(win, D)
        BY <1>1, WindowTypes, Zenon
      <3>2. PICK w \in Window : w = [ws[loop[Main].at] EXCEPT !.resumable = None]
        BY <1>1, WindowTypes, Zenon
      <3>3. win' = [ws EXCEPT ![loop[Main].at] = w]
        BY <1>1, <2>1, <3>1, <3>2
      <3> QED
        BY <1>1, <3>3
    <2>4. loop' \in [Scopes -> Loop]
      <3>1. PICK pc \in Pcs : Go(Main, pc)
        BY <1>2, <2>1
      <3> QED
        BY <1>1, <3>1, LoopTypes, Zenon
    <2>5. UNCHANGED <<root, main, recorded, pending, cutOff, tally>>
      BY <2>1, Zenon
    <2> QED
      BY <1>1, <2>2, <2>3, <2>4, <2>5 DEF TypeOK, tally
  <1>6. CASE CleanUp
    <2> DEFINE x == loop[Main].at
               w == Recover(win[x])
    <2>1. /\ IF win[x].inflight = {} THEN UNCHANGED <<node, win>>
             ELSE /\ node' = Interrupted(node, w.inflight)
                  /\ Put(x, [w EXCEPT !.inflight = {}])
          /\ Go(Main, "off")
          /\ UNCHANGED <<root, main, recorded, pending, cutOff, tally>>
      BY <1>6, Zenon DEF CleanUp
    <2>2. w \in Window
      BY <1>1, WindowTypes, Zenon DEF W
    <2> HIDE DEF w, x
    <2>3. node' \in [Frames -> Node]
      BY <1>1, <2>1, NodeTypes
    <2>4. win' \in [Scopes -> Window]
      <3>1. [w EXCEPT !.inflight = {}] \in Window
        BY <1>1, <2>2, WindowTypes, Zenon
      <3> QED
        BY <1>1, <2>1, <3>1, WindowTypes, Zenon
    <2>5. loop' \in [Scopes -> Loop]
      BY <1>1, <1>2, <2>1, LoopTypes, Zenon
    <2>6. UNCHANGED <<root, main, recorded, pending, cutOff, tally>>
      BY <2>1, Zenon
    <2> QED
      BY <1>1, <2>3, <2>4, <2>5, <2>6 DEF TypeOK, tally
  <1>7. CASE StartTurn
    <2>1. turn < MaxTurns /\ turn' = turn + 1
          /\ UNCHANGED <<node, recorded, called, programs, pending, sent, crashes, cutOff, torn>>
      BY <1>7, Zenon DEF StartTurn
    <2>2. turn' \in 0 .. MaxTurns
      BY <1>1, <2>1, BoundsAssumption DEF TypeOK
    <2>3. \/ /\ root' = "suspended" /\ main' = "running" /\ Put(Main, Fresh)
             /\ loop' = [loop EXCEPT ![Main] = [Off EXCEPT !.pc = "check"]]
          \/ \E x \in InView :
                /\ loop' = [loop EXCEPT ![Main] = [Off EXCEPT !.pc = "check", !.at = x]]
                /\ UNCHANGED <<root, main, win>>
      BY <1>7, Zenon DEF StartTurn
    <2>4. CASE /\ root' = "suspended" /\ main' = "running" /\ Put(Main, Fresh)
               /\ loop' = [loop EXCEPT ![Main] = [Off EXCEPT !.pc = "check"]]
      <3>1. win' \in [Scopes -> Window]
        BY <1>1, <2>4, WindowTypes, Zenon
      <3>2. PICK r \in Loop : r = [Off EXCEPT !.pc = "check"]
        BY <1>1, <1>2, LoopTypes, Zenon
      <3>3. loop' \in [Scopes -> Loop]
        BY <1>1, <2>4, <3>2
      <3> QED
        BY <1>1, <2>1, <2>2, <2>4, <3>1, <3>3 DEF TypeOK
    <2>5. CASE \E x \in InView :
                /\ loop' = [loop EXCEPT ![Main] = [Off EXCEPT !.pc = "check", !.at = x]]
                /\ UNCHANGED <<root, main, win>>
      <3>1. PICK x \in InView : loop' = [loop EXCEPT ![Main] = [Off EXCEPT !.pc = "check", !.at = x]]
        BY <2>5, Zenon
      <3>2. x \in Scopes
        BY FramesAre DEF InView
      <3>3. PICK r \in Loop : r = [Off EXCEPT !.pc = "check", !.at = x]
        <4>1. \A o \in Loop : [o EXCEPT !.pc = "check", !.at = x] \in Loop
          BY <3>2 DEF Loop
        <4> QED
          BY <1>1, <4>1, Zenon
      <3>4. loop' \in [Scopes -> Loop]
        BY <1>1, <3>1, <3>3
      <3>5. UNCHANGED <<root, main, win>>
        BY <2>5
      <3> QED
        BY <1>1, <2>1, <2>2, <3>4, <3>5 DEF TypeOK
    <2> QED
      BY <2>3, <2>4, <2>5, Zenon
  <1>8. CASE Say
    BY <1>1, <1>8, BoundsAssumption DEF Say, TypeOK
  <1>9. CASE Crash
    <2>1. /\ crashes < MaxCrashes /\ crashes' = crashes + 1
          /\ torn' = (torn \/ loop[Main].pc = "save") /\ Cut(Scopes)
          /\ loop' = [l \in Scopes |-> IF l = Main THEN [Off EXCEPT !.pc = "crashed"] ELSE Off]
          /\ UNCHANGED <<root, main, node, win, recorded, called, programs, pending, sent, turn>>
      BY <1>9, Zenon DEF Crash
    <2>2. cutOff' \subseteq Frames
      BY <1>1, <2>1, LoopTypes, Zenon
    <2>3. loop' \in [Scopes -> Loop]
      <3>1. PICK r \in Loop : r = [Off EXCEPT !.pc = "crashed"]
        BY <1>1, <1>2, LoopTypes, Zenon
      <3> QED
        BY <1>1, <2>1, <3>1
    <2>4. crashes' \in 0 .. MaxCrashes /\ torn' \in BOOLEAN
      BY <1>1, <2>1, BoundsAssumption DEF TypeOK
    <2>5. UNCHANGED <<root, main, node, win, recorded, called, programs, pending, sent, turn>>
      BY <2>1, Zenon
    <2> QED
      BY <1>1, <2>2, <2>3, <2>4, <2>5 DEF TypeOK
  <1> QED
    BY <1>3, <1>4, <1>5, <1>6, <1>7, <1>8, <1>9

-----------------------------------------------------------------------------
(* The invariant is inductive.                                             *)

LEMMA StepTypes ==
    ASSUME NEW base \in [Scopes -> Scopes], NEW top \in [Scopes -> Scopes], Inv(base, top), Next
    PROVE  TypeOK'
  <1>1. TypeOK
    BY DEF Inv
  <1>2. ASSUME NEW l \in Scopes, LoopStep(l) PROVE TypeOK'
    <2>1. CASE \/ Check(l) \/ WriteProgram(l) \/ Rewrite(l) \/ ProgramCalls(l) \/ ProgramSpawns(l)
               \/ ProgramWaits(l) \/ ProgramResumes(l) \/ ResumeRecorded(l) \/ InterruptUnfinished(l)
      BY <1>1, <2>1, WindowStepTypes
    <2>2. CASE AIReplies(l) \/ ProgramReturns(l) \/ ProgramThrows(l)
      BY <2>2, ReplyTypes
    <2>3. CASE Enter(l) \/ Spawn(l)
      BY <2>3, OpenTypes
    <2>4. CASE Fail(l)
      BY <2>4, FailTypes
    <2>5. CASE RunPausedCalls(l) \/ BeginResume(l) \/ ResumePaused(l) \/ ResumeReturned(l)
      BY <2>5, ResumeTypes
    <2>6. CASE StopNested(l) \/ JoinNext(l)
      BY <1>1, <2>6, JoinTypes
    <2> QED
      BY <1>2, <2>1, <2>2, <2>3, <2>4, <2>5, <2>6, Zenon DEF LoopStep
  <1>3. CASE StopInFunction
    <2>1. Main \in Scopes
      BY FramesAre
    <2> QED
      BY <1>1, <1>3, <2>1, JoinTypes
  <1>4. CASE PauseMain \/ PauseSaved \/ EndTurn \/ CleanUp \/ StartTurn \/ Say \/ Crash
    BY <1>4, TopTypes
  <1> QED
    BY <1>2, <1>3, <1>4, Zenon DEF Next, TopStep

LEMMA StepKeeps ==
    ASSUME NEW base \in [Scopes -> Scopes], NEW top \in [Scopes -> Scopes], Inv(base, top), Next,
           ~torn'
    PROVE  \E b, t \in [Scopes -> Scopes] : Inv(b, t)'
  <1>1. TypeOK'
    BY StepTypes
  <1>2. Inv(base, top)' => \E b, t \in [Scopes -> Scopes] : Inv(b, t)'
    <2> DEFINE P(b, t) == Inv(b, t)'
    <2>1. P(base, top) => \E b, t \in [Scopes -> Scopes] : P(b, t)
      <3> HIDE DEF P
      <3> QED
        OBVIOUS
    <2> QED
      BY <2>1, Zenon
  <1>3. ASSUME NEW l \in Scopes, LoopStep(l) PROVE \E b, t \in [Scopes -> Scopes] : Inv(b, t)'
    <2>1. CASE \/ WriteProgram(l) \/ Rewrite(l) \/ ProgramCalls(l) \/ ProgramSpawns(l)
               \/ ProgramWaits(l) \/ ProgramResumes(l) \/ ResumeRecorded(l)
               \/ Enter(l) /\ ~ (Running(loop[l].at) /\ Unused(Temps) # {})
      BY <1>1, <1>2, <2>1, EditsAre, Zenon
    <2>2. CASE (Enter(l) /\ Running(loop[l].at) /\ Unused(Temps) # {}) \/ Spawn(l)
      BY <1>1, <2>2, OpensAre, Zenon
    <2>3. CASE Check(l) \/ StopNested(l) \/ JoinNext(l)
      BY <1>1, <1>2, <2>3, JoinsAre, Zenon
    <2>4. CASE AIReplies(l) \/ ProgramReturns(l) \/ ProgramThrows(l)
      <3>1. CASE IsFunction(loop[l].at) /\ node[loop[l].at].kind = "serial"
        BY <1>1, <1>2, <2>4, <3>1, ReturningKeeps, Zenon
      <3>2. CASE ~ (IsFunction(loop[l].at) /\ node[loop[l].at].kind = "serial")
        BY <1>1, <1>2, <2>4, <3>2, RepliesKeep, Zenon
      <3> QED
        BY <3>1, <3>2
    <2>5. CASE Fail(l)
      BY <1>1, <1>2, <2>5, FailKeeps, FailedCallKeeps, Zenon
    <2>6. CASE RunPausedCalls(l)
      BY <1>1, <1>2, <2>6, RestartedKeeps, Zenon
    <2>7. CASE InterruptUnfinished(l)
      BY <1>1, <1>2, <2>7, GivingUpKeeps, Zenon
    <2>8. CASE BeginResume(l)
      BY <1>1, <1>2, <2>8, ResumedKeeps, Zenon
    <2>9. CASE ResumePaused(l)
      BY <1>1, <1>2, <2>9, PausedAgainKeeps, Zenon
    <2>10. CASE ResumeReturned(l)
      BY <1>1, <1>2, <2>10, ReturnedKeeps, Zenon
    <2> QED
      BY <1>3, <2>1, <2>2, <2>3, <2>4, <2>5, <2>6, <2>7, <2>8, <2>9, <2>10, Zenon DEF LoopStep
  <1>4. CASE StopInFunction
    <2>1. Main \in Scopes
      BY FramesAre
    <2> QED
      BY <1>1, <1>2, <1>4, <2>1, JoinsAre, Zenon
  <1>5. CASE PauseMain
    BY <1>1, <1>5, PausesAre, Zenon
  <1>6. CASE PauseSaved
    BY <1>1, <1>2, <1>6, SaveKeeps, Zenon
  <1>7. CASE EndTurn
    BY <1>1, <1>2, <1>7, EndTurnKeeps, Zenon
  <1>8. CASE CleanUp
    BY <1>1, <1>2, <1>8, CleanUpKeeps, Zenon
  <1>9. CASE StartTurn
    BY <1>1, <1>2, <1>9, StartsAre, Zenon
  <1>10. CASE Say
    BY <1>1, <1>2, <1>10, SayKeeps, Zenon
  <1>11. CASE Crash
    BY <1>1, <1>2, <1>11, CrashKeeps, Zenon
  <1> QED
    BY <1>3, <1>4, <1>5, <1>6, <1>7, <1>8, <1>9, <1>10, <1>11, Zenon DEF Next, TopStep

LEMMA TornStays ==
    ASSUME torn, Next
    PROVE  torn'
  <1>1. tally' = tally => torn'
    BY DEF tally
  <1>2. ASSUME NEW l \in Scopes, LoopStep(l) PROVE torn'
    <2>1. CASE Check(l) \/ StopNested(l) \/ Rewrite(l) \/ ProgramWaits(l) \/ ResumeRecorded(l)
      BY <1>1, <2>1, Zenon DEF Check, StopNested, Rewrite, ProgramWaits, ResumeRecorded
    <2>2. CASE AIReplies(l) \/ ProgramReturns(l) \/ ProgramThrows(l) \/ Fail(l)
      BY <1>1, <2>2, Zenon DEF AIReplies, ProgramReturns, ProgramThrows, Fail
    <2>3. CASE WriteProgram(l)
      BY <2>3, Zenon DEF WriteProgram
    <2>4. CASE ProgramCalls(l)
      BY <2>4, Zenon DEF ProgramCalls
    <2>5. CASE ProgramSpawns(l)
      BY <2>5, Zenon DEF ProgramSpawns
    <2>6. CASE ProgramResumes(l)
      BY <2>6, Zenon DEF ProgramResumes
    <2>7. CASE Enter(l)
      BY <1>1, <2>7, Zenon DEF Enter
    <2>8. CASE Spawn(l)
      BY <1>1, <2>8, Zenon DEF Spawn
    <2>9. CASE JoinNext(l)
      BY <1>1, <2>9, Zenon DEF JoinNext
    <2>10. CASE RunPausedCalls(l)
      BY <1>1, <2>10, Zenon DEF RunPausedCalls
    <2>11. CASE InterruptUnfinished(l)
      BY <1>1, <2>11, Zenon DEF InterruptUnfinished
    <2>12. CASE BeginResume(l)
      BY <1>1, <2>12, Zenon DEF BeginResume
    <2>13. CASE ResumePaused(l)
      BY <1>1, <2>13, Zenon DEF ResumePaused
    <2>14. CASE ResumeReturned(l)
      BY <1>1, <2>14, Zenon DEF ResumeReturned
    <2> QED
      BY <1>2, <2>1, <2>2, <2>3, <2>4, <2>5, <2>6, <2>7, <2>8, <2>9, <2>10, <2>11, <2>12, <2>13,
         <2>14, Zenon DEF LoopStep
  <1>3. CASE StopInFunction
    BY <1>1, <1>3, Zenon DEF StopInFunction
  <1>4. CASE PauseMain
    BY <1>1, <1>4, Zenon DEF PauseMain
  <1>5. CASE PauseSaved
    BY <1>1, <1>5, Zenon DEF PauseSaved
  <1>6. CASE EndTurn
    BY <1>1, <1>6, Zenon DEF EndTurn
  <1>7. CASE CleanUp
    BY <1>1, <1>7, Zenon DEF CleanUp
  <1>8. CASE StartTurn
    BY <1>8, Zenon DEF StartTurn
  <1>9. CASE Say
    BY <1>9, Zenon DEF Say
  <1>10. CASE Crash
    BY <1>10, Zenon DEF Crash
  <1> QED
    BY <1>2, <1>3, <1>4, <1>5, <1>6, <1>7, <1>8, <1>9, <1>10, Zenon DEF Next, TopStep

LEMMA InitIs ==
    ASSUME Init
    PROVE  \E base, top \in [Scopes -> Scopes] : Inv(base, top)
  <1> DEFINE same == [x \in Scopes |-> x]
  <1>1. same \in [Scopes -> Scopes] /\ \A x \in Scopes : same[x] = x
    OBVIOUS
  <1>2. /\ root = "running" /\ main = "free" /\ recorded = {} /\ called = 0 /\ programs = 0
        /\ node = [f \in Frames |-> NoNode] /\ win = [x \in Scopes |-> NoWindow]
        /\ loop = [l \in Scopes |-> Off] /\ pending = FALSE /\ sent = 0 /\ turn = 0 /\ crashes = 0
        /\ cutOff = {} /\ torn = FALSE
    BY DEF Init
  <1>3. /\ NoNode.status = "free" /\ NoNode.call = None /\ NoNode \in Node
        /\ NoWindow.there = FALSE /\ NoWindow.prog = "none" /\ NoWindow.call = None
        /\ NoWindow.inflight = {} /\ NoWindow.resumable = None /\ NoWindow \in Window
        /\ Off.pc = "off" /\ Off.at = Main /\ Off.kids = {} /\ Off \in Loop
    BY FramesAre DEF NoNode, Node, Statuses, NoWindow, Fresh, Window, Off, Loop
  <1>4. /\ \A f \in Frames : node[f] = NoNode
        /\ \A x \in Scopes : win[x] = NoWindow
        /\ \A l \in Scopes : loop[l] = Off
        /\ Main \in Scopes /\ Frames \subseteq Scopes
    BY <1>2, FramesAre
  <1> HIDE DEF same
  <1>5. TypeOK
    <2>1. /\ node \in [Frames -> Node] /\ win \in [Scopes -> Window] /\ loop \in [Scopes -> Loop]
      BY <1>2, <1>3
    <2>2. /\ called \in 0 .. MaxCalls /\ programs \in 0 .. MaxPrograms /\ sent \in 0 .. MaxMessages
          /\ turn \in 0 .. MaxTurns /\ crashes \in 0 .. MaxCrashes
      BY <1>2, BoundsAssumption
    <2>3. /\ root \in {"running", "suspended"} /\ main \in {"free", "running", "suspended", "done"}
          /\ recorded \subseteq Calls /\ cutOff \subseteq Frames
          /\ pending \in BOOLEAN /\ torn \in BOOLEAN
      BY <1>2
    <2> QED
      BY <2>1, <2>2, <2>3 DEF TypeOK
  <1>6. /\ \A f \in Frames : ~Used(f) /\ ~Lives(f) /\ node[f].status = "free"
        /\ Up = {} /\ Serving = {}
    <2>1. \A f \in Frames : ~Used(f) /\ ~Lives(f) /\ node[f].status = "free"
      BY <1>3, <1>4 DEF Used, Lives, Live
    <2> QED
      BY <2>1, FramesAre DEF Up, Serving
  <1>7. \A l \in Scopes : loop[l].pc = "off" /\ loop[l].kids = {} /\ loop[l].at = Main /\ ~Runs(l)
    BY <1>3, <1>4 DEF Runs, Alive
  <1>8. /\ \A x \in Scopes : Pends(win[x]) = {} /\ win[x].call = None /\ win[x].inflight = {}
                             /\ ~win[x].there /\ win[x].prog = "none" /\ win[x].resumable = None
    BY <1>3, <1>4 DEF Pends
  <1>9. /\ Temps \subseteq Frames /\ Paused \subseteq Frames /\ Paused \subseteq Scopes /\ Temps \subseteq Scopes
        /\ Tops \subseteq Scopes
    BY FramesAre DEF Tops
  <1>10. Tree
    BY <1>4, <1>6, <1>9 DEF Tree
  <1>11. Numbered
    <2>1. \A q \in Paused : ~ (q <= MaxFrames + 0)
      BY FramesAre, ScopesAre
    <2>2. \A q \in Paused : Used(q) <=> q <= MaxFrames + 0
      BY <1>6, <1>9, <2>1
    <2> QED
      BY <1>2, <2>2 DEF Numbered
  <1>12. Windows
    BY <1>2, <1>4, <1>6, <1>7, <1>8, <1>9 DEF Windows, None
  <1>13. CallsAreOne
    <2>1. \A f \in Frames : node[f].call = None
      BY <1>3, <1>4
    <2> QED
      BY <1>2, <1>6, <1>7, <1>8, <2>1 DEF CallsAreOne, CallOnce, None
  <1>14. Owners /\ Apart /\ Waits /\ Deads
    BY <1>6, <1>8, <1>9, <1>4 DEF Owners, Apart, Waits, Deads
  <1>15. Bases(same)
    BY <1>1, <1>4, <1>6, <1>7, <1>9 DEF Bases
  <1>16. Loops(same)
    BY <1>4, <1>6, <1>7, <1>9 DEF Loops
  <1>17. Leaves /\ Answers
    BY <1>7, <1>9 DEF Leaves, Answers
  <1>18. Stacks(same)
    BY <1>2, <1>6 DEF Stacks
  <1>19. Places(same, same)
    BY <1>1, <1>4, <1>6, <1>7, <1>9 DEF Places
  <1>20. Hearing
    BY <1>4, <1>7, <1>9 DEF Hearing
  <1>21. Inv(same, same)
    BY <1>2, <1>5, <1>10, <1>11, <1>12, <1>13, <1>14, <1>15, <1>16, <1>17, <1>18, <1>19, <1>20 DEF Inv
  <1> QED
    BY <1>1, <1>21, Zenon

\* Until the process dies between the two writes of a pause, the tree of frames, the
\* saved windows and the loops fit together: the stacks' frames have one owner each, a
\* loop runs at the end of its stack, and no two programs wait for one call.
THEOREM FramesInvariant == Spec => []IInv
  <1>1. Init => IInv
    BY InitIs DEF IInv
  <1>2. IInv /\ [Next]_vars => IInv'
    <2>1. SUFFICES ASSUME IInv, [Next]_vars PROVE IInv'
      OBVIOUS
    <2>2. CASE torn /\ Next
      BY <2>2, TornStays DEF IInv
    <2>3. CASE ~torn /\ Next
      <3>1. SUFFICES ASSUME ~torn' PROVE \E b, t \in [Scopes -> Scopes] : Inv(b, t)'
        BY DEF IInv
      <3>2. PICK base, top \in [Scopes -> Scopes] : Inv(base, top)
        BY <2>1, <2>3 DEF IInv
      <3> QED
        BY <2>3, <3>1, <3>2, StepKeeps, Zenon
    <2>4. CASE UNCHANGED vars
      <3>1. CASE torn
        BY <2>4, <3>1 DEF IInv, vars
      <3>2. CASE ~torn
        <4>1. PICK base, top \in [Scopes -> Scopes] : Inv(base, top)
          BY <2>1, <3>2 DEF IInv
        <4>2. Inv(base, top)'
          BY <2>4, <4>1 DEF vars, Inv, TypeOK, Tree, Numbered, Windows, CallsAreOne, CallOnce,
             Owners, Apart, Waits, Deads, Bases, Loops, Leaves, Answers, Stacks, Places, Hearing,
             Used, Up, Lives, Runs, Serving, Saving, Running, Pausing, InProgram
        <4> QED
          BY <4>2, Zenon DEF IInv
      <3> QED
        BY <3>1, <3>2
    <2> QED
      BY <2>1, <2>2, <2>3, <2>4
  <1> QED
    BY <1>1, <1>2, PTL DEF Spec

LEMMA InvMeans ==
    ASSUME NEW base \in [Scopes -> Scopes], NEW top \in [Scopes -> Scopes], Inv(base, top)
    PROVE  TypeOK /\ CallerWaits /\ CallOnce /\ LoopsOwnFrames
  <1>1. TypeOK /\ CallOnce
    BY DEF Inv, CallsAreOne
  <1>2. ASSUME NEW f \in Frames, node[f].kind = "serial", Live(node[f])
        PROVE  /\ win[node[f].caller].there /\ win[node[f].caller].prog = "call"
               /\ win[node[f].caller].call = node[f].call
    <2>1. Used(f) /\ f \notin Paused
      BY <1>2 DEF Inv, Tree, Used, Live
    <2>2. f \in Serving
      BY <1>2, <2>1, FramesAre DEF Serving, Up, Lives
    <2>3. f \in Up
      BY <2>2 DEF Serving
    <2>4. node[f].caller \in Scopes /\ node[f].call # None
      BY <2>3, UpwardsIs
    <2>5. win[node[f].caller].there /\ win[node[f].caller].call = node[f].call
      BY <2>2 DEF Inv, Waits
    <2>6. win[node[f].caller].prog = "call"
      BY <2>4, <2>5 DEF Inv, Windows
    <2> QED
      BY <2>5, <2>6
  <1>3. ASSUME NEW l \in Executing, NEW m \in Executing, l # m PROVE loop[l].at # loop[m].at
    BY <1>3, AtIs DEF Executing, Runs
  <1>4. ASSUME NEW l \in Executing, loop[l].pc \notin {"check", "join"} PROVE Running(loop[l].at)
    BY <1>4, RunningAt DEF Executing, Runs
  <1> QED
    BY <1>1, <1>2, <1>3, <1>4 DEF CallerWaits, LoopsOwnFrames

\* A serial call's caller waits for just this call, wherever pauses and resumes have moved
\* the caller (finish never meets "waiting task frame missing").
THEOREM CallersWait == Spec => [](torn \/ CallerWaits)
  <1>1. IInv => torn \/ CallerWaits
    BY InvMeans DEF IInv
  <1> QED
    BY <1>1, FramesInvariant, PTL

\* A call opens one frame, whatever pauses, restarts and crashes come in between.
THEOREM CallsOpenOneFrame == Spec => [](torn \/ CallOnce)
  <1>1. IInv => torn \/ CallOnce
    BY InvMeans DEF IInv
  <1> QED
    BY <1>1, FramesInvariant, PTL

\* No two loops run one frame, and a loop past its check runs a node that is running.
THEOREM LoopsAreApart == Spec => [](torn \/ LoopsOwnFrames)
  <1>1. IInv => torn \/ LoopsOwnFrames
    BY InvMeans DEF IInv
  <1> QED
    BY <1>1, FramesInvariant, PTL

\* Nodes, windows, loops and counters keep their types.
THEOREM FrameTypes == Spec => [](torn \/ TypeOK)
  <1>1. IInv => torn \/ TypeOK
    BY InvMeans DEF IInv
  <1> QED
    BY <1>1, FramesInvariant, PTL
=============================================================================
