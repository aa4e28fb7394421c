------------------------------- MODULE Frames -------------------------------
(***************************************************************************)
(* Function frames and programs (single_agent.rs run_loop/spawn_call/      *)
(* run_task, single_agent/{task_frames,program_flow,paused_programs}.rs,   *)
(* function_frames.rs): the programs the main AI writes in one             *)
(* conversation, the frames their calls open, the loops that run them, a   *)
(* user who speaks in the middle, and a process that may die at any point. *)
(*                                                                         *)
(* The database holds the nodes, the saved windows and the recorded        *)
(* results; a loop is a run_loop of the running process: the turn's own    *)
(* one, one per concurrent call, and one per resumed program.  A program   *)
(* is abstracted to what it may do next: call a function, start a          *)
(* concurrent call, wait, resume the paused program, return or fail.  Its  *)
(* tool steps are in ToolCalls and change nothing here.                    *)
(***************************************************************************)
EXTENDS Naturals, FiniteSets

CONSTANTS
  MaxFrames,    \* bound: frames opened below the main task
  MaxCalls,     \* bound: calls programs make
  MaxPrograms,  \* bound: programs AIs write
  MaxMessages,  \* bound: messages the user sends into running turns
  MaxTurns,     \* bound: turns
  MaxCrashes    \* bound: deaths of the process

ASSUME BoundsAssumption ==
  {MaxFrames, MaxCalls, MaxPrograms, MaxMessages, MaxTurns, MaxCrashes} \subseteq Nat

Main   == 0                \* the main task, its window, and the turn's own loop
MaxPauses == MaxMessages + MaxCrashes  \* a pause torn by a crash happens again
Temps  == 1 .. MaxFrames               \* frames that calls open
Paused == MaxFrames + 1 .. MaxFrames + MaxPauses  \* frames of paused programs
Frames == Temps \cup Paused            \* a loop is named after its first frame
Scopes == {Main} \cup Frames
Calls  == 1 .. MaxCalls
None   == 0                \* no call, no paused program

VARIABLES
  root,      \* status of the conversation's root node
  main,      \* status of the newest main task
  node,      \* agent_task_nodes: the temporary tasks
  win,       \* agent_runtime_windows, by scope
  recorded,  \* calls with a tool/result event
  called,    \* calls made so far
  programs,  \* programs written so far
  loop,      \* run_loop of the turn (Main), of a concurrent call, of a paused program
  pending,   \* an undelivered interjection exists
  sent, turn, crashes,
  cutOff,    \* history: concurrent calls whose loop was dropped in the middle
  torn       \* history: the process died between the two writes of a pause

vars == <<root, main, node, win, recorded, called, programs, loop, pending,
          sent, turn, crashes, cutOff, torn>>

Statuses == {"free", "running", "suspended", "paused", "done", "interrupted"}
Node == [status: Statuses, kind: {"serial", "concurrent", "previous"},
         parallel: BOOLEAN, safe: BOOLEAN, caller: Scopes, parent: Scopes,
         call: {None} \cup Calls]
Window == [there: BOOLEAN, prog: {"none", "ready", "call", "resume"},
           call: {None} \cup Calls, inflight: SUBSET Calls,
           resumable: {None} \cup Frames]
Loop == [pc: {"off", "crashed", "check", "join", "save", "step", "enter", "spawn",
              "waiting", "resuming", "resumed", "ended", "paused", "answered",
              "failed", "cleanup"},
         at: Scopes, kids: SUBSET Frames, call: {None} \cup Calls]

TypeOK ==
  /\ root \in {"running", "suspended"}
  /\ main \in {"free", "running", "suspended", "done"}
  /\ node \in [Frames -> Node] /\ win \in [Scopes -> Window]
  /\ recorded \subseteq Calls /\ called \in 0 .. MaxCalls
  /\ programs \in 0 .. MaxPrograms
  /\ loop \in [Scopes -> Loop]
  /\ pending \in BOOLEAN /\ sent \in 0 .. MaxMessages
  /\ turn \in 0 .. MaxTurns /\ crashes \in 0 .. MaxCrashes
  /\ cutOff \subseteq Frames /\ torn \in BOOLEAN

NoNode == [status |-> "free", kind |-> "serial", parallel |-> FALSE, safe |-> FALSE,
           caller |-> Main, parent |-> Main, call |-> None]
Fresh  == [there |-> TRUE, prog |-> "none", call |-> None, inflight |-> {},
           resumable |-> None]
NoWindow == [Fresh EXCEPT !.there = FALSE]
Off    == [pc |-> "off", at |-> Main, kids |-> {}, call |-> None]

Init ==
  /\ root = "running" /\ main = "free"
  /\ node = [f \in Frames |-> NoNode] /\ win = [x \in Scopes |-> NoWindow]
  /\ recorded = {} /\ called = 0 /\ programs = 0
  /\ loop = [l \in Scopes |-> Off]
  /\ pending = FALSE /\ sent = 0 /\ turn = 0 /\ crashes = 0
  /\ cutOff = {} /\ torn = FALSE

-----------------------------------------------------------------------------
(* The tree of frames.                                                     *)

Live(n) == n.status \in {"running", "suspended", "paused"}
Running(x) == IF x = Main THEN main = "running" ELSE node[x].status = "running"
Unused(S) == {f \in S : node[f].status = "free"}

\* The set S and all that links lead to from it.
Closure(S, links) ==
  LET grow[T \in SUBSET Scopes] ==
        LET more == T \cup {link[2] : link \in {k \in links : k[1] \in T}}
        IN IF more = T THEN T ELSE grow[more]
  IN grow[S]

\* A frame and every frame its calls opened.
Opened(ns) == {f \in Frames : ns[f].status # "free" /\ ns[f].kind # "previous"}
Chain(ns, p) == Closure({p}, {<<ns[f].caller, f>> : f \in Opened(ns)})

\* A frame and every frame below it in the tree.
Below(ns, p) ==
  Closure({p}, {<<ns[f].parent, f>> : f \in {g \in Frames : ns[g].status # "free"}})

\* The frames a call runs in while it has not returned, oldest first.
Callees(ns, c) == {f \in Frames : ns[f].call = c /\ Live(ns[f])}
First(S) == CHOOSE f \in S : \A g \in S : f <= g

MarkPausedInView(ns, p) ==
  LET chain == Chain(ns, p) IN
  [f \in Frames |->
    IF f \in chain /\ Live(ns[f])
    THEN [ns[f] EXCEPT !.status = IF @ = "running" THEN "paused" ELSE @, !.safe = TRUE]
    ELSE ns[f]]
MarkPaused(ns, p) ==
  LET chain == Chain(ns, p) IN
  [f \in Frames |->
    IF f \in chain /\ Live(ns[f])
    THEN [ns[f] EXCEPT !.status = IF @ = "running" THEN "paused" ELSE @,
                       !.parallel = TRUE, !.safe = TRUE]
    ELSE ns[f]]
MarkResumedTop(ns, p) == [ns EXCEPT ![p].status = "running"]
MarkResumed(ns, p) ==
  LET chain == Chain(ns, p) IN
  [f \in Frames |-> IF f \in chain /\ ns[f].status = "paused"
                    THEN [ns[f] EXCEPT !.status = "running"] ELSE ns[f]]

\* discard_frame for each of the frames R.
DiscardedAlone(ns, R) == {f \in R : Live(ns[f])}
Discarded(ns, R) == {f \in UNION {Chain(ns, p) : p \in R} : Live(ns[f])}
Without(ns, D) ==
  [f \in Frames |-> IF f \in D THEN [ns[f] EXCEPT !.status = "interrupted"] ELSE ns[f]]
Closed(ws, D) == [x \in Scopes |-> IF x \in D THEN NoWindow ELSE ws[x]]

\* interrupt_parallel_function for each of the calls C.
Interrupted(ns, C) ==
  LET roots == {f \in Frames : ns[f].kind = "concurrent" /\ ns[f].call \in C}
      below == UNION {Below(ns, r) : r \in roots}
  IN [f \in Frames |->
       IF ns[f].status \in {"running", "suspended"} /\ f \in below
       THEN [ns[f] EXCEPT !.status = "interrupted"] ELSE ns[f]]

InnermostNone(ns, x) == x
\* The frame a saved stack stopped in: from x through its pending serial calls.
Awaited(ns, y) ==
  {f \in Frames : win[y].prog = "call" /\ Callees(ns, win[y].call) # {}
                  /\ f = First(Callees(ns, win[y].call)) /\ win[f].there}
Innermost(ns, x) ==
  LET stack == Closure({x}, {link \in Scopes \X Frames : link[2] \in Awaited(ns, link[1])})
  IN CHOOSE y \in stack : Awaited(ns, y) = {}

\* recover: recorded results go to the program that waits for them.
Recover(w) ==
  LET w1 == [w EXCEPT !.inflight = @ \ recorded]
  IN IF w.prog = "call" /\ w.call \in recorded
     THEN [w1 EXCEPT !.prog = "ready", !.call = None] ELSE w1

-----------------------------------------------------------------------------
(* The loops.                                                              *)

Alive == {"check", "join", "save", "step", "enter", "spawn", "waiting", "resuming", "resumed"}
InProgram(x) == x # Main \/ win[Main].prog # "none"
\* Loops other than a concurrent call's hear the user (parallel_root is unset).
Hears(l) == l = Main \/ node[l].kind = "previous"

\* The loop of the paused program a loop is waiting for, and all loops below one.
ResumedBy(l) == IF loop[l].pc = "resuming" THEN {win[loop[l].at].resumable} ELSE {}
Nested(l) ==
  Closure({l}, {link \in Scopes \X Frames :
                  link[2] \in loop[link[1]].kids \cup ResumedBy(link[1])}) \ {l}

Go(l, pc) == loop' = [loop EXCEPT ![l].pc = pc]
Cut(K) == cutOff' = cutOff \cup
            {k \in K : k # Main /\ node[k].kind = "concurrent" /\ loop[k].pc \in Alive}
\* A loop that ends drops the tasks it started.
End(l, pc) ==
  /\ LET nested == Nested(l) IN
     loop' = [k \in Scopes |-> IF k = l THEN [loop[l] EXCEPT !.pc = pc, !.kids = {}]
                               ELSE IF k \in nested THEN Off ELSE loop[k]]
  /\ Cut(Nested(l))

Put(x, w) == win' = [win EXCEPT ![x] = w]

tally == <<called, programs, sent, turn, crashes, torn>>
Take(l) == pending' = (pending /\ ~Hears(l))

\* The top of an iteration: a program stops where it is when the user spoke.
Check(l) ==
  /\ loop[l].pc = "check"
  /\ Go(l, IF InProgram(loop[l].at) /\ pending THEN "join" ELSE "step")
  /\ UNCHANGED <<root, main, node, win, recorded, pending, cutOff, tally>>

\* It waits for its concurrent calls, which stop by themselves.
Stopped(l) ==
  /\ loop[l].pc = "join"
  /\ \A k \in loop[l].kids : loop[k].pc = "ended"

StopNested(l) ==
  /\ l # Main /\ Stopped(l)
  /\ loop' = [k \in Scopes |->
               IF k = l THEN [loop[l] EXCEPT !.kids = {},
                                !.pc = IF node[l].kind = "previous" THEN "paused" ELSE "ended"]
               ELSE IF k \in loop[l].kids THEN Off ELSE loop[k]]
  /\ UNCHANGED <<root, main, node, win, recorded, pending, cutOff, tally>>

JoinedKids(l, pc, x) ==
  loop' = [k \in Scopes |->
            IF k = l THEN [loop[l] EXCEPT !.kids = {}, !.pc = pc, !.at = x]
            ELSE IF k \in loop[l].kids THEN Off ELSE loop[k]]

\* A called function keeps its frame; the main window takes over.
StopInFunction ==
  /\ Stopped(Main) /\ loop[Main].at # Main
  /\ JoinedKids(Main, "check", Main)
  /\ UNCHANGED <<root, main, node, win, recorded, pending, cutOff, tally>>

\* paused_programs::pause_main up to its commit: the program moves into a frame
\* of its own, to which its unfinished calls now return.
PausedNodes(p, w) ==
  LET calls == w.inflight \cup (IF w.prog = "call" THEN {w.call} ELSE {})
      moved == [f \in Frames |->
                 IF f = p THEN [NoNode EXCEPT !.status = "paused", !.kind = "previous",
                                  !.parallel = TRUE]
                 ELSE IF node[f].status # "free" /\ node[f].kind # "previous"
                         /\ node[f].caller = Main /\ node[f].call \in calls
                 THEN [node[f] EXCEPT !.caller = p] ELSE node[f]]
  IN MarkPaused(moved, p)
PauseMain ==
  /\ Stopped(Main) /\ loop[Main].at = Main
  /\ LET p == First(Unused(Paused))
         w == Recover(win[Main])
     IN /\ node' = PausedNodes(p, w)
        /\ win' = [win EXCEPT ![Main] = w, ![p] = w]
        /\ JoinedKids(Main, "save", Main)
        /\ main' = "running"
  /\ UNCHANGED <<root, recorded, pending, cutOff, tally>>

\* end_program's save after it: the main window is free for the main AI.
PauseSaved ==
  /\ loop[Main].pc = "save"
  /\ LET p == CHOOSE f \in Paused \ Unused(Paused) : \A g \in Paused \ Unused(Paused) : g <= f
     IN Put(Main, [Fresh EXCEPT !.resumable = p])
  /\ Go(Main, "step")
  /\ UNCHANGED <<root, main, node, recorded, pending, cutOff, tally>>

-----------------------------------------------------------------------------
(* One step of a loop.                                                     *)

\* What a step sees: its window after recover.
W(l) == Recover(win[loop[l].at])
Steps(l, prog) == loop[l].pc = "step" /\ W(l).prog = prog
Pending(l, prog) == loop[l].pc \in {"step", "enter"} /\ W(l).prog = prog
IsFunction(x) == x # Main /\ node[x].kind # "previous"

\* An AI writes a program, in the main window or as a function's implementation.
WriteProgram(l) ==
  /\ Steps(l, "none")
  /\ loop[l].at = Main \/ IsFunction(loop[l].at)
  /\ programs < MaxPrograms /\ programs' = programs + 1
  /\ Put(loop[l].at, [W(l) EXCEPT !.prog = "ready"])
  /\ Go(l, "check") /\ Take(l)
  /\ UNCHANGED <<root, main, node, recorded, cutOff, called, sent, turn, crashes, torn>>

\* task_frames::finish of a frame that is running: its result is recorded and a
\* serial caller continues.
FinishFrame(l, x) ==
  IF node[x].kind = "concurrent"
  THEN /\ node' = [node EXCEPT ![x].status = "done"]
       /\ recorded' = recorded \cup {node[x].call}
       /\ Put(x, [W(l) EXCEPT !.prog = "none", !.inflight = {}])
       /\ End(l, "ended") /\ UNCHANGED main
  ELSE LET c == node[x].caller IN
       /\ win[c].there
       /\ node' = [f \in Frames |-> IF f = x THEN [node[x] EXCEPT !.status = "done"]
                                    ELSE IF f = c THEN [node[f] EXCEPT !.status = "running"]
                                    ELSE node[f]]
       /\ main' = IF c = Main THEN "running" ELSE main
       /\ recorded' = recorded \cup {node[x].call}
       /\ Put(x, NoWindow)
       /\ loop' = [loop EXCEPT ![l].at = c, ![l].pc = "check"]
       /\ UNCHANGED cutOff

\* A reply that ends the window in view: a function returns, a resumed program
\* answers its resumer, the main task ends the turn.
Reply(l) ==
  LET x == loop[l].at IN
  \/ /\ x = Main
     /\ main' = IF main = "running" THEN "done" ELSE main
     /\ root' = IF main = "running" THEN "running" ELSE root
     /\ Put(Main, [W(l) EXCEPT !.prog = "none", !.inflight = {}])
     /\ End(l, "answered")
     /\ UNCHANGED <<node, recorded>>
  \/ /\ x # Main /\ node[x].kind = "previous"
     /\ Put(x, [W(l) EXCEPT !.prog = "none", !.inflight = {}])
     /\ End(l, "answered")
     /\ UNCHANGED <<root, main, node, recorded>>
  \/ /\ IsFunction(x) /\ Running(x) /\ FinishFrame(l, x)
     /\ UNCHANGED root
  \/ /\ IsFunction(x) /\ ~Running(x)
     /\ Put(x, [W(l) EXCEPT !.prog = "none", !.inflight = {}])
     /\ End(l, IF Hears(l) THEN "answered" ELSE "ended")
     /\ UNCHANGED <<root, main, node, recorded>>

AIReplies(l) ==
  /\ Steps(l, "none") /\ Reply(l) /\ Take(l)
  /\ UNCHANGED tally

\* A program returns once nothing of it is in flight; an error may end it earlier.
ProgramReturns(l) ==
  /\ Steps(l, "ready") /\ W(l).inflight = {}
  /\ Reply(l) /\ Take(l)
  /\ UNCHANGED tally
ProgramThrows(l) ==
  /\ Steps(l, "ready") /\ W(l).inflight # {}
  /\ Reply(l) /\ Take(l)
  /\ UNCHANGED tally

\* The author of a main program or an implementation rewrites one that failed.
Rewrite(l) ==
  /\ Steps(l, "ready") /\ (loop[l].at = Main \/ IsFunction(loop[l].at))
  /\ programs < MaxPrograms
  /\ Put(loop[l].at, [W(l) EXCEPT !.prog = "none", !.inflight = {}])
  /\ Go(l, "check") /\ Take(l)
  /\ UNCHANGED <<root, main, node, recorded, cutOff, tally>>

\* A serial call: the pending step is saved, then create_function_task opens its
\* frame in one transaction. A caller that is not running gets the error.
ProgramCalls(l) ==
  /\ Steps(l, "ready") /\ called < MaxCalls /\ called' = called + 1
  /\ Put(loop[l].at, [W(l) EXCEPT !.prog = "call", !.call = called'])
  /\ Go(l, "enter") /\ Take(l)
  /\ UNCHANGED <<root, main, node, recorded, cutOff, programs, sent, turn, crashes, torn>>

NewNode(kind, x, c) ==
  [NoNode EXCEPT !.status = "running", !.kind = kind, !.caller = x, !.parent = x,
                 !.call = c, !.parallel = kind = "concurrent" \/ (x # Main /\ node[x].parallel)]
Enter(l) ==
  /\ Pending(l, "call")
  /\ LET x == loop[l].at
         c == W(l).call IN
     IF Running(x) /\ Unused(Temps) # {}
     THEN /\ LET g == First(Unused(Temps)) IN
             /\ node' = [f \in Frames |->
                          IF f = g THEN NewNode("serial", x, c)
                          ELSE IF f = x THEN [node[f] EXCEPT !.status = "suspended"]
                          ELSE node[f]]
             /\ main' = IF x = Main THEN "suspended" ELSE main
             /\ \E prog \in {"none", "ready"} :
                  win' = [win EXCEPT ![x] = W(l), ![g] = [Fresh EXCEPT !.prog = prog]]
             /\ loop' = [loop EXCEPT ![l].at = g, ![l].pc = "check"]
          /\ UNCHANGED recorded
     ELSE /\ recorded' = recorded \cup {c}
          /\ Put(x, W(l))
          /\ Go(l, "check")
          /\ UNCHANGED <<node, main>>
  /\ IF loop[l].pc = "step" THEN Take(l) ELSE UNCHANGED pending
  /\ UNCHANGED <<root, cutOff, tally>>

\* A concurrent call gets a frame and a loop of its own.
ProgramSpawns(l) ==
  /\ Steps(l, "ready") /\ called < MaxCalls /\ called' = called + 1
  /\ Put(loop[l].at, [W(l) EXCEPT !.inflight = @ \cup {called'}])
  /\ loop' = [loop EXCEPT ![l].pc = "spawn", ![l].call = called']
  /\ Take(l)
  /\ UNCHANGED <<root, main, node, recorded, cutOff, programs, sent, turn, crashes, torn>>
Spawn(l) ==
  /\ loop[l].pc = "spawn" /\ Running(loop[l].at) /\ Unused(Temps) # {}
  /\ LET g == First(Unused(Temps)) IN
     /\ node' = [node EXCEPT ![g] = NewNode("concurrent", loop[l].at, loop[l].call)]
     /\ \E prog \in {"none", "ready"} : Put(g, [Fresh EXCEPT !.prog = prog])
     /\ loop' = [loop EXCEPT ![l].pc = "check", ![l].call = None, ![l].kids = @ \cup {g},
                             ![g] = [Off EXCEPT !.pc = "check", !.at = g]]
  /\ UNCHANGED <<root, main, recorded, pending, cutOff, tally>>

\* A program with nothing to do but wait for its concurrent calls.
ProgramWaits(l) ==
  /\ Steps(l, "ready") /\ W(l).inflight # {}
  /\ Put(loop[l].at, W(l))
  /\ Go(l, "waiting") /\ Take(l)
  /\ UNCHANGED <<root, main, node, recorded, cutOff, tally>>
JoinNext(l) ==
  /\ loop[l].pc = "waiting"
  /\ \E k \in loop[l].kids :
       /\ loop[k].pc = "ended"
       /\ loop' = [loop EXCEPT ![l].pc = "check", ![l].kids = @ \ {k}, ![k] = Off]
  /\ UNCHANGED <<root, main, node, win, recorded, pending, cutOff, tally>>

\* paused_calls: the calls that stopped with a paused program run on, once.
Restartable(x) ==
  {f \in Frames : \E c \in win[x].inflight :
     /\ Callees(node, c) # {} /\ f = First(Callees(node, c))
     /\ node[f].safe /\ win[f].there}
RunPausedCalls(l) ==
  /\ loop[l].pc = "waiting" /\ loop[l].kids = {}
  /\ LET K == Restartable(loop[l].at) IN
     /\ K # {}
     /\ node' = [f \in Frames |-> IF f \in K THEN [node[f] EXCEPT !.safe = FALSE] ELSE node[f]]
     /\ loop' = [k \in Scopes |->
                  IF k = l THEN [loop[l] EXCEPT !.pc = "check", !.kids = K]
                  ELSE IF k \in K THEN [Off EXCEPT !.pc = "check", !.at = Innermost(node, k)]
                  ELSE loop[k]]
  /\ UNCHANGED <<root, main, win, recorded, pending, cutOff, tally>>
InterruptUnfinishedTop(l) ==
  /\ l = Main /\ loop[l].pc = "waiting" /\ loop[l].kids = {} /\ Restartable(loop[l].at) = {}
  /\ node' = Interrupted(node, win[loop[l].at].inflight)
  /\ Put(loop[l].at, [win[loop[l].at] EXCEPT !.inflight = {}])
  /\ Go(l, "check")
  /\ UNCHANGED <<root, main, recorded, pending, cutOff, tally>>
\* interrupt_unfinished: calls nobody runs any more fail in the program.
InterruptUnfinished(l) ==
  /\ loop[l].pc = "waiting" /\ loop[l].kids = {} /\ Restartable(loop[l].at) = {}
  /\ node' = Interrupted(node, win[loop[l].at].inflight)
  /\ Put(loop[l].at, [win[loop[l].at] EXCEPT !.inflight = {}])
  /\ Go(l, "check")
  /\ UNCHANGED <<root, main, recorded, pending, cutOff, tally>>

-----------------------------------------------------------------------------
(* Resuming the paused program.                                            *)

ProgramResumes(l) ==
  /\ Steps(l, "ready") /\ W(l).resumable # None
  /\ called < MaxCalls /\ called' = called + 1
  /\ Put(loop[l].at, [W(l) EXCEPT !.prog = "resume"])
  /\ Go(l, "enter") /\ Take(l)
  /\ UNCHANGED <<root, main, node, recorded, cutOff, programs, sent, turn, crashes, torn>>

\* It continues where it stopped: in its innermost serial call.
HasPaused(x) == win[x].resumable # None /\ win[win[x].resumable].there
BeginResume(l) ==
  /\ Pending(l, "resume") /\ HasPaused(loop[l].at)
  /\ LET p == win[loop[l].at].resumable
         ns == MarkResumed(node, p) IN
     /\ node' = ns
     /\ loop' = [loop EXCEPT ![l].pc = "resuming",
                             ![p] = [Off EXCEPT !.pc = "check", !.at = Innermost(ns, p)]]
  /\ Put(loop[l].at, W(l))
  /\ IF loop[l].pc = "step" THEN Take(l) ELSE UNCHANGED pending
  /\ UNCHANGED <<root, main, recorded, cutOff, tally>>

\* The user spoke again: it pauses once more and the step that resumed it stays pending.
ResumePaused(l) ==
  /\ loop[l].pc = "resuming"
  /\ LET p == win[loop[l].at].resumable IN
     /\ loop[p].pc = "paused"
     /\ node' = MarkPaused(node, p)
     /\ loop' = [loop EXCEPT ![l].pc = "check", ![p] = Off]
  /\ UNCHANGED <<root, main, win, recorded, pending, cutOff, tally>>
\* It returned, or could not finish and is discarded.
ResumeReturned(l) ==
  /\ loop[l].pc = "resuming"
  /\ LET p == win[loop[l].at].resumable
         D == Discarded(node, {p}) IN
     /\ loop[p].pc \in {"answered", "failed"}
     /\ IF loop[p].pc = "answered" /\ loop[p].at = p
        THEN node' = [node EXCEPT ![p].status = "done"] /\ Put(p, NoWindow)
        ELSE node' = Without(node, D) /\ win' = Closed(win, D)
     /\ loop' = [loop EXCEPT ![l].pc = "resumed", ![p] = Off]
  /\ UNCHANGED <<root, main, recorded, pending, cutOff, tally>>
\* Its value becomes the recorded result of the step that resumed it.
ResumeRecorded(l) ==
  /\ loop[l].pc = "resumed"
  /\ Put(loop[l].at, [win[loop[l].at] EXCEPT !.prog = "ready"])
  /\ Go(l, "check")
  /\ UNCHANGED <<root, main, node, recorded, pending, cutOff, tally>>

-----------------------------------------------------------------------------
(* Loops that fail, turns, and the process.                                *)

\* The frames between a loop's first one and the one it is in.
Stack(l) == {f \in Chain(node, l) : loop[l].at \in Chain(node, f)}

\* A concurrent call that cannot finish returns the failure through its frames.
FailedCall(l) ==
  LET x == loop[l].at
      w == W(l)
      S == IF Running(x) THEN Stack(l) ELSE {}
      ns == Interrupted(node, w.inflight)
  IN /\ node' = [f \in Frames |-> IF f \in S THEN [ns[f] EXCEPT !.status = "done"] ELSE ns[f]]
     /\ recorded' = recorded \cup {node[f].call : f \in S}
     /\ win' = [y \in Scopes |-> IF y \in S \ {l} THEN NoWindow
                                 ELSE IF y = x THEN [w EXCEPT !.inflight = {}] ELSE win[y]]
     /\ End(l, "ended")

\* An error, a cancellation or the round limit ends a loop.
Fail(l) ==
  /\ \/ loop[l].pc = "step"
     \/ loop[l].pc = "enter" /\ W(l).prog = "resume" /\ ~HasPaused(loop[l].at)
     \/ loop[l].pc = "spawn" /\ (~Running(loop[l].at) \/ Unused(Temps) = {})
  /\ IF Hears(l) THEN End(l, "failed") /\ UNCHANGED <<node, win, recorded>>
     ELSE FailedCall(l)
  /\ UNCHANGED <<root, main, pending, tally>>

\* run_task: the frame in view is the one that runs and is not beside another.
InView ==
  {f \in Frames : node[f].status = "running" /\ ~node[f].parallel}
    \cup (IF main = "running" THEN {Main} ELSE {})
StartTurn ==
  /\ loop[Main].pc \in {"off", "crashed"} /\ turn < MaxTurns /\ turn' = turn + 1
  /\ \/ /\ InView = {}
        /\ root' = "suspended" /\ main' = "running"
        /\ Put(Main, Fresh)
        /\ loop' = [loop EXCEPT ![Main] = [Off EXCEPT !.pc = "check"]]
     \/ \E x \in InView :
        /\ win[x].there
        /\ loop' = [loop EXCEPT ![Main] = [Off EXCEPT !.pc = "check", !.at = x]]
        /\ UNCHANGED <<root, main, win>>
  /\ UNCHANGED <<node, recorded, called, programs, pending, sent, crashes, cutOff, torn>>

\* discard_unresumed: a program paused and not resumed ends with the turn.
Unresumed == {f \in Frames : node[f].kind = "previous" /\ Live(node[f])}
EndTurn ==
  /\ loop[Main].pc \in {"answered", "failed"}
  /\ LET D == Discarded(node, Unresumed) IN
     /\ node' = Without(node, D)
     /\ win' = [Closed(win, D) EXCEPT ![loop[Main].at].resumable = None]
  /\ Go(Main, IF loop[Main].pc = "answered" THEN "off" ELSE "cleanup")
  /\ UNCHANGED <<root, main, recorded, pending, cutOff, tally>>
\* Without an answer, the concurrent calls of the frame in view are interrupted.
CleanUp ==
  /\ loop[Main].pc = "cleanup"
  /\ LET x == loop[Main].at
         w == Recover(win[x]) IN
     IF win[x].inflight = {} THEN UNCHANGED <<node, win>>
     ELSE /\ node' = Interrupted(node, w.inflight)
          /\ Put(x, [w EXCEPT !.inflight = {}])
  /\ Go(Main, "off")
  /\ UNCHANGED <<root, main, recorded, pending, cutOff, tally>>

Say ==
  /\ loop[Main].pc \in Alive /\ sent < MaxMessages
  /\ pending' = TRUE /\ sent' = sent + 1
  /\ UNCHANGED <<root, main, node, win, recorded, called, programs, loop, turn,
                 crashes, cutOff, torn>>

Crash ==
  /\ loop[Main].pc \notin {"off", "crashed"} /\ crashes < MaxCrashes
  /\ crashes' = crashes + 1
  /\ torn' = (torn \/ loop[Main].pc = "save")
  /\ Cut(Scopes)
  /\ loop' = [l \in Scopes |-> IF l = Main THEN [Off EXCEPT !.pc = "crashed"] ELSE Off]
  /\ UNCHANGED <<root, main, node, win, recorded, called, programs, pending, sent, turn>>

LoopStep(l) ==
  \/ Check(l) \/ StopNested(l)
  \/ WriteProgram(l) \/ AIReplies(l) \/ ProgramReturns(l) \/ ProgramThrows(l) \/ Rewrite(l)
  \/ ProgramCalls(l) \/ Enter(l) \/ ProgramSpawns(l) \/ Spawn(l)
  \/ ProgramWaits(l) \/ JoinNext(l) \/ RunPausedCalls(l) \/ InterruptUnfinished(l)
  \/ ProgramResumes(l) \/ BeginResume(l) \/ ResumePaused(l) \/ ResumeReturned(l)
  \/ ResumeRecorded(l) \/ Fail(l)
TopStep == StopInFunction \/ PauseMain \/ PauseSaved \/ EndTurn \/ CleanUp

Next == TopStep \/ StartTurn \/ Say \/ Crash \/ \E l \in Scopes : LoopStep(l)

\* What the process does by itself once a turn has started.
Run == TopStep \/ \E l \in Scopes : LoopStep(l)

Spec == Init /\ [][Next]_vars

-----------------------------------------------------------------------------
(* Properties.                                                             *)

\* However loops pause, restart and resume each other's frames, no two of them run one
\* frame, and a loop past its check runs a frame whose node is running: only such a
\* frame's return reaches its caller (finish). A pause torn by a crash is the exception.
Executing == {l \in Scopes : loop[l].pc \in Alive}
LoopsOwnFrames ==
  /\ \A l, m \in Executing : l # m => loop[l].at # loop[m].at
  /\ torn \/ \A l \in Executing : loop[l].pc \notin {"check", "join"} => Running(loop[l].at)

\* A call opens one frame, however often its program is paused, resumed or restarted:
\* the steps of a function are not run twice.
CallOnce ==
  \A f, g \in Frames : f # g /\ node[f].call # None => node[f].call # node[g].call

\* A serial frame that has not returned has a saved caller that waits for just this call,
\* also after its caller's program moved into a frame of its own (finish: "waiting task
\* frame missing", TASK_CALLER_FRAME_MISMATCH).
CallerWaits ==
  \A f \in Frames : node[f].kind = "serial" /\ Live(node[f]) =>
    LET w == win[node[f].caller] IN w.there /\ w.prog = "call" /\ w.call = node[f].call

\* A turn is never stuck: some loop can always go on, whoever waits for whom.
NobodyWaits == ENABLED Run \/ loop[Main].pc \in {"off", "crashed"}

\* A concurrent call that was cut off in the middle is not run again (the comments of
\* mark_paused and paused_calls). A pause marks every live call below it as stopped
\* safely, also one that a crash had cut off before.
CutOffNeverRuns == \A f \in cutOff : loop[f].pc = "off"

=============================================================================
