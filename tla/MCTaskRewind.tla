---------------------------- MODULE MCTaskRewind ----------------------------
(* Small instances of TaskRewind for TLC.                                  *)
EXTENDS TaskRewind, TLC

CONSTANTS r1, r2, r3, c1, c2

\* Requests are interchangeable, and so are the clients of rewinds and undos.
RewindSymmetry == Permutations(Requests) \cup Permutations(Clients)

\* What follows upon an overlapped rewind is searched while a rewind is at work
\* and no worker has failed: two of the properties except all of it.
NothingFollows == overlapped => Rewinding # {} /\ faults = 0
=============================================================================
