---------------------------- MODULE MCApprovals ----------------------------
(* A small instance of Approvals: two calls of one conversation that has a  *)
(* project.  No symmetry, as a liveness property is checked.                *)
EXTENDS Approvals, TLC

CONSTANTS c1, c2, t1, p1

TwoCalls   == c1 :> t1 @@ c2 :> t1
OneProject == t1 :> p1
=============================================================================
