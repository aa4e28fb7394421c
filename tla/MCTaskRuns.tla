----------------------------- MODULE MCTaskRuns -----------------------------
(* Small instances of TaskRuns for TLC.                                    *)
EXTENDS TaskRuns, TLC

CONSTANTS r1, r2, r3, m1

\* Requests are interchangeable in the safety properties.
RequestSymmetry == Permutations(Requests)
=============================================================================
