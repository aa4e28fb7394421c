--------------------------- MODULE MCFileChanges ---------------------------
(* The instance of FileChanges for TLC.                                    *)
EXTENDS FileChanges, TLC

\* Tools are interchangeable, and so are the requests to undo.
ToolSymmetry == Permutations(Tools) \cup Permutations(Undoers)

\* A marked turn is never offered for undo again, and no property says anything
\* of its log: what follows the mark is not searched.  Nor is a lost change
\* beside an undo that was cut off, which two of the properties except.
Searched == ~incomplete /\ (Lost # {} => ~broken)
=============================================================================
