--------------------------- MODULE MCSkillPackages ---------------------------
(* A small instance of SkillPackages for TLC.                                 *)
EXTENDS SkillPackages, TLC

CONSTANTS tables, slides, plot, render, u1, u2

\* plot is a tool of tables that slides may come to claim (its name starts with the
\* name of the service); tables may come to need slides.
MCManifests ==
    (tables :> {[tools |-> {plot}, inject |-> {}], [tools |-> {plot}, inject |-> {slides}]})
 @@ (slides :> {[tools |-> {render}, inject |-> {}], [tools |-> {plot}, inject |-> {}]})

\* Operations do not look at instructions: those beside a directory whose manifest and
\* instructions differ are the same as beside one that is whole.
HalvesAreForReads ==
    (\E p \in Packages : Usable(disk[p]) /\ skill[p] # disk[p]) =>
        \A u \in Requests : todo[u] \in {"none", "done"}

RequestSymmetry == Permutations(Requests)
==============================================================================
