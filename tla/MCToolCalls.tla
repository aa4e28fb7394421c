----------------------------- MODULE MCToolCalls -----------------------------
\* Two call ids, so that messages with one and with two calls and messages that
\* use an id again are covered.
EXTENDS ToolCalls, TLC

CONSTANTS c1, c2

IdSymmetry == Permutations(Ids)
=============================================================================
