----------------------------- MODULE WriteQueue -----------------------------
(***************************************************************************)
(* What the writer of a database promises its callers, without threads,    *)
(* channels, generations or transactions: writes are applied whole, at     *)
(* most once, in the order in which they were accepted, and an answer      *)
(* says what happened.  DbWriter implements it.                            *)
(***************************************************************************)
EXTENDS Sequences

CONSTANT Callers

VARIABLES
    told,  \* "new", "sent" (waits for its answer), "ok" or "error"
    line,  \* accepted writes that may still be applied, oldest first
    done   \* applied writes

vars == <<told, line, done>>

Elements(s) == {s[i] : i \in DOMAIN s}

Init == told = [c \in Callers |-> "new"] /\ line = <<>> /\ done = <<>>

Accept(c) ==
    /\ told[c] = "new" /\ told' = [told EXCEPT ![c] = "sent"]
    /\ line' = Append(line, c)
    /\ UNCHANGED done

\* A write nobody will apply: its caller will be told.
TurnAway(c) ==
    /\ told[c] = "new" /\ told' = [told EXCEPT ![c] = "sent"]
    /\ UNCHANGED <<line, done>>

Apply ==
    /\ line # <<>>
    /\ done' = Append(done, Head(line)) /\ line' = Tail(line)
    /\ UNCHANGED told

\* The writer gives up, and with it everything in line.
GiveUp == line' = <<>> /\ UNCHANGED <<told, done>>

\* Only an applied write is confirmed.
Confirm(c) ==
    /\ told[c] = "sent" /\ c \in Elements(done)
    /\ told' = [told EXCEPT ![c] = "ok"]
    /\ UNCHANGED <<line, done>>

\* An error may come late (the write is there), but no write comes after it.
Fail(c) ==
    /\ told[c] = "sent"
    /\ told' = [told EXCEPT ![c] = "error"]
    /\ line' = (IF line # <<>> /\ Head(line) = c THEN Tail(line) ELSE line)
    /\ c \notin Elements(line') /\ UNCHANGED done

FailAll ==
    \E C \in SUBSET {c \in Callers : told[c] = "sent"} :
        /\ C \cap Elements(line) = {}
        /\ told' = [c \in Callers |-> IF c \in C THEN "error" ELSE told[c]]
        /\ UNCHANGED <<line, done>>

\* Refused at once.
Refuse(c) ==
    /\ told[c] = "new" /\ told' = [told EXCEPT ![c] = "error"]
    /\ UNCHANGED <<line, done>>

\* A write asked for by a write in progress does not stand in line.
Inside(c) ==
    /\ told[c] = "new" /\ told' = [told EXCEPT ![c] = "ok"]
    /\ done' = Append(done, c)
    /\ UNCHANGED line

Next ==
    \/ Apply \/ GiveUp \/ FailAll
    \/ \E c \in Callers :
        \/ Accept(c) \/ TurnAway(c) \/ Confirm(c) \/ Fail(c)
        \/ Refuse(c) \/ Inside(c)

Spec == Init /\ [][Next]_vars
=============================================================================
