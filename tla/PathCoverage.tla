----------------------------- MODULE PathCoverage -----------------------------
(***************************************************************************)
(* What path exploration promises, without solver, files or signals: it    *)
(* covers the feasible paths of the program one at a time, never the same  *)
(* one twice, reports how many it covered, and calls its result complete   *)
(* only when no feasible path is left.                                     *)
(***************************************************************************)
EXTENDS Naturals

VARIABLES
    target,    \* the feasible paths of the program
    covered,   \* the paths executed so far
    found,     \* the number reported as "Unique paths found"
    verdict    \* running, complete, or partial (stopped early)

vars == <<target, covered, found, verdict>>

Init ==
    /\ covered = {}
    /\ found = 0
    /\ verdict = "running"

Cover ==
    /\ verdict = "running"
    /\ \E p \in target \ covered : covered' = covered \cup {p}
    /\ found' = found + 1
    /\ UNCHANGED <<target, verdict>>

Complete ==
    /\ verdict = "running"
    /\ covered = target
    /\ verdict' = "complete"
    /\ UNCHANGED <<target, covered, found>>

GiveUp ==
    /\ verdict = "running"
    /\ verdict' = "partial"
    /\ UNCHANGED <<target, covered, found>>

Next == Cover \/ Complete \/ GiveUp

Spec == Init /\ [][Next]_vars /\ WF_vars(Next)

=============================================================================
