---------------------- MODULE SymbolicExploreRefinement ----------------------
(***************************************************************************)
(* SymbolicExplore implements PathCoverage: the feasible paths of the      *)
(* program are the target, the executed ones are covered, and only a loop  *)
(* that ended by itself, with no query given up, is complete.              *)
(***************************************************************************)
EXTENDS SymbolicExplore

Verdict ==
    CASE exit = "running"               -> "running"
      [] exit = "exhausted" /\ ~ gaveUp -> "complete"
      [] OTHER                          -> "partial"

Coverage == INSTANCE PathCoverage WITH
    target  <- Feasible,
    covered <- executed,
    found   <- paths_found,
    verdict <- Verdict

\* Every step of explore_paths covers one new feasible path, ends the
\* exploration with a truthful verdict, or changes nothing PathCoverage sees;
\* and the exploration never stalls.
ImplementsPathCoverage == Coverage!Spec

=============================================================================
