------------------------- MODULE MCSymbolicExplore -------------------------
EXTENDS SymbolicExploreRefinement

\* No symbolic input is requested; the program fails or exits.
Concrete(how) ==
    [inputs |-> {0}, path |-> [i \in {0} |-> <<>>],
     outcome |-> [i \in {0} |-> how], sym |-> FALSE]

\* A nest of four conditions whose last one cannot be false, two failing paths,
\* and two inputs on each of two paths.
NestPaths ==
    <<<<TRUE>>, <<FALSE, TRUE>>, <<FALSE, FALSE, TRUE>>,
      <<FALSE, FALSE, FALSE, TRUE>>, <<FALSE, FALSE, FALSE, TRUE>>, <<TRUE>>>>
Nest ==
    [inputs |-> 1..6, path |-> NestPaths,
     outcome |-> <<"exit", "error", "exit", "error", "error", "exit">>,
     sym |-> TRUE]

\* Two independent conditions; one combination makes the simulation fail.
Crashing ==
    [inputs |-> 1..4,
     path |-> <<<<TRUE, TRUE>>, <<TRUE, FALSE>>, <<FALSE, TRUE>>, <<FALSE, FALSE>>>>,
     outcome |-> <<"exit", "exit", "error", "crash">>, sym |-> TRUE]

\* Symbolic inputs no branch depends on.
Unbranched ==
    [inputs |-> {1, 2}, path |-> <<<<>>, <<>>>>,
     outcome |-> <<"error", "error">>, sym |-> TRUE]

MCPrograms ==
    {Concrete("exit"), Concrete("error"), Nest, Crashing, Unbranched}

=============================================================================
