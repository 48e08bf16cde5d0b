--------------------------- MODULE SymbolicExplore ---------------------------
(***************************************************************************)
(* The path exploration of SymEx-VP (vp/src/symex/symbolic_explore.cpp):   *)
(* the loop of explore_paths that runs the SystemC simulation once per     *)
(* assignment of the symbolic inputs, the report handler that turns        *)
(* host-error reports into test case files, the test case directory and    *)
(* its removal at exit, the time budget alarm, and the replay of a test    *)
(* case file.                                                              *)
(*                                                                         *)
(* The clover library (Trace, Solver, ExecutionContext) is external.  Its  *)
(* trace is modelled by the set of executed paths and the set of branch    *)
(* negations the solver refuted; a path is the sequence of truth values of *)
(* the branch conditions that ISS::track_and_trace_branch hands to the     *)
(* trace during one simulation.                                            *)
(***************************************************************************)
EXTENDS Integers, Sequences, FiniteSets

CONSTANTS
    Programs,       \* the programs under test
    SolverTimeout,  \* SYMEX_TIMEOUT is set: a query may be given up
    DiskMayFail     \* creating a test case file may fail

Outcomes == {"exit", "error", "crash"}

\* p and q take the same decision at each of their first k branches.
Agree(p, q, k) ==
    /\ k <= Len(p) /\ k <= Len(q)
    /\ \A j \in 1..k : p[j] = q[j]

\* q leaves p at p's k-th branch: q is an execution of p's k-th negation.
Negates(q, p, k) ==
    /\ k \in 1..Len(p) /\ k <= Len(q)
    /\ \A j \in 1..(k - 1) : p[j] = q[j]
    /\ q[k] # p[k]

(***************************************************************************)
(* A program under test: the values of its symbolic inputs, the path each  *)
(* value takes, how the simulation ends on it, and whether the inputs were *)
(* requested at all (otherwise the ConcreteStore of clover is empty).      *)
(* Programs are those whose control flow depends on the inputs through     *)
(* traced branches only, so two different paths part at a common branch.   *)
(***************************************************************************)
IsProgram(p) ==
    /\ p = [inputs |-> p.inputs, path |-> p.path,
            outcome |-> p.outcome, sym |-> p.sym]
    /\ IsFiniteSet(p.inputs) /\ p.inputs # {}
    /\ p.path \in [p.inputs -> Seq(BOOLEAN)]
    /\ p.outcome \in [p.inputs -> Outcomes]
    /\ p.sym \in BOOLEAN
    /\ \A i, j \in p.inputs :
          \/ p.path[i] = p.path[j] /\ p.outcome[i] = p.outcome[j]
          \/ p.sym /\ \E k \in 1..Len(p.path[i]) : Negates(p.path[j], p.path[i], k)

ASSUME ProgramsAssumption == \A p \in Programs : IsProgram(p)
ASSUME SwitchesAssumption == SolverTimeout \in BOOLEAN /\ DiskMayFail \in BOOLEAN

VARIABLES
    prog,          \* the program under test, fixed by the command line
    env,           \* SYMEX_ERREXIT, SYMEX_DUMPALL, SYMEX_TIMEBUDGET
    phase,         \* where the exploration process is
    cur,           \* the input assignment of the current simulation
    executed,      \* clover::Trace: the paths executed to their end
    refuted,       \* clover::Trace: the negations <<path, k>> with no new input
    gaveUp,        \* some query ran into the solver timeout
    paths_found,
    errors_found,
    prev_error,
    files,         \* test case directory: name -> [input, complete]
    dir,           \* does the directory exist?
    exit,          \* how the process ended
    replayed       \* last replay with SYMEX_TESTCASE: <<kind of file, result>>

trace == <<executed, refuted, gaveUp>>
counters == <<paths_found, errors_found, prev_error>>
setup == <<prog, env>>
vars == <<prog, env, phase, cur, executed, refuted, gaveUp, paths_found,
          errors_found, prev_error, files, dir, exit, replayed>>

PathOf(i) == prog.path[i]
Feasible == {PathOf(i) : i \in prog.inputs}

Phases == {"loop", "sim", "openErr", "writeErr", "ran", "open", "write",
           "solve", "ended"}
Exits == {"running", "exhausted", "errexit", "simfail", "abort", "alarm"}
Environments == [errexit : BOOLEAN, dumpall : BOOLEAN, timebudget : BOOLEAN]
NoFiles == [n \in {} |-> 0]
NotReplayed == <<"none", "none">>

-----------------------------------------------------------------------------
(* The clover trace and solver, as explore_paths uses them. *)

\* Branch k of the executed path p has not been negated yet.
OpenFlip(p, k) ==
    /\ ~ \E q \in executed : Negates(q, p, k)
    /\ ~ \E r \in refuted : r[2] = k /\ Agree(r[1], p, k)

\* Inputs that take p up to branch k and decide that branch the other way.
Solutions(p, k) == {i \in prog.inputs : Negates(PathOf(i), p, k)}

\* Mutant: an unanswered query counts as unsatisfiable.
RefutesAnything(p, k) == TRUE

\* The solver answers "unsatisfiable".
Refutes(p, k) == Solutions(p, k) = {}

\* Mutant: a branch without solution stays in the trace as not yet negated.
DiscardNothing(p, k) == refuted

\* The trace does not offer this negation again.
Discard(p, k) == refuted \cup {<<p, k>>}

-----------------------------------------------------------------------------
(* The end of the process. *)

\* exit() and return from main: atexit runs remove_testdir, whose rmdir
\* succeeds on an empty directory and fails with ENOTEMPTY otherwise.
remove_testdir == dir' = (dir /\ DOMAIN files # {})

Exit(how) ==
    /\ phase' = "ended"
    /\ exit' = how
    /\ remove_testdir

\* _Exit() and abort(): no atexit function runs.
Kill(how) ==
    /\ phase' = "ended"
    /\ exit' = how
    /\ UNCHANGED dir

-----------------------------------------------------------------------------
(* symbolic_explore up to the loop: create_testdir, the environment. *)

create_testdir == dir = TRUE /\ files = NoFiles

Init ==
    /\ prog \in Programs
    /\ env \in Environments
    /\ phase = "loop"
    /\ cur \in prog.inputs          \* random values in the first execution
    /\ executed = {} /\ refuted = {} /\ gaveUp = FALSE
    /\ paths_found = 0 /\ errors_found = 0 /\ prev_error = 0
    /\ create_testdir
    /\ exit = "running"
    /\ replayed = NotReplayed

\* Top of the do-while body: tracer.reset, a fresh simulation context.
StartSimulation ==
    /\ phase = "loop"
    /\ phase' = "sim"
    /\ prev_error' = errors_found
    /\ UNCHANGED <<setup, cur, trace, paths_found, errors_found, files, dir,
                   exit, replayed>>

\* The software writes CTRL_EXIT: sc_elab_and_sim returns 0.
SimulationExits ==
    /\ phase = "sim"
    /\ prog.outcome[cur] = "exit"
    /\ phase' = "ran"
    /\ UNCHANGED <<setup, cur, trace, counters, files, dir, exit, replayed>>

\* The software writes CTRL_ERROR: report_handler counts the error and calls
\* dump_input, which returns without a file if the store is empty.
SimulationReportsError ==
    /\ phase = "sim"
    /\ prog.outcome[cur] = "error"
    /\ errors_found' = errors_found + 1
    /\ phase' = IF prog.sym THEN "openErr" ELSE "ran"
    /\ UNCHANGED <<setup, cur, trace, paths_found, prev_error, files, dir, exit,
                   replayed>>

\* Any other error report or exception: sc_elab_and_sim returns non-zero.
SimulationFails ==
    /\ phase = "sim"
    /\ prog.outcome[cur] = "crash"
    /\ Exit("simfail")
    /\ UNCHANGED <<setup, cur, trace, counters, files, replayed>>

-----------------------------------------------------------------------------
(* dump_input: open the file, then write the store to it. *)

\* The name of the file: "path<n>_error" in the handler, where paths_found does
\* not count the running path yet, "path<n>" after the simulation.
FileName ==
    IF phase \in {"openErr", "writeErr"}
    THEN <<paths_found + 1, "error">>
    ELSE <<paths_found, "plain">>

OpenFile ==
    /\ phase \in {"openErr", "open"}
    /\ files' = [n \in DOMAIN files \cup {FileName} |->
                    IF n = FileName THEN [input |-> cur, complete |-> FALSE]
                                    ELSE files[n]]
    /\ phase' = IF phase = "openErr" THEN "writeErr" ELSE "write"
    /\ UNCHANGED <<setup, cur, trace, counters, dir, exit, replayed>>

\* "failed to open": thrown inside the simulation, sc_elab_and_sim turns it into
\* a non-zero result; thrown by explore_paths itself, nobody catches it.
OpenFails ==
    /\ DiskMayFail
    /\ \/ phase = "openErr" /\ Exit("simfail")
       \/ phase = "open" /\ Kill("abort")
    /\ UNCHANGED <<setup, cur, trace, counters, files, replayed>>

\* toFile on the open stream.  The code does not look at the stream afterwards; that
\* the disk fills up at this point is left out (DiskMayFail is about opening).
Completed ==
    [files EXCEPT ![FileName] = [input |-> cur, complete |-> TRUE]]

\* getenv(ERR_EXIT_ENV)
ExitsOnError == env.errexit

\* The rest of report_handler: exit on the first error, or let the simulation
\* run into the sys_exit that follows the report.
WriteErrorFile ==
    /\ phase = "writeErr"
    /\ files' = Completed
    /\ IF ExitsOnError THEN Exit("errexit")
                       ELSE phase' = "ran" /\ UNCHANGED <<dir, exit>>
    /\ UNCHANGED <<setup, cur, trace, counters, replayed>>

WriteFile ==
    /\ phase = "write"
    /\ files' = Completed
    /\ phase' = "solve"
    /\ UNCHANGED <<setup, cur, trace, counters, dir, exit, replayed>>

-----------------------------------------------------------------------------
\* Mutants: the error count of the whole exploration, or no comparison at all.
DumpsPathUnlessAnyError == env.dumpall /\ errors_found = 0 /\ prog.sym
DumpsPathAlways == env.dumpall /\ prog.sym

\* SYMEX_DUMPALL dumps a path whose simulation reported no error (report_handler
\* dumps the others), provided the store is not empty.
DumpsPath == env.dumpall /\ prev_error = errors_found /\ prog.sym

\* ++paths_found and the test case of a path without error; the trace now holds
\* the whole path.
CountPath ==
    /\ phase = "ran"
    /\ paths_found' = paths_found + 1
    /\ executed' = executed \cup {PathOf(cur)}
    /\ phase' = IF DumpsPath THEN "open" ELSE "solve"
    /\ UNCHANGED <<setup, cur, refuted, gaveUp, errors_found, prev_error, files,
                   dir, exit, replayed>>

\* setupNewValues finds values that take a negated branch: next iteration.
NegateSat ==
    /\ phase = "solve"
    /\ \E p \in executed : \E k \in 1..Len(p) :
          /\ OpenFlip(p, k)
          /\ cur' \in Solutions(p, k)
    /\ phase' = "loop"
    /\ UNCHANGED <<setup, trace, counters, files, dir, exit, replayed>>

\* The negated branch is unsatisfiable: setupNewValues tries another one.
NegateUnsat ==
    /\ phase = "solve"
    /\ \E p \in executed : \E k \in 1..Len(p) :
          /\ OpenFlip(p, k)
          /\ Refutes(p, k)
          /\ refuted' = Discard(p, k)
    /\ UNCHANGED <<setup, phase, cur, executed, gaveUp, counters, files, dir,
                   exit, replayed>>

\* The query exceeds the solver timeout: the branch is given up.
NegateTimeout ==
    /\ SolverTimeout
    /\ phase = "solve"
    /\ \E p \in executed : \E k \in 1..Len(p) :
          /\ OpenFlip(p, k)
          /\ refuted' = Discard(p, k)
    /\ gaveUp' = TRUE
    /\ UNCHANGED <<setup, phase, cur, executed, counters, files, dir, exit,
                   replayed>>

\* No branch is left to negate: the loop ends, dump_stats, return 0.
NoNewPath ==
    /\ phase = "solve"
    /\ \A p \in executed : \A k \in 1..Len(p) : ~ OpenFlip(p, k)
    /\ Exit("exhausted")
    /\ UNCHANGED <<setup, cur, trace, counters, files, replayed>>

-----------------------------------------------------------------------------
\* SIGALRM arrives at any point of the exploration.
Sigalrm ==
    /\ env.timebudget
    /\ phase # "ended"
    /\ Kill("alarm")
    /\ UNCHANGED <<setup, cur, trace, counters, files, replayed>>

ReplayResult(f) ==
    IF ~ f.complete THEN "unreadable"
    ELSE IF prog.outcome[f.input] = "exit" THEN "ok" ELSE "fail"

\* A later process with SYMEX_TESTCASE: run_test replays a file that survived.
\* No report handler is installed, so an error report makes the result non-zero.
RunTest ==
    /\ phase = "ended"
    /\ \E n \in DOMAIN files :
          replayed' = <<n[2], ReplayResult(files[n])>>
    /\ UNCHANGED <<setup, phase, cur, trace, counters, files, dir, exit>>

\* The steps of the exploration process itself.
Step ==
    \/ StartSimulation \/ SimulationExits \/ SimulationReportsError
    \/ SimulationFails \/ OpenFile \/ OpenFails \/ WriteErrorFile \/ WriteFile
    \/ CountPath \/ NegateSat \/ NegateUnsat \/ NegateTimeout \/ NoNewPath

Next == Step \/ Sigalrm \/ RunTest

Spec == Init /\ [][Next]_vars /\ WF_vars(Step)

-----------------------------------------------------------------------------
(* Properties. *)

IsError(p) == \E i \in prog.inputs : PathOf(i) = p /\ prog.outcome[i] = "error"
ErrorPaths(P) == {p \in P : IsError(p)}

FileNames == (Nat \X {"error", "plain"})
FileRecords == [input : prog.inputs, complete : BOOLEAN]

\* Types of the exploration's state; files maps names to test cases.
TypeOK ==
    /\ prog \in Programs /\ env \in Environments
    /\ phase \in Phases /\ exit \in Exits
    /\ cur \in prog.inputs
    /\ executed \subseteq Feasible
    /\ refuted \subseteq (executed \X Nat) /\ gaveUp \in BOOLEAN
    /\ paths_found \in Nat /\ errors_found \in Nat /\ prev_error \in Nat
    /\ DOMAIN files \subseteq FileNames
    /\ \A n \in DOMAIN files : files[n] \in FileRecords
    /\ dir \in BOOLEAN
    /\ replayed \in ({"none", "error", "plain"}
                       \X {"none", "ok", "fail", "unreadable"})

\* dump_stats prints paths_found as "Unique paths found": no path is executed
\* twice, whatever values the solver chooses and whichever branch it negates.
UniquePathsFound == paths_found = Cardinality(executed)

\* "by default the software is explored until all branches have been negated":
\* when the loop of explore_paths ends by itself and no query was given up,
\* every feasible path was executed and every failing one was counted.
CompleteExploration ==
    exit = "exhausted" /\ ~ gaveUp =>
        /\ executed = Feasible
        /\ errors_found = Cardinality(ErrorPaths(Feasible))

\* Test cases of distinct paths never overwrite one another: an executed path
\* that failed, or any executed path with SYMEX_DUMPALL, has a complete file
\* that takes it, unless the process was killed while dumping that very path.
HasTestCase(p) ==
    \E n \in DOMAIN files :
        /\ files[n].complete
        /\ PathOf(files[n].input) = p
        /\ n[2] = IF IsError(p) THEN "error" ELSE "plain"

BeingDumped(p) ==
    /\ p = PathOf(cur) /\ ~ IsError(p)
    /\ phase \in {"open", "write"} \/ exit \in {"alarm", "abort"}

TestCasesKept ==
    prog.sym => \A p \in executed :
        env.dumpall \/ IsError(p) => HasTestCase(p) \/ BeingDumped(p)

\* SYMEX_ERREXIT: after the first error no further simulation is started, not
\* even when the error left no test case because nothing was symbolic.
FirstErrorIsLast ==
    env.errexit /\ errors_found > 0 =>
        errors_found = 1 /\ phase \notin {"loop", "sim"}

\* "Found error, use <file> to reproduce": replaying an error file fails again,
\* replaying another file succeeds, and only a file that the alarm cut off is
\* unreadable.
ReplayReproduces ==
    /\ replayed[1] = "error" => replayed[2] \in {"fail", "unreadable"}
    /\ replayed[1] = "plain" => replayed[2] \in {"ok", "unreadable"}
    /\ replayed[2] = "unreadable" => exit = "alarm"

\* The exploration of a program with finitely many finite paths ends.
Termination == <>(phase = "ended")

=============================================================================
