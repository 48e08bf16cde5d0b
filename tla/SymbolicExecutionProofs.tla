----------------------- MODULE SymbolicExecutionProofs -----------------------
(***************************************************************************)
(* Theorems about symbolic execution.                                      *)
(*                                                                         *)
(* The path exploration, for every set of programs that satisfies          *)
(* ProgramsAssumption and every setting of the switches.                   *)
(*                                                                         *)
(* The concolic data path, for every byte width, number of registers,      *)
(* memory layout, set of inputs and sequence of instructions that satisfy  *)
(* the assumptions of Concolic and MCConcolic: what the simulator computes *)
(* is, for every input that satisfies the path condition, what the machine *)
(* of the manual computes.  That every such input takes the same path is   *)
(* what the exploration rests on: there, a program is a function from      *)
(* inputs to paths.                                                        *)
(***************************************************************************)
EXTENDS SymbolicExploreRefinement, MCConcolic, WellFoundedInduction, FiniteSetTheorems, TLAPS

-----------------------------------------------------------------------------
(* The inductive invariant. *)

Simulating == {"loop", "sim", "openErr", "writeErr", "ran"}

\* The current values take a path that was not executed before.
Fresh == phase \in Simulating => PathOf(cur) \notin executed

\* The counter agrees with the trace.
Counted == IsFiniteSet(executed) /\ paths_found = Cardinality(executed)

\* A negation was discarded because no input takes it, or a query was given up.
RefutedSound ==
    ~ gaveUp => \A r \in refuted : Solutions(r[1], r[2]) = {}

\* The process ended if and only if it has a way it ended; the loop ends by
\* itself only after some path was executed and with every negation settled.
Ended ==
    /\ phase = "ended" <=> exit # "running"
    /\ phase \in {"open", "write", "solve"} => executed # {}
    /\ exit = "exhausted" =>
          /\ executed # {}
          /\ \A p \in executed : \A k \in 1..Len(p) : ~ OpenFlip(p, k)

\* While the exploration runs, errors_found counts the failing paths executed,
\* and the running one once its error was reported.
Pending ==
    IF phase \in {"openErr", "writeErr", "ran"} /\ prog.outcome[cur] = "error"
    THEN 1 ELSE 0

ErrorsCounted ==
    exit \in {"running", "exhausted"} =>
        errors_found = Cardinality(ErrorPaths(executed)) + Pending

\* With SYMEX_ERREXIT the loop survives the first error only in a program
\* without symbolic inputs, which has no second path.
ErrExit ==
    env.errexit /\ errors_found > 0 =>
        /\ errors_found = 1 /\ phase \notin {"loop", "sim"}
        /\ phase \in {"ran", "open", "write", "solve"} => ~ prog.sym

Inv ==
    /\ TypeOK /\ Fresh /\ Counted /\ RefutedSound /\ Ended
    /\ ErrorsCounted /\ ErrExit

\* The initial states are well typed.
LEMMA InitTypeOK == Init => TypeOK
  <1> SUFFICES ASSUME Init PROVE TypeOK
    OBVIOUS
  <1>1. prog \in Programs /\ env \in Environments /\ cur \in prog.inputs
    BY DEF Init
  <1>2. phase \in Phases /\ exit \in Exits /\ gaveUp \in BOOLEAN
    BY DEF Init, Phases, Exits
  <1>3. executed \subseteq Feasible /\ refuted \subseteq (executed \X Nat)
    BY DEF Init
  <1>4. paths_found \in Nat /\ errors_found \in Nat /\ prev_error \in Nat
    BY DEF Init
  <1>5. /\ DOMAIN files \subseteq FileNames
        /\ \A n \in DOMAIN files : files[n] \in FileRecords
        /\ dir \in BOOLEAN
    BY DEF Init, create_testdir, NoFiles
  <1>6. replayed \in ({"none", "error", "plain"}
                       \X {"none", "ok", "fail", "unreadable"})
    BY DEF Init, NotReplayed
  <1> QED
    BY <1>1, <1>2, <1>3, <1>4, <1>5, <1>6 DEF TypeOK

\* A file name is a path number and a kind.
LEMMA FileNameType ==
  ASSUME TypeOK PROVE FileName \in FileNames
  BY DEF TypeOK, FileName, FileNames

\* Values that negate a branch are values of the program's inputs.
LEMMA SolutionsType ==
  ASSUME NEW p, NEW k PROVE Solutions(p, k) \subseteq prog.inputs
  BY DEF Solutions

\* Every step of the exploration preserves the types.
LEMMA NextTypeOK == TypeOK /\ [Next]_vars => TypeOK'
  <1> SUFFICES ASSUME TypeOK, [Next]_vars PROVE TypeOK'
    OBVIOUS
  <1> USE DEF setup, trace, counters
  <1>1. CASE StartSimulation
    BY <1>1 DEF TypeOK, StartSimulation, Phases, Feasible, PathOf, FileRecords
  <1>2. CASE SimulationExits
    BY <1>2 DEF TypeOK, SimulationExits, Phases, Feasible, PathOf, FileRecords
  <1>3. CASE SimulationReportsError
    BY <1>3 DEF TypeOK, SimulationReportsError, Phases, Feasible, PathOf, FileRecords
  <1>4. CASE SimulationFails
    BY <1>4 DEF TypeOK, SimulationFails, Exit, remove_testdir, Phases, Exits,
                Feasible, PathOf, FileRecords
  <1>5. CASE OpenFile
    <2>1. FileName \in FileNames
      BY FileNameType
    <2>2. [input |-> cur, complete |-> FALSE] \in FileRecords'
      BY <1>5 DEF OpenFile, TypeOK, FileRecords
    <2>3. FileRecords' = FileRecords
      BY <1>5 DEF OpenFile, FileRecords
    <2>4. /\ DOMAIN files' \subseteq FileNames
          /\ \A n \in DOMAIN files' : files'[n] \in FileRecords'
      BY <1>5, <2>1, <2>2, <2>3 DEF OpenFile, TypeOK
    <2> QED
      BY <1>5, <2>4 DEF OpenFile, TypeOK, Phases, Feasible, PathOf
  <1>6. CASE OpenFails
    BY <1>6 DEF TypeOK, OpenFails, Exit, Kill, remove_testdir, Phases, Exits,
                Feasible, PathOf, FileRecords
  <1>7. CASE WriteErrorFile
    <2>1. [input |-> cur, complete |-> TRUE] \in FileRecords'
      BY <1>7 DEF WriteErrorFile, TypeOK, FileRecords
    <2>2. /\ DOMAIN files' \subseteq FileNames
          /\ \A n \in DOMAIN files' : files'[n] \in FileRecords'
      BY <1>7, <2>1 DEF WriteErrorFile, Completed, TypeOK, FileRecords
    <2> QED
      BY <1>7, <2>2 DEF WriteErrorFile, Exit, remove_testdir, TypeOK, Phases,
                        Exits, Feasible, PathOf
  <1>8. CASE WriteFile
    <2>1. [input |-> cur, complete |-> TRUE] \in FileRecords'
      BY <1>8 DEF WriteFile, TypeOK, FileRecords
    <2>2. /\ DOMAIN files' \subseteq FileNames
          /\ \A n \in DOMAIN files' : files'[n] \in FileRecords'
      BY <1>8, <2>1 DEF WriteFile, Completed, TypeOK, FileRecords
    <2> QED
      BY <1>8, <2>2 DEF WriteFile, TypeOK, Phases, Feasible, PathOf
  <1>9. CASE CountPath
    BY <1>9 DEF TypeOK, CountPath, Phases, Feasible, PathOf, FileRecords
  <1>10. CASE NegateSat
    BY <1>10, SolutionsType
       DEF TypeOK, NegateSat, Phases, Feasible, PathOf, FileRecords
  <1>11. CASE NegateUnsat
    BY <1>11 DEF TypeOK, NegateUnsat, Discard, Feasible, PathOf, FileRecords
  <1>12. CASE NegateTimeout
    BY <1>12 DEF TypeOK, NegateTimeout, Discard, Feasible, PathOf, FileRecords
  <1>13. CASE NoNewPath
    BY <1>13 DEF TypeOK, NoNewPath, Exit, remove_testdir, Phases, Exits,
                 Feasible, PathOf, FileRecords
  <1>14. CASE Sigalrm
    BY <1>14 DEF TypeOK, Sigalrm, Kill, Phases, Exits, Feasible, PathOf,
                 FileRecords
  <1>15. CASE RunTest
    BY <1>15 DEF TypeOK, RunTest, ReplayResult, FileNames, Feasible, PathOf,
                 FileRecords
  <1>16. CASE UNCHANGED vars
    BY <1>16 DEF TypeOK, vars, Feasible, PathOf, FileRecords
  <1> QED
    BY <1>1, <1>2, <1>3, <1>4, <1>5, <1>6, <1>7, <1>8, <1>9, <1>10, <1>11,
       <1>12, <1>13, <1>14, <1>15, <1>16 DEF Next, Step

\* The state of the exploration always has its types: the values of the current
\* run belong to the program, the trace holds feasible paths only, and a test
\* case file holds values of the program's inputs.
THEOREM TypeCorrect == Spec => []TypeOK
  BY InitTypeOK, NextTypeOK, PTL DEF Spec

-----------------------------------------------------------------------------
(* Facts about paths. *)

\* What ProgramsAssumption says of the program under test.
LEMMA ProgFacts ==
  ASSUME TypeOK
  PROVE  /\ IsFiniteSet(prog.inputs)
         /\ prog.path \in [prog.inputs -> Seq(BOOLEAN)]
         /\ prog.outcome \in [prog.inputs -> Outcomes]
         /\ \A i, j \in prog.inputs :
               \/ PathOf(i) = PathOf(j) /\ prog.outcome[i] = prog.outcome[j]
               \/ /\ prog.sym
                  /\ \E k \in 1..Len(PathOf(i)) : Negates(PathOf(j), PathOf(i), k)
  BY ProgramsAssumption DEF TypeOK, IsProgram, PathOf

\* Whether a path fails does not depend on the values that take it.
LEMMA ErrorOnPath ==
  ASSUME TypeOK, NEW i \in prog.inputs
  PROVE  IsError(PathOf(i)) <=> prog.outcome[i] = "error"
  <1>1. ASSUME NEW j \in prog.inputs, PathOf(j) = PathOf(i)
        PROVE  prog.outcome[j] = prog.outcome[i]
    BY <1>1, ProgFacts DEF Negates
  <1> QED
    BY <1>1 DEF IsError

\* The failing paths after a path was added to the trace.
LEMMA ErrorPathsAdd ==
  ASSUME NEW P, NEW p
  PROVE  ErrorPaths(P \cup {p}) =
            IF IsError(p) THEN ErrorPaths(P) \cup {p} ELSE ErrorPaths(P)
  BY DEF ErrorPaths

\* The failing paths are among the given ones, so there are finitely many.
LEMMA ErrorPathsFinite ==
  ASSUME NEW P, IsFiniteSet(P)
  PROVE  IsFiniteSet(ErrorPaths(P)) /\ Cardinality(ErrorPaths(P)) \in Nat
  <1>1. ErrorPaths(P) \in SUBSET P
    BY DEF ErrorPaths
  <1> QED
    BY <1>1, FS_Subset, FS_CardinalityType

-----------------------------------------------------------------------------
(* The inductive invariant holds. *)

\* The inductive invariant holds in the initial states.
LEMMA InitInv == Init => Inv
  <1> SUFFICES ASSUME Init PROVE Inv
    OBVIOUS
  <1>1. TypeOK
    BY InitTypeOK
  <1>2. Fresh /\ RefutedSound /\ Ended /\ ErrExit
    BY DEF Init, Fresh, RefutedSound, Ended, ErrExit
  <1>3. Counted
    BY FS_EmptySet DEF Init, Counted
  <1>4. ErrorsCounted
    <2>1. ErrorPaths(executed) = {}
      BY DEF Init, ErrorPaths
    <2> QED
      BY <2>1, FS_EmptySet DEF Init, ErrorsCounted, Pending
  <1> QED
    BY <1>1, <1>2, <1>3, <1>4 DEF Inv

\* Steps that leave the trace and the values alone keep the named part of the
\* state the invariant speaks about.
LEMMA SameTrace ==
  ASSUME Inv, UNCHANGED <<prog, cur, executed, refuted, gaveUp, paths_found>>
  PROVE  Counted' /\ RefutedSound' /\ ErrorPaths(executed)' = ErrorPaths(executed)
         /\ \A p, k : OpenFlip(p, k)' <=> OpenFlip(p, k)
  BY DEF Inv, Counted, RefutedSound, Solutions, PathOf, ErrorPaths, IsError,
         OpenFlip

\* Every step of the exploration preserves the inductive invariant.
LEMMA NextInv == Inv /\ [Next]_vars => Inv'
  <1> SUFFICES ASSUME Inv, [Next]_vars PROVE Inv'
    OBVIOUS
  <1> USE DEF setup, trace, counters
  <1>0. TypeOK'
    BY NextTypeOK DEF Inv
  <1>1. CASE StartSimulation
    <2>1. Counted' /\ RefutedSound' /\ ErrorPaths(executed)' = ErrorPaths(executed)
      BY <1>1, SameTrace DEF StartSimulation
    <2> QED
      BY <1>0, <1>1, <2>1
         DEF StartSimulation, Inv, Fresh, Ended, ErrorsCounted, Pending,
             ErrExit, PathOf, Simulating
  <1>2. CASE SimulationExits
    <2>1. Counted' /\ RefutedSound' /\ ErrorPaths(executed)' = ErrorPaths(executed)
      BY <1>2, SameTrace DEF SimulationExits
    <2> QED
      BY <1>0, <1>2, <2>1
         DEF SimulationExits, Inv, Fresh, Ended, ErrorsCounted, Pending,
             ErrExit, PathOf, Simulating
  <1>3. CASE SimulationReportsError
    <2>1. Counted' /\ RefutedSound' /\ ErrorPaths(executed)' = ErrorPaths(executed)
      BY <1>3, SameTrace DEF SimulationReportsError
    <2>2. Fresh' /\ Ended'
      BY <1>3 DEF SimulationReportsError, Inv, Fresh, Ended, PathOf, Simulating
    <2>3. ErrorsCounted'
      <3>1. Cardinality(ErrorPaths(executed)) \in Nat
        BY ErrorPathsFinite DEF Inv, Counted
      <3> QED
        BY <1>3, <2>1, <3>1
           DEF SimulationReportsError, Inv, Ended, ErrorsCounted, Pending
    <2>4. ErrExit'
      BY <1>3 DEF SimulationReportsError, Inv, TypeOK, ErrExit
    <2> QED
      BY <1>0, <2>1, <2>2, <2>3, <2>4 DEF Inv
  <1>4. CASE SimulationFails
    <2>1. Counted' /\ RefutedSound'
      BY <1>4, SameTrace DEF SimulationFails
    <2> QED
      BY <1>0, <1>4, <2>1
         DEF SimulationFails, Exit, Inv, Fresh, Ended, ErrorsCounted, Simulating,
             ErrExit
  <1>5. CASE OpenFile
    <2>1. Counted' /\ RefutedSound' /\ ErrorPaths(executed)' = ErrorPaths(executed)
      BY <1>5, SameTrace DEF OpenFile
    <2> QED
      BY <1>0, <1>5, <2>1
         DEF OpenFile, Inv, Fresh, Ended, ErrorsCounted, Pending, ErrExit,
             PathOf, Simulating
  <1>6. CASE OpenFails
    <2>1. Counted' /\ RefutedSound'
      BY <1>6, SameTrace DEF OpenFails
    <2> QED
      BY <1>0, <1>6, <2>1
         DEF OpenFails, Exit, Kill, Inv, Fresh, Ended, ErrorsCounted, Simulating,
             ErrExit
  <1>7. CASE WriteErrorFile
    <2>1. Counted' /\ RefutedSound' /\ ErrorPaths(executed)' = ErrorPaths(executed)
      BY <1>7, SameTrace DEF WriteErrorFile
    <2>2. CASE ExitsOnError
      BY <1>0, <1>7, <2>1, <2>2
         DEF WriteErrorFile, Exit, Inv, Fresh, Ended, ErrorsCounted, Simulating,
             ErrExit
    <2>3. CASE ~ ExitsOnError
      BY <1>0, <1>7, <2>1, <2>3
         DEF WriteErrorFile, ExitsOnError, Inv, Fresh, Ended, ErrorsCounted,
             Pending, ErrExit, PathOf, Simulating
    <2> QED
      BY <2>2, <2>3
  <1>8. CASE WriteFile
    <2>1. Counted' /\ RefutedSound' /\ ErrorPaths(executed)' = ErrorPaths(executed)
      BY <1>8, SameTrace DEF WriteFile
    <2> QED
      BY <1>0, <1>8, <2>1
         DEF WriteFile, Inv, Fresh, Ended, ErrorsCounted, Pending, ErrExit,
             PathOf, Simulating
  <1>9. CASE CountPath
    <2>1. PathOf(cur) \notin executed
      BY <1>9 DEF CountPath, Inv, Fresh, Simulating
    <2>2. Counted'
      BY <1>9, <2>1, FS_AddElement DEF CountPath, Inv, Counted
    <2>3. Fresh' /\ RefutedSound' /\ Ended'
      BY <1>9 DEF CountPath, Inv, Fresh, RefutedSound, Ended, Solutions, PathOf,
                  Simulating
    <2>4. ErrorsCounted'
      <3>1. IsFiniteSet(ErrorPaths(executed))
            /\ Cardinality(ErrorPaths(executed)) \in Nat
        BY ErrorPathsFinite DEF Inv, Counted
      <3>2. ErrorPaths(executed)' =
              IF prog.outcome[cur] = "error"
              THEN ErrorPaths(executed) \cup {PathOf(cur)}
              ELSE ErrorPaths(executed)
        <4>1. ErrorPaths(executed)' = ErrorPaths(executed \cup {PathOf(cur)})
          BY <1>9 DEF CountPath, ErrorPaths, IsError, PathOf
        <4>2. IsError(PathOf(cur)) <=> prog.outcome[cur] = "error"
          BY ErrorOnPath DEF Inv, TypeOK
        <4> QED
          BY <4>1, <4>2, ErrorPathsAdd
      <3>3. PathOf(cur) \notin ErrorPaths(executed)
        BY <2>1 DEF ErrorPaths
      <3>4. Cardinality(ErrorPaths(executed) \cup {PathOf(cur)})
              = Cardinality(ErrorPaths(executed)) + 1
        BY <3>1, <3>3, FS_AddElement
      <3>5. exit = "running" /\ Pending' = 0
        BY <1>9 DEF CountPath, Inv, TypeOK, Ended, Pending
      <3>6. errors_found = Cardinality(ErrorPaths(executed)) + Pending
        BY <3>5 DEF Inv, ErrorsCounted
      <3>7. Pending = IF prog.outcome[cur] = "error" THEN 1 ELSE 0
        BY <1>9 DEF CountPath, Pending
      <3>8. errors_found' = Cardinality(ErrorPaths(executed)')
        BY <1>9, <3>1, <3>2, <3>4, <3>6, <3>7 DEF CountPath
      <3>9. Cardinality(ErrorPaths(executed)') \in Nat
        BY <3>1, <3>2, <3>4
      <3> QED
        BY <3>5, <3>8, <3>9 DEF ErrorsCounted
    <2>5. ErrExit'
      BY <1>9 DEF CountPath, Inv, ErrExit
    <2> QED
      BY <1>0, <2>2, <2>3, <2>4, <2>5 DEF Inv
  <1>10. CASE NegateSat
    <2>0. PICK p \in executed : \E k \in 1..Len(p) :
            OpenFlip(p, k) /\ cur' \in Solutions(p, k)
      BY <1>10 DEF NegateSat
    <2>1. PICK k \in 1..Len(p) : OpenFlip(p, k) /\ cur' \in Solutions(p, k)
      BY <2>0
    <2>2. cur' \in prog.inputs /\ Negates(PathOf(cur'), p, k)
      BY <2>1 DEF Solutions
    <2>3. PathOf(cur') \notin executed
      BY <2>1, <2>2 DEF OpenFlip
    <2>4. PathOf(cur)' = PathOf(cur')
      BY <1>10 DEF NegateSat, PathOf
    <2>5. Counted' /\ RefutedSound'
      BY <1>10 DEF NegateSat, Inv, Counted, RefutedSound, Solutions, PathOf
    <2>6. Fresh' /\ Ended'
      BY <1>10, <2>3, <2>4 DEF NegateSat, Inv, Fresh, Ended
    <2>7. ErrorsCounted'
      <3>1. ErrorPaths(executed)' = ErrorPaths(executed)
        BY <1>10 DEF NegateSat, ErrorPaths, IsError, PathOf
      <3> QED
        BY <1>10, <3>1 DEF NegateSat, Inv, Ended, ErrorsCounted, Pending
    <2>8. ErrExit'
      <3>1. PICK i \in prog.inputs : p = PathOf(i)
        BY DEF Inv, TypeOK, Feasible
      <3>2. prog.sym
        BY <2>2, <3>1, ProgFacts DEF Inv, Negates
      <3> QED
        BY <1>10, <3>2 DEF NegateSat, Inv, ErrExit
    <2> QED
      BY <1>0, <2>5, <2>6, <2>7, <2>8 DEF Inv
  <1>11. CASE NegateUnsat
    <2>0. PICK p \in executed : \E k \in 1..Len(p) :
            Solutions(p, k) = {} /\ refuted' = refuted \cup {<<p, k>>}
      BY <1>11 DEF NegateUnsat, Refutes, Discard
    <2>1. PICK k \in 1..Len(p) :
            Solutions(p, k) = {} /\ refuted' = refuted \cup {<<p, k>>}
      BY <2>0
    <2>2. RefutedSound'
      BY <1>11, <2>1 DEF NegateUnsat, Inv, RefutedSound, Solutions, PathOf
    <2>3. ErrorPaths(executed)' = ErrorPaths(executed)
      BY <1>11 DEF NegateUnsat, ErrorPaths, IsError, PathOf
    <2> QED
      BY <1>0, <1>11, <2>2, <2>3
         DEF NegateUnsat, Inv, Fresh, Counted, Ended, ErrorsCounted, Pending,
             ErrExit, PathOf, Simulating
  <1>12. CASE NegateTimeout
    <2>1. ErrorPaths(executed)' = ErrorPaths(executed)
      BY <1>12 DEF NegateTimeout, ErrorPaths, IsError, PathOf
    <2> QED
      BY <1>0, <1>12, <2>1
         DEF NegateTimeout, Inv, Fresh, Counted, RefutedSound, Ended,
             ErrorsCounted, Pending, ErrExit, PathOf, Simulating
  <1>13. CASE NoNewPath
    <2>1. /\ Counted' /\ RefutedSound'
          /\ ErrorPaths(executed)' = ErrorPaths(executed)
          /\ \A p, k : OpenFlip(p, k)' <=> OpenFlip(p, k)
      BY <1>13, SameTrace DEF NoNewPath
    <2>2. Ended'
      BY <1>13, <2>1 DEF NoNewPath, Exit, Inv, Ended
    <2> QED
      BY <1>0, <1>13, <2>1, <2>2
         DEF NoNewPath, Exit, Inv, Fresh, ErrorsCounted, Pending, ErrExit,
             Ended, Simulating
  <1>14. CASE Sigalrm
    <2>1. Counted' /\ RefutedSound'
      BY <1>14, SameTrace DEF Sigalrm
    <2> QED
      BY <1>0, <1>14, <2>1
         DEF Sigalrm, Kill, Inv, Fresh, Ended, ErrorsCounted, ErrExit, Simulating
  <1>15. CASE RunTest
    <2>1. /\ Counted' /\ RefutedSound'
          /\ ErrorPaths(executed)' = ErrorPaths(executed)
          /\ \A p, k : OpenFlip(p, k)' <=> OpenFlip(p, k)
      BY <1>15, SameTrace DEF RunTest
    <2>2. Ended'
      BY <1>15, <2>1 DEF RunTest, Inv, Ended
    <2> QED
      BY <1>0, <1>15, <2>1, <2>2
         DEF RunTest, Inv, Fresh, ErrorsCounted, Pending, ErrExit, Simulating
  <1>16. CASE UNCHANGED vars
    <2>1. /\ Counted' /\ RefutedSound'
          /\ ErrorPaths(executed)' = ErrorPaths(executed)
          /\ \A p, k : OpenFlip(p, k)' <=> OpenFlip(p, k)
      BY <1>16, SameTrace DEF vars
    <2>2. Ended'
      BY <1>16, <2>1 DEF vars, Inv, Ended
    <2> QED
      BY <1>0, <1>16, <2>1, <2>2
         DEF vars, Inv, Fresh, ErrorsCounted, Pending, ErrExit, PathOf
  <1> QED
    BY <1>1, <1>2, <1>3, <1>4, <1>5, <1>6, <1>7, <1>8, <1>9, <1>10, <1>11,
       <1>12, <1>13, <1>14, <1>15, <1>16 DEF Next, Step

\* The inductive invariant holds in every reachable state.
LEMMA Invariance == Spec => []Inv
  BY InitInv, NextInv, PTL DEF Spec

\* The number printed as "Unique paths found" is the number of distinct paths
\* executed, whatever the solver answers.
THEOREM UniquePaths == Spec => []UniquePathsFound
  <1>1. Inv => UniquePathsFound
    BY DEF Inv, Counted, UniquePathsFound
  <1> QED
    BY <1>1, Invariance, PTL

\* With SYMEX_ERREXIT no simulation starts after the first error.
THEOREM ErrorIsLast == Spec => []FirstErrorIsLast
  <1>1. Inv => FirstErrorIsLast
    BY DEF Inv, ErrExit, FirstErrorIsLast
  <1> QED
    BY <1>1, Invariance, PTL

-----------------------------------------------------------------------------
(* Completeness: the argument about the longest agreement with an executed *)
(* path.                                                                   *)

\* A non-empty set of naturals has a least element.
LEMMA Least ==
  ASSUME NEW Z, Z \subseteq Nat, Z # {}
  PROVE  \E x \in Z : \A y \in Z : x <= y
  <1>1. PICK x \in Z : \A y \in Z : ~ (<<y, x>> \in OpToRel(<, Nat))
    BY WFMin, NatLessThanWellFounded
  <1>2. ASSUME NEW y \in Z PROVE x <= y
    <2>1. x \in Nat /\ y \in Nat /\ ~ (y < x)
      BY <1>1 DEF OpToRel
    <2> QED
      BY <2>1
  <1> QED
    BY <1>2

\* A non-empty bounded set of naturals has a greatest element: its distance from
\* the bound is least.
LEMMA Greatest ==
  ASSUME NEW n \in Nat, NEW Z, Z \subseteq 0..n, Z # {}
  PROVE  \E x \in Z : \A y \in Z : y <= x
  <1>1. PICK t \in {n - y : y \in Z} : \A u \in {n - y : y \in Z} : t <= u
    <2>1. {n - y : y \in Z} # {}
      OBVIOUS
    <2>2. ASSUME NEW y \in Z PROVE n - y \in Nat
      OBVIOUS
    <2>3. {n - y : y \in Z} \subseteq Nat
      BY <2>2
    <2> QED
      BY <2>1, <2>3, Least
  <1>2. PICK x \in Z : t = n - x
    BY <1>1
  <1>3. ASSUME NEW y \in Z PROVE y <= x
    <2>1. t <= n - y /\ x \in 0..n /\ y \in 0..n
      BY <1>1
    <2> QED
      BY <1>2, <2>1
  <1> QED
    BY <1>3

\* When every negation of every executed path is settled and no query was given
\* up, an input on a path that was not executed would have a longest agreement
\* with an executed path, and the negation of the next branch would be open.
LEMMA Exhaustive ==
  ASSUME Inv, exit = "exhausted", ~ gaveUp
  PROVE  executed = Feasible
  <1> SUFFICES ASSUME NEW i \in prog.inputs, PathOf(i) \notin executed
               PROVE  FALSE
    BY DEF Inv, TypeOK, Feasible
  <1> DEFINE n == Len(PathOf(i))
             K == {k \in 0..n : \E q \in executed : Negates(PathOf(i), q, k)}
  <1>1. \A j \in prog.inputs : PathOf(j) \in Seq(BOOLEAN)
    BY ProgFacts DEF Inv, PathOf
  <1>2. n \in Nat
    BY <1>1
  <1>3. ASSUME NEW q \in executed
        PROVE  \E k \in 1..Len(q) : Negates(PathOf(i), q, k)
    <2>1. PICK j \in prog.inputs : q = PathOf(j)
      BY <1>3 DEF Inv, TypeOK, Feasible
    <2>2. q # PathOf(i)
      BY <1>3
    <2> QED
      BY <2>1, <2>2, ProgFacts DEF Inv
  <1>4. \A q \in executed : q \in Seq(BOOLEAN)
    BY <1>1 DEF Inv, TypeOK, Feasible
  <1>5. K # {}
    <2>1. PICK q \in executed : TRUE
      BY DEF Inv, Ended
    <2>2. PICK k \in 1..Len(q) : Negates(PathOf(i), q, k)
      BY <1>3, <2>1
    <2>3. k \in 0..n
      BY <1>2, <1>4, <2>2 DEF Negates
    <2> QED
      BY <2>2, <2>3
  <1>6. PICK k \in K : \A m \in K : m <= k
    <2> HIDE DEF n
    <2>1. K \subseteq 0..n
      OBVIOUS
    <2> HIDE DEF K
    <2> QED
      BY <1>2, <1>5, <2>1, Greatest
  <1>7. PICK q \in executed : Negates(PathOf(i), q, k)
    OBVIOUS
  <1>8. k \in 1..Len(q) /\ k \in Nat /\ Len(q) \in Nat
    BY <1>2, <1>4, <1>7 DEF Negates
  <1>9. ~ OpenFlip(q, k)
    BY <1>8 DEF Inv, Ended
  <1>10. CASE \E p \in executed : Negates(p, q, k)
    <2>1. PICK p \in executed : Negates(p, q, k)
      BY <1>10
    <2>2. PICK m \in 1..Len(p) : Negates(PathOf(i), p, m)
      BY <1>3
    <2>3. /\ p \in Seq(BOOLEAN) /\ q \in Seq(BOOLEAN)
          /\ PathOf(i) \in Seq(BOOLEAN)
      BY <1>1, <1>4
    <2>4. \A j \in 1..k : p[j] = PathOf(i)[j]
      <3>1. \A j \in 1..(k - 1) : p[j] = PathOf(i)[j]
        BY <1>7, <2>1 DEF Negates
      <3>2. p[k] = PathOf(i)[k]
        <4>1. k \in 1..Len(p) /\ k \in 1..Len(PathOf(i)) /\ k \in 1..Len(q)
          BY <1>7, <1>8, <2>1, <2>3 DEF Negates
        <4>2. /\ p[k] \in BOOLEAN /\ q[k] \in BOOLEAN
              /\ PathOf(i)[k] \in BOOLEAN
          BY <2>3, <4>1
        <4>3. p[k] # q[k] /\ PathOf(i)[k] # q[k]
          BY <1>7, <2>1 DEF Negates
        <4> QED
          BY <4>2, <4>3
      <3> QED
        BY <1>8, <3>1, <3>2
    <2>5. m > k
      BY <1>8, <2>2, <2>3, <2>4 DEF Negates
    <2>6. m \in K
      BY <1>2, <2>2, <2>3 DEF Negates
    <2> QED
      BY <1>6, <1>8, <2>3, <2>5, <2>6
  <1>11. CASE \E r \in refuted : r[2] = k /\ Agree(r[1], q, k)
    <2>1. PICK r \in refuted : r[2] = k /\ Agree(r[1], q, k)
      BY <1>11
    <2>2. r[1] \in executed
      BY DEF Inv, TypeOK
    <2>3. Negates(PathOf(i), r[1], r[2])
      <3>1. k \in 1..Len(r[1]) /\ k <= Len(PathOf(i))
        BY <1>4, <1>7, <1>8, <2>1, <2>2 DEF Negates, Agree
      <3>2. \A j \in 1..k : r[1][j] = q[j]
        BY <2>1 DEF Agree
      <3>3. /\ \A j \in 1..(k - 1) : q[j] = PathOf(i)[j]
            /\ PathOf(i)[k] # q[k]
        BY <1>7 DEF Negates
      <3>4. \A j \in 1..(k - 1) : r[1][j] = PathOf(i)[j]
        BY <1>8, <3>2, <3>3
      <3>5. PathOf(i)[k] # r[1][k]
        BY <1>8, <3>2, <3>3
      <3> QED
        BY <2>1, <3>1, <3>4, <3>5 DEF Negates
    <2>4. Solutions(r[1], r[2]) = {}
      BY DEF Inv, RefutedSound
    <2> QED
      BY <2>3, <2>4 DEF Solutions
  <1> QED
    BY <1>9, <1>10, <1>11 DEF OpenFlip

\* The inductive invariant implies completeness.
LEMMA InvComplete == Inv => CompleteExploration
  <1> SUFFICES ASSUME Inv, exit = "exhausted", ~ gaveUp
               PROVE  /\ executed = Feasible
                      /\ errors_found = Cardinality(ErrorPaths(Feasible))
    BY DEF CompleteExploration
  <1>1. executed = Feasible
    BY Exhaustive
  <1>2. phase = "ended"
    BY DEF Inv, Ended
  <1>3. Cardinality(ErrorPaths(executed)) \in Nat
    BY ErrorPathsFinite DEF Inv, Counted
  <1>4. errors_found = Cardinality(ErrorPaths(executed)) + Pending
    BY DEF Inv, ErrorsCounted
  <1>5. Pending = 0
    BY <1>2 DEF Pending
  <1> QED
    BY <1>1, <1>3, <1>4, <1>5

\* An exploration that ends by itself, with no query given up, has executed
\* every feasible path of the program and counted every failing one.
THEOREM Completeness == Spec => []CompleteExploration
  BY InvComplete, Invariance, PTL

-----------------------------------------------------------------------------
(* Refinement. *)

\* A step that neither runs a path to its end nor ends the process is a stutter
\* of PathCoverage.
LEMMA Stutters ==
  ASSUME UNCHANGED <<prog, executed, paths_found, exit>>,
         exit = "running" \/ UNCHANGED gaveUp
  PROVE  UNCHANGED Coverage!vars
  BY DEF Coverage!vars, Verdict, Feasible, PathOf

\* Ending the process for another reason than an exhausted trace is giving up.
LEMMA GivesUp ==
  ASSUME UNCHANGED <<prog, executed, paths_found, gaveUp>>,
         exit = "running", exit' \in {"errexit", "simfail", "abort", "alarm"}
  PROVE  Coverage!Next
  <1>1. Verdict = "running"
    BY DEF Verdict
  <1>2. Verdict' = "partial"
    BY DEF Verdict
  <1>3. UNCHANGED <<Feasible, executed, paths_found>>
    BY DEF Feasible, PathOf
  <1> QED
    BY <1>1, <1>2, <1>3 DEF Coverage!Next, Coverage!GiveUp

\* Every step of the exploration is a step of PathCoverage or a stutter.
LEMMA StepRefines == Inv /\ [Next]_vars => [Coverage!Next]_(Coverage!vars)
  <1> SUFFICES ASSUME Inv, [Next]_vars
               PROVE  Coverage!Next \/ UNCHANGED Coverage!vars
    OBVIOUS
  <1> USE DEF setup, trace, counters
  <1>0. phase # "ended" => exit = "running"
    BY DEF Inv, Ended
  <1>1. CASE \/ StartSimulation \/ SimulationExits \/ SimulationReportsError
             \/ OpenFile \/ WriteFile
    BY <1>1, Stutters
       DEF StartSimulation, SimulationExits, SimulationReportsError, OpenFile,
           WriteFile
  <1>2. CASE SimulationFails
    BY <1>0, <1>2, GivesUp DEF SimulationFails, Exit
  <1>3. CASE OpenFails
    BY <1>0, <1>3, GivesUp DEF OpenFails, Exit, Kill
  <1>4. CASE WriteErrorFile
    <2>1. CASE ExitsOnError
      BY <1>0, <1>4, <2>1, GivesUp DEF WriteErrorFile, Exit
    <2>2. CASE ~ ExitsOnError
      BY <1>4, <2>2, Stutters DEF WriteErrorFile
    <2> QED
      BY <2>1, <2>2
  <1>5. CASE CountPath
    <2>1. PathOf(cur) \in Feasible \ executed
      BY <1>5 DEF CountPath, Inv, TypeOK, Fresh, Simulating, Feasible
    <2>2. Verdict = "running" /\ Verdict' = "running"
      BY <1>0, <1>5 DEF CountPath, Verdict
    <2>3. UNCHANGED Feasible
      BY <1>5 DEF CountPath, Feasible, PathOf
    <2> QED
      BY <1>5, <2>1, <2>2, <2>3 DEF CountPath, Coverage!Next, Coverage!Cover
  <1>6. CASE NegateSat \/ NegateUnsat \/ NegateTimeout
    BY <1>0, <1>6, Stutters DEF NegateSat, NegateUnsat, NegateTimeout
  <1>7. CASE NoNewPath
    <2>1. Inv'
      BY NextInv
    <2>2. /\ exit = "running" /\ exit' = "exhausted"
          /\ UNCHANGED <<prog, executed, paths_found, gaveUp>>
      BY <1>0, <1>7 DEF NoNewPath, Exit
    <2>3. UNCHANGED Feasible
      BY <2>2 DEF Feasible, PathOf
    <2>4. Verdict = "running"
      BY <2>2 DEF Verdict
    <2>5. CASE gaveUp
      <3>1. Verdict' = "partial"
        BY <2>2, <2>5 DEF Verdict
      <3> QED
        BY <2>2, <2>3, <2>4, <3>1 DEF Coverage!Next, Coverage!GiveUp
    <2>6. CASE ~ gaveUp
      <3>1. Verdict' = "complete"
        BY <2>2, <2>6 DEF Verdict
      <3>2. CompleteExploration'
        BY <2>1, InvComplete, PTL
      <3>3. executed = Feasible
        BY <2>2, <2>3, <2>6, <3>2 DEF CompleteExploration
      <3> QED
        BY <2>2, <2>3, <2>4, <3>1, <3>3 DEF Coverage!Next, Coverage!Complete
    <2> QED
      BY <2>5, <2>6
  <1>8. CASE Sigalrm
    BY <1>0, <1>8, GivesUp DEF Sigalrm, Kill
  <1>9. CASE RunTest
    BY <1>9, Stutters DEF RunTest
  <1>10. CASE UNCHANGED vars
    BY <1>10, Stutters DEF vars
  <1> QED
    BY <1>1, <1>2, <1>3, <1>4, <1>5, <1>6, <1>7, <1>8, <1>9, <1>10 DEF Next, Step

\* explore_paths implements the safety part of PathCoverage.
THEOREM Refinement ==
  Spec => Coverage!Init /\ [][Coverage!Next]_(Coverage!vars)
  <1>1. Init => Coverage!Init
    BY DEF Init, Coverage!Init, Verdict
  <1> QED
    BY <1>1, Invariance, StepRefines, PTL DEF Spec

-----------------------------------------------------------------------------
(* Test case files. *)

\* What the simulation of the current values has reported so far: errors_found
\* differs from prev_error exactly when it was an error.
Reported ==
    /\ phase = "sim" => prev_error = errors_found
    /\ phase \in {"openErr", "writeErr"} => prog.outcome[cur] = "error" /\ prev_error # errors_found
    /\ phase = "ran" => /\ prog.outcome[cur] \in {"exit", "error"}
                        /\ prev_error = errors_found <=> prog.outcome[cur] = "exit"
    /\ phase \in {"open", "write"} => prog.outcome[cur] = "exit"

\* A file of either kind holds values with that outcome.
KindIsTrue ==
    \A n \in DOMAIN files :
        prog.outcome[files[n].input] = IF n[2] = "error" THEN "error" ELSE "exit"

\* The name of the next file of either kind is not in use.
Unused ==
    \A n \in DOMAIN files :
        /\ n[2] = "error" => n[1] <= paths_found + (IF phase \in {"writeErr", "ran", "ended"} THEN 1 ELSE 0)
        /\ n[2] = "plain" => n[1] <= paths_found - (IF phase = "open" THEN 1 ELSE 0)

\* The file that was opened holds the current values and is not complete.
Writing ==
    phase \in {"writeErr", "write"} =>
        FileName \in DOMAIN files /\ files[FileName] = [input |-> cur, complete |-> FALSE]

\* Only the file being written, or one the alarm cut off, is not complete.
OthersComplete ==
    \A n \in DOMAIN files :
        files[n].complete \/ exit = "alarm" \/ (phase \in {"writeErr", "write"} /\ n = FileName)

\* The test case of a failing path is there before the path is counted.
DumpedBeforeCounted ==
    phase = "ran" /\ prog.sym /\ prog.outcome[cur] = "error" => HasTestCase(PathOf(cur))

FilesInv ==
    /\ Reported /\ KindIsTrue /\ Unused /\ Writing /\ OthersComplete
    /\ DumpedBeforeCounted /\ TestCasesKept


\* A name is the number and the kind of its file.
LEMMA NameParts ==
  ASSUME TypeOK, NEW n \in DOMAIN files
  PROVE  n \in FileNames /\ n[1] \in Nat /\ n[2] \in {"error", "plain"}
  BY DEF TypeOK, FileNames

\* The file to be opened does not exist.
LEMMA NameIsNew ==
  ASSUME TypeOK, Unused, phase \in {"openErr", "open"}
  PROVE  FileName \notin DOMAIN files
  <1> SUFFICES ASSUME FileName \in DOMAIN files PROVE FALSE
    OBVIOUS
  <1>1. paths_found \in Nat
    BY DEF TypeOK
  <1>2. CASE phase = "openErr"
    <2>1. FileName[1] = paths_found + 1 /\ FileName[2] = "error"
      BY <1>2 DEF FileName
    <2>2. FileName[1] <= paths_found + 0
      BY <1>2, <2>1 DEF Unused
    <2> QED
      BY <1>1, <2>1, <2>2
  <1>3. CASE phase = "open"
    <2>1. FileName[1] = paths_found /\ FileName[2] = "plain"
      BY <1>3 DEF FileName
    <2>2. FileName[1] <= paths_found - 1
      BY <1>3, <2>1 DEF Unused
    <2> QED
      BY <1>1, <2>1, <2>2
  <1> QED
    BY <1>2, <1>3

\* A step that leaves every complete file as it is loses no test case.
LEMMA TestCaseStays ==
  ASSUME UNCHANGED prog,
         \A n \in DOMAIN files :
            files[n].complete => n \in DOMAIN files' /\ files'[n] = files[n],
         NEW p, HasTestCase(p)
  PROVE  HasTestCase(p)'
  <1>1. PICK n \in DOMAIN files :
            /\ files[n].complete /\ PathOf(files[n].input) = p
            /\ n[2] = IF IsError(p) THEN "error" ELSE "plain"
    BY DEF HasTestCase
  <1>2. n \in DOMAIN files' /\ files'[n] = files[n]
    BY <1>1
  <1>3. IsError(p)' = IsError(p)
    BY DEF IsError, PathOf
  <1>4. PathOf(files[n].input)' = p
    BY <1>1, <1>2 DEF PathOf
  <1> QED
    BY <1>1, <1>2, <1>3, <1>4 DEF HasTestCase

\* What has a test case or is being dumped stays so while the trace and the
\* current values stay, except that the dump may become a file.
LEMMA KeptStays ==
  ASSUME TestCasesKept, UNCHANGED <<prog, env, executed>>,
         \A n \in DOMAIN files :
            files[n].complete => n \in DOMAIN files' /\ files'[n] = files[n],
         \A p \in executed : BeingDumped(p) => BeingDumped(p)' \/ HasTestCase(p)'
  PROVE  TestCasesKept'
  <1> SUFFICES ASSUME prog.sym, NEW p \in executed, env.dumpall \/ IsError(p)'
               PROVE  HasTestCase(p)' \/ BeingDumped(p)'
    BY DEF TestCasesKept
  <1>1. IsError(p)' = IsError(p)
    BY DEF IsError, PathOf
  <1>2. HasTestCase(p) \/ BeingDumped(p)
    BY <1>1 DEF TestCasesKept
  <1> QED
    BY <1>2, TestCaseStays

\* A step that leaves the files and the number of paths alone, and does not come
\* from or lead to a dump, preserves all that is said of the files.
LEMMA SameFiles ==
  ASSUME TypeOK, FilesInv, UNCHANGED <<prog, files, paths_found>>,
         phase \notin {"writeErr", "write", "ran", "ended"} \/ phase' = "ended",
         phase' \notin {"writeErr", "write", "open"},
         phase' = "ran" => ~ (prog.sym /\ prog.outcome[cur'] = "error"),
         exit = "alarm" \/ phase \in {"writeErr", "write"} => exit' = "alarm"
  PROVE  KindIsTrue' /\ Unused' /\ Writing' /\ OthersComplete' /\ DumpedBeforeCounted'
  <1>1. KindIsTrue' /\ Writing' /\ DumpedBeforeCounted'
    BY DEF FilesInv, KindIsTrue, Writing, DumpedBeforeCounted
  <1>2. Unused'
    <2>1. paths_found \in Nat
      BY DEF TypeOK
    <2>2. ASSUME NEW n \in DOMAIN files
          PROVE  /\ n[2] = "error" => n[1] <= paths_found + (IF phase' \in {"ran", "ended"} THEN 1 ELSE 0)
                 /\ n[2] = "plain" => n[1] <= paths_found - 0
      <3>1. n[1] \in Nat
        BY NameParts
      <3> QED
        BY <2>1, <3>1 DEF FilesInv, Unused
    <2>3. DOMAIN files' = DOMAIN files /\ paths_found' = paths_found
      OBVIOUS
    <2> QED
      BY <2>2, <2>3 DEF Unused
  <1>3. OthersComplete'
    BY DEF FilesInv, OthersComplete
  <1> QED
    BY <1>1, <1>2, <1>3

\* A path is being dumped only in the two phases that dump it, or at the end.
LEMMA NotDumping ==
  ASSUME Inv, phase \notin {"open", "write", "ended"}, NEW p
  PROVE  ~ BeingDumped(p)
  BY DEF Inv, Ended, BeingDumped

\* The file that a dump opens.
LEMMA OpenFileFiles ==
  ASSUME Inv, FilesInv, OpenFile
  PROVE  FilesInv'
  <1> USE DEF setup, trace, counters
  <1>1. TypeOK /\ paths_found \in Nat /\ FileName \notin DOMAIN files
    BY NameIsNew DEF Inv, TypeOK, FilesInv, OpenFile
  <1>2. /\ DOMAIN files' = DOMAIN files \cup {FileName}
        /\ files'[FileName] = [input |-> cur, complete |-> FALSE]
        /\ \A n \in DOMAIN files : n # FileName /\ files'[n] = files[n]
    BY <1>1 DEF OpenFile
  <1>3. /\ UNCHANGED <<prog, env, cur, executed, paths_found, prev_error, errors_found, exit>>
        /\ \/ phase = "openErr" /\ phase' = "writeErr"
           \/ phase = "open" /\ phase' = "write"
    BY DEF OpenFile
  <1>4. FileName' = FileName
    BY <1>3 DEF FileName
  <1>5. \/ phase = "openErr" /\ FileName[1] = paths_found + 1 /\ FileName[2] = "error"
        \/ phase = "open" /\ FileName[1] = paths_found /\ FileName[2] = "plain"
    BY <1>3 DEF FileName
  <1>6. Reported'
    BY <1>3 DEF FilesInv, Reported
  <1>7. KindIsTrue'
    <2>1. prog.outcome[cur] = IF FileName[2] = "error" THEN "error" ELSE "exit"
      BY <1>5 DEF FilesInv, Reported
    <2>2. ASSUME NEW n \in DOMAIN files'
          PROVE  prog.outcome[files'[n].input] = IF n[2] = "error" THEN "error" ELSE "exit"
      BY <1>2, <2>1 DEF FilesInv, KindIsTrue
    <2> QED
      BY <1>3, <2>2 DEF KindIsTrue
  <1>8. Unused'
    <2>1. ASSUME NEW n \in DOMAIN files
          PROVE  /\ n[2] = "error" => n[1] <= paths_found + (IF phase' = "writeErr" THEN 1 ELSE 0)
                 /\ n[2] = "plain" => n[1] <= paths_found - 0
      <3>1. n[1] \in Nat
        BY <1>1, NameParts
      <3> QED
        BY <1>1, <1>3, <3>1 DEF FilesInv, Unused
    <2>2. /\ FileName[2] = "error" => FileName[1] <= paths_found + (IF phase' = "writeErr" THEN 1 ELSE 0)
          /\ FileName[2] = "plain" => FileName[1] <= paths_found - 0
      BY <1>1, <1>3, <1>5
    <2>3. ASSUME NEW n \in DOMAIN files'
          PROVE  /\ n[2] = "error" => n[1] <= paths_found + (IF phase' = "writeErr" THEN 1 ELSE 0)
                 /\ n[2] = "plain" => n[1] <= paths_found - 0
      BY <1>2, <2>1, <2>2
    <2> QED
      BY <1>3, <2>3 DEF Unused
  <1>9. Writing'
    BY <1>2, <1>3, <1>4 DEF Writing
  <1>10. OthersComplete'
    BY <1>2, <1>3, <1>4 DEF FilesInv, OthersComplete
  <1>11. DumpedBeforeCounted'
    BY <1>3 DEF DumpedBeforeCounted
  <1>12. TestCasesKept'
    <2>1. \A p \in executed : BeingDumped(p) => BeingDumped(p)'
      BY <1>3 DEF BeingDumped, IsError, PathOf
    <2> QED
      BY <1>2, <1>3, <2>1, KeptStays DEF FilesInv
  <1> QED
    BY <1>6, <1>7, <1>8, <1>9, <1>10, <1>11, <1>12 DEF FilesInv

\* The file that a dump completes.
LEMMA WriteFileFiles ==
  ASSUME Inv, FilesInv, WriteErrorFile \/ WriteFile
  PROVE  FilesInv'
  <1> USE DEF setup, trace, counters
  <1>1. TypeOK /\ paths_found \in Nat /\ exit = "running"
    BY DEF Inv, TypeOK, Ended, WriteErrorFile, WriteFile
  <1>2. /\ FileName \in DOMAIN files /\ files[FileName] = [input |-> cur, complete |-> FALSE]
        /\ DOMAIN files' = DOMAIN files
        /\ files'[FileName] = [input |-> cur, complete |-> TRUE]
        /\ \A n \in DOMAIN files : n # FileName => files'[n] = files[n]
    BY DEF FilesInv, Writing, WriteErrorFile, WriteFile, Completed
  <1>3. /\ UNCHANGED <<prog, env, cur, executed, paths_found, prev_error, errors_found>>
        /\ \/ phase = "writeErr" /\ phase' \in {"ran", "ended"}
           \/ phase = "write" /\ phase' = "solve"
        /\ exit' # "alarm"
    BY <1>1 DEF WriteErrorFile, WriteFile, Exit
  <1>4. \/ phase = "writeErr" /\ FileName[2] = "error"
        \/ phase = "write" /\ FileName[2] = "plain"
    BY <1>3 DEF FileName
  <1>5. Reported'
    BY <1>3 DEF FilesInv, Reported
  <1>6. KindIsTrue'
    <2>1. ASSUME NEW n \in DOMAIN files PROVE files'[n].input = files[n].input
      BY <1>2
    <2> QED
      BY <1>2, <1>3, <2>1 DEF FilesInv, KindIsTrue
  <1>7. Unused'
    <2>1. ASSUME NEW n \in DOMAIN files
          PROVE  /\ n[2] = "error" =>
                       n[1] <= paths_found + (IF phase' \in {"writeErr", "ran", "ended"} THEN 1 ELSE 0)
                 /\ n[2] = "plain" => n[1] <= paths_found - 0
      BY <1>3 DEF FilesInv, Unused
    <2> QED
      BY <1>2, <1>3, <2>1 DEF Unused
  <1>8. Writing'
    BY <1>3 DEF Writing
  <1>9. OthersComplete'
    BY <1>1, <1>2 DEF FilesInv, OthersComplete
  <1>10. ASSUME NEW p, p = PathOf(cur), IsError(p) <=> FileName[2] = "error"
         PROVE  HasTestCase(p)'
    <2>0. PICK f \in DOMAIN files' : f = FileName
      BY <1>2
    <2>1. files'[f].complete /\ PathOf(files[f].input)' = p
      BY <1>2, <1>3, <1>10, <2>0 DEF PathOf
    <2>2. IsError(p)' <=> IsError(p)
      BY <1>3 DEF IsError, PathOf
    <2>3. f[2] = IF IsError(p)' THEN "error" ELSE "plain"
      BY <1>4, <1>10, <2>0, <2>2
    <2> QED
      BY <2>1, <2>3 DEF HasTestCase
  <1>11. PathOf(cur)' = PathOf(cur) /\ (IsError(PathOf(cur)) <=> prog.outcome[cur] = "error")
    BY <1>1, <1>3, ErrorOnPath DEF PathOf, TypeOK
  <1>12. DumpedBeforeCounted'
    <2> SUFFICES ASSUME phase' = "ran" PROVE HasTestCase(PathOf(cur))'
      BY DEF DumpedBeforeCounted
    <2>1. phase = "writeErr" /\ prog.outcome[cur] = "error"
      BY <1>3 DEF FilesInv, Reported
    <2>2. HasTestCase(PathOf(cur))' <=> \E n \in DOMAIN files' :
            /\ files'[n].complete /\ PathOf(files[n].input)' = PathOf(cur)
            /\ n[2] = IF IsError(PathOf(cur))' THEN "error" ELSE "plain"
      BY <1>11 DEF HasTestCase
    <2> QED
      BY <1>4, <1>10, <1>11, <2>1, <2>2 DEF HasTestCase
  <1>13. TestCasesKept'
    <2>1. ASSUME NEW p \in executed, BeingDumped(p) PROVE HasTestCase(p)'
      BY <1>1, <1>3, <1>4, <1>10, <2>1 DEF BeingDumped
    <2>2. \A n \in DOMAIN files : files[n].complete => n \in DOMAIN files' /\ files'[n] = files[n]
      BY <1>2
    <2> QED
      BY <1>3, <2>1, <2>2, KeptStays DEF FilesInv
  <1> QED
    BY <1>5, <1>6, <1>7, <1>8, <1>9, <1>12, <1>13 DEF FilesInv

\* The path that is counted has its test case, or is dumped next.
LEMMA CountPathFiles ==
  ASSUME Inv, FilesInv, CountPath
  PROVE  FilesInv'
  <1> USE DEF setup, trace, counters
  <1>1. TypeOK /\ paths_found \in Nat
    BY DEF Inv, TypeOK
  <1>2. /\ UNCHANGED <<prog, env, cur, files, prev_error, errors_found, exit>>
        /\ phase = "ran" /\ paths_found' = paths_found + 1
        /\ executed' = executed \cup {PathOf(cur)}
        /\ phase' = IF DumpsPath THEN "open" ELSE "solve"
    BY DEF CountPath
  <1>3. Reported'
    BY <1>2 DEF FilesInv, Reported, DumpsPath
  <1>4. KindIsTrue' /\ Writing' /\ OthersComplete' /\ DumpedBeforeCounted'
    BY <1>2 DEF FilesInv, KindIsTrue, Writing, OthersComplete, DumpedBeforeCounted
  <1>5. Unused'
    <2>1. ASSUME NEW n \in DOMAIN files
          PROVE  /\ n[2] = "error" => n[1] <= (paths_found + 1) + 0
                 /\ n[2] = "plain" => n[1] <= (paths_found + 1) - (IF phase' = "open" THEN 1 ELSE 0)
      <3>1. n[1] \in Nat
        BY <1>1, NameParts
      <3> QED
        BY <1>1, <1>2, <3>1 DEF FilesInv, Unused
    <2>2. phase' \notin {"writeErr", "ran", "ended"}
      BY <1>2
    <2> QED
      BY <1>2, <2>1, <2>2 DEF Unused
  <1>6. TestCasesKept'
    <2> SUFFICES ASSUME prog.sym, NEW p \in executed', env.dumpall \/ IsError(p)
                 PROVE  HasTestCase(p)' \/ BeingDumped(p)'
      BY <1>2 DEF TestCasesKept, IsError, PathOf
    <2>1. HasTestCase(p) => HasTestCase(p)'
      BY <1>2, TestCaseStays
    <2>2. CASE p \in executed
      BY <1>2, <2>1, <2>2, NotDumping DEF FilesInv, TestCasesKept
    <2>3. CASE p = PathOf(cur)
      <3>1. IsError(p) <=> prog.outcome[cur] = "error"
        BY <1>1, <2>3, ErrorOnPath DEF TypeOK
      <3>2. CASE IsError(p)
        BY <1>2, <2>1, <2>3, <3>1, <3>2 DEF FilesInv, DumpedBeforeCounted
      <3>3. CASE ~ IsError(p)
        <4>1. DumpsPath
          BY <1>2, <3>1, <3>3 DEF FilesInv, Reported, DumpsPath
        <4> QED
          BY <1>2, <2>3, <3>3, <4>1 DEF BeingDumped, IsError, PathOf
      <3> QED
        BY <3>2, <3>3
    <2> QED
      BY <1>2, <2>2, <2>3
  <1> QED
    BY <1>3, <1>4, <1>5, <1>6 DEF FilesInv

\* Every step preserves what is said of the files.
LEMMA NextFiles == Inv /\ FilesInv /\ [Next]_vars => FilesInv'
  <1> SUFFICES ASSUME Inv, FilesInv, [Next]_vars PROVE FilesInv'
    OBVIOUS
  <1> USE DEF setup, trace, counters
  <1>0. TypeOK /\ (phase # "ended" <=> exit = "running")
    BY DEF Inv, Ended
  <1>1. ASSUME UNCHANGED <<prog, env, files, executed, paths_found>>,
               phase \notin {"writeErr", "write", "ran", "ended"} \/ phase' = "ended",
               phase' \notin {"writeErr", "write", "open"},
               phase' = "ran" => ~ (prog.sym /\ prog.outcome[cur'] = "error"),
               exit = "alarm" \/ phase \in {"writeErr", "write"} => exit' = "alarm",
               Reported',
               phase \in {"open", "write", "ended"} => cur' = cur /\ exit' \in {exit, "alarm", "abort"}
                                                       /\ phase' = "ended"
                                                       /\ (phase # "ended" => exit' # exit)
        PROVE  FilesInv'
    <2>1. KindIsTrue' /\ Unused' /\ Writing' /\ OthersComplete' /\ DumpedBeforeCounted'
      BY <1>0, <1>1, SameFiles
    <2>2. ASSUME NEW p \in executed, BeingDumped(p) PROVE BeingDumped(p)'
      <3>1. phase \in {"open", "write", "ended"}
        BY <2>2, NotDumping
      <3>2. IsError(p)' = IsError(p) /\ PathOf(cur)' = PathOf(cur)
        BY <1>1, <3>1 DEF IsError, PathOf
      <3> QED
        BY <1>0, <1>1, <2>2, <3>1, <3>2 DEF BeingDumped
    <2>3. TestCasesKept'
      BY <1>1, <2>2, KeptStays DEF FilesInv
    <2> QED
      BY <1>1, <2>1, <2>3 DEF FilesInv
  <1>2. CASE StartSimulation
    BY <1>0, <1>1, <1>2 DEF StartSimulation, Reported
  <1>3. CASE SimulationExits
    BY <1>0, <1>1, <1>3 DEF SimulationExits, FilesInv, Reported
  <1>4. CASE SimulationReportsError
    <2>1. Reported'
      BY <1>4 DEF SimulationReportsError, FilesInv, Reported, Inv, TypeOK
    <2> QED
      BY <1>0, <1>1, <1>4, <2>1 DEF SimulationReportsError
  <1>5. CASE SimulationFails
    BY <1>0, <1>1, <1>5 DEF SimulationFails, Exit, Reported
  <1>6. CASE OpenFile
    BY <1>6, OpenFileFiles
  <1>7. CASE OpenFails
    BY <1>0, <1>1, <1>7 DEF OpenFails, Exit, Kill, Reported
  <1>8. CASE WriteErrorFile \/ WriteFile
    BY <1>8, WriteFileFiles
  <1>9. CASE CountPath
    BY <1>9, CountPathFiles
  <1>10. CASE NegateSat
    BY <1>0, <1>1, <1>10 DEF NegateSat, Reported
  <1>11. CASE NegateUnsat \/ NegateTimeout
    BY <1>0, <1>1, <1>11 DEF NegateUnsat, NegateTimeout, Reported
  <1>12. CASE NoNewPath
    BY <1>0, <1>1, <1>12 DEF NoNewPath, Exit, Reported
  <1>13. CASE Sigalrm
    BY <1>0, <1>1, <1>13 DEF Sigalrm, Kill, Reported
  <1>14. CASE RunTest
    BY <1>0, <1>1, <1>14 DEF RunTest, Reported
  <1>15. CASE UNCHANGED vars
    <2>1. Reported' /\ KindIsTrue' /\ Unused' /\ Writing' /\ OthersComplete'
      BY <1>15 DEF vars, FilesInv, Reported, KindIsTrue, Unused, Writing, OthersComplete, FileName
    <2>2. DumpedBeforeCounted' /\ TestCasesKept'
      BY <1>15 DEF vars, FilesInv, DumpedBeforeCounted, TestCasesKept, HasTestCase, BeingDumped,
                   IsError, PathOf
    <2> QED
      BY <2>1, <2>2 DEF FilesInv
  <1> QED
    BY <1>2, <1>3, <1>4, <1>5, <1>6, <1>7, <1>8, <1>9, <1>10, <1>11, <1>12, <1>13, <1>14, <1>15
       DEF Next, Step

\* FilesInv holds in every reachable state.
LEMMA FilesInvariance == Spec => []FilesInv
  <1>1. Init => FilesInv
    BY DEF Init, create_testdir, NoFiles, FilesInv, Reported, KindIsTrue, Unused, Writing,
           OthersComplete, DumpedBeforeCounted, TestCasesKept
  <1> QED
    BY <1>1, NextFiles, Invariance, PTL DEF Spec

\* No test case is overwritten or forgotten: every failing path executed so far, and
\* every path with SYMEX_DUMPALL, has a complete file of its own kind.
THEOREM TestCasesStay == Spec => []TestCasesKept
  <1>1. FilesInv => TestCasesKept
    BY DEF FilesInv
  <1> QED
    BY <1>1, FilesInvariance, PTL

\* A replayed test case behaves as the exploration reported it, and only the alarm
\* leaves a file that cannot be read.
THEOREM ReplayIsFaithful == Spec => []ReplayReproduces
  <1>1. Init => ReplayReproduces
    BY DEF Init, NotReplayed, ReplayReproduces
  <1>2. Inv /\ FilesInv /\ ReplayReproduces /\ [Next]_vars => ReplayReproduces'
    <2> SUFFICES ASSUME Inv, FilesInv, ReplayReproduces, [Next]_vars PROVE ReplayReproduces'
      OBVIOUS
    <2>1. CASE RunTest
      <3>1. PICK n \in DOMAIN files : replayed' = <<n[2], ReplayResult(files[n])>>
        BY <2>1 DEF RunTest
      <3>2. exit' = exit /\ phase = "ended"
        BY <2>1 DEF RunTest
      <3>3. files[n].complete \/ exit = "alarm"
        BY <3>2 DEF FilesInv, OthersComplete
      <3>4. prog.outcome[files[n].input] = IF n[2] = "error" THEN "error" ELSE "exit"
        BY DEF FilesInv, KindIsTrue
      <3>5. n[2] \in {"error", "plain"}
        BY NameParts DEF Inv
      <3>6. ReplayResult(files[n]) = IF ~ files[n].complete THEN "unreadable"
                                     ELSE IF n[2] = "error" THEN "fail" ELSE "ok"
        BY <3>4 DEF ReplayResult
      <3> QED
        BY <3>1, <3>2, <3>3, <3>5, <3>6 DEF ReplayReproduces
    <2>2. CASE UNCHANGED replayed /\ (exit = "alarm" => exit' = "alarm")
      BY <2>2 DEF ReplayReproduces
    <2>3. (phase = "ended" /\ exit = "alarm") \/ exit # "alarm"
      BY DEF Inv, Ended
    <2>4. Step \/ Sigalrm \/ UNCHANGED vars => UNCHANGED replayed /\ (exit = "alarm" => exit' = "alarm")
      BY <2>3 DEF Step, StartSimulation, SimulationExits, SimulationReportsError, SimulationFails,
             OpenFile, OpenFails, WriteErrorFile, WriteFile, CountPath, NegateSat, NegateUnsat,
             NegateTimeout, NoNewPath, Sigalrm, Exit, Kill, vars
    <2> QED
      BY <2>1, <2>2, <2>4 DEF Next
  <1> QED
    BY <1>1, <1>2, Invariance, FilesInvariance, PTL DEF Spec

-----------------------------------------------------------------------------
(* The concolic data path: integer arithmetic. *)

\* Quotient and remainder of an integer by a positive number.
LEMMA Division ==
  ASSUME NEW x \in Int, NEW d \in Nat \ {0}
  PROVE  /\ x \div d \in Int /\ x % d \in 0 .. d - 1 /\ x = d * (x \div d) + (x % d)
<1>1. x \div d \in Int /\ x % d \in 0 .. d - 1 OBVIOUS
<1>2. x = d * (x \div d) + (x % d) OBVIOUS
<1> QED BY <1>1, <1>2

\* There is one quotient and one remainder.
LEMMA Near ==
  ASSUME NEW d \in Nat \ {0}, NEW q1 \in Int, NEW q2 \in Int, NEW r1 \in 0 .. d - 1, NEW r2 \in 0 .. d - 1,
         d * q1 + r1 = d * q2 + r2
  PROVE  q1 = q2 /\ r1 = r2
<1>1. ASSUME NEW a \in Int, NEW b \in Int, a < b PROVE d * a + d <= d * b
  <2>1. PICK k \in Nat : b = a + 1 + k
    <3>1. b - a - 1 \in Nat BY <1>1
    <3> QED BY <3>1, b = a + 1 + (b - a - 1)
  <2>2. d * b = d * a + d + d * k BY <2>1
  <2>3. d * k \in Nat BY <2>1
  <2> QED BY <2>2, <2>3
<1>2. ~ (q1 < q2)
  <2> SUFFICES ASSUME q1 < q2 PROVE FALSE OBVIOUS
  <2>1. d * q1 + d <= d * q2 BY <1>1
  <2>2. d * q1 \in Int /\ d * q2 \in Int OBVIOUS
  <2> QED BY <2>1, <2>2
<1>3. ~ (q2 < q1)
  <2> SUFFICES ASSUME q2 < q1 PROVE FALSE OBVIOUS
  <2>1. d * q2 + d <= d * q1 BY <1>1
  <2>2. d * q1 \in Int /\ d * q2 \in Int OBVIOUS
  <2> QED BY <2>1, <2>2
<1>4. q1 = q2 BY <1>2, <1>3
<1>5. d * q1 = d * q2 /\ d * q1 \in Int BY <1>4
<1> QED BY <1>4, <1>5

\* So whatever decomposes x is its quotient and its remainder.
LEMMA DivMod ==
  ASSUME NEW d \in Nat \ {0}, NEW x \in Int, NEW q \in Int, NEW r \in 0 .. d - 1, x = d * q + r
  PROVE  x \div d = q /\ x % d = r
<1>1. d * (x \div d) + (x % d) = d * q + r BY Division
<1>2. x \div d \in Int /\ x % d \in 0 .. d - 1 BY Division
<1> QED BY <1>1, <1>2, Near

\* The same as a witness.
LEMMA Quotients ==
  ASSUME NEW d \in Nat \ {0}, NEW x \in Int
  PROVE  \E q \in Int : \E r \in 0 .. d - 1 : x = d * q + r /\ x \div d = q /\ x % d = r
BY Division

\* A multiple of the divisor moves the quotient and not the remainder.
LEMMA Shifted ==
  ASSUME NEW d \in Nat \ {0}, NEW x \in Int, NEW k \in Int
  PROVE  (x + d * k) % d = x % d /\ (x + d * k) \div d = x \div d + k
<1>1. PICK q \in Int : \E r \in 0 .. d - 1 : x = d * q + r /\ x \div d = q /\ x % d = r
  BY Quotients
<1>2. PICK r \in 0 .. d - 1 : x = d * q + r /\ x \div d = q /\ x % d = r
  BY <1>1
<1>3. d * (q + k) = d * q + d * k /\ d * q \in Int /\ d * k \in Int /\ q + k \in Int
  OBVIOUS
<1>4. x + d * k = d * (q + k) + r /\ x + d * k \in Int
  BY <1>2, <1>3
<1>5. (x + d * k) \div d = q + k /\ (x + d * k) % d = r
  BY <1>3, <1>4, DivMod
<1> QED BY <1>2, <1>5

\* The lower of two digits, and the higher in front of it.
Low(d, e, x) == x % (d * e) = d * ((x \div d) % e) + (x % d)

\* The part of a number between two units.
LEMMA Between ==
  ASSUME NEW d \in Nat \ {0}, NEW e \in Nat \ {0}, NEW x \in Int
  PROVE  /\ d * e \in Nat \ {0}
         /\ x \div (d * e) = (x \div d) \div e
         /\ (x % (d * e)) % d = x % d
         /\ (x % (d * e)) \div d = (x \div d) % e
         /\ x % (d * e) = d * ((x \div d) % e) + (x % d)
         /\ Low(d, e, x)
<1>1. PICK q \in Int : \E r \in 0 .. d - 1 : x = d * q + r /\ x \div d = q /\ x % d = r
  BY Quotients
<1>2. PICK r \in 0 .. d - 1 : x = d * q + r /\ x \div d = q /\ x % d = r
  BY <1>1
<1>3. PICK t \in Int : \E u \in 0 .. e - 1 : q = e * t + u /\ q \div e = t /\ q % e = u
  BY Quotients
<1>4. PICK u \in 0 .. e - 1 : q = e * t + u /\ q \div e = t /\ q % e = u
  BY <1>3
<1>5. d * e \in Nat \ {0}
  OBVIOUS
<1>6. d * u + r \in 0 .. d * e - 1
  <2>1. PICK k \in Nat : e = u + 1 + k
    <3>1. e - u - 1 \in Nat OBVIOUS
    <3> QED BY <3>1, e = u + 1 + (e - u - 1)
  <2>2. d * e = d * u + d + d * k /\ d * k \in Nat /\ d * u \in Nat
    BY <2>1
  <2> QED BY <2>2, <1>5
<1>7. x = (d * e) * t + (d * u + r)
  <2>1. d * q = d * (e * t) + d * u /\ d * (e * t) = (d * e) * t
    BY <1>4
  <2>2. d * u \in Int /\ d * (e * t) \in Int OBVIOUS
  <2> QED BY <1>2, <2>1, <2>2
<1>8. x \div (d * e) = t /\ x % (d * e) = d * u + r
  BY <1>5, <1>6, <1>7, DivMod
<1>9. (d * u + r) \div d = u /\ (d * u + r) % d = r
  <2>1. d * u + r \in Int /\ u \in Int OBVIOUS
  <2> QED BY <2>1, DivMod
<1>10. Low(d, e, x)
  BY ONLY <1>2, <1>4, <1>8 DEF Low
<1> QED BY <1>2, <1>4, <1>5, <1>8, <1>9, <1>10

-----------------------------------------------------------------------------
(* Powers of two. *)

Radix == 2 ^ CHAR_BIT
Half == 2 ^ (XLEN - 1)

\* The widths of a byte, a word and a shift amount.
LEMMA WidthTypes == CHAR_BIT \in Nat \ {0} /\ XLEN \in Nat /\ XLEN >= 4 /\ XLEN = 4 * CHAR_BIT /\ ShamtBits \in 1 .. XLEN
BY WidthsAssumption DEF XLEN

\* A power splits at every smaller exponent.
LEMMA Power ==
  ASSUME NEW n \in 0 .. 2 * XLEN, NEW k \in 0 .. n
  PROVE  2 ^ n \in Nat \ {0} /\ 2 ^ n = 2 ^ k * 2 ^ (n - k)
BY ExponentsAssumption

\* The powers that occur are positive.
LEMMA PowerType ==
  ASSUME NEW n \in 0 .. 2 * XLEN
  PROVE  2 ^ n \in Nat \ {0}
BY ExponentsAssumption

\* The sizes of a byte, a word, half a word and a product.
LEMMA Powers ==
  /\ 2 ^ 0 = 1 /\ Radix \in Nat /\ Radix >= 2
  /\ Half \in Nat \ {0} /\ M \in Nat /\ M >= 16 /\ M = 2 * Half
  /\ 2 ^ (XLEN - 2) \in Nat \ {0} /\ Half = 2 * 2 ^ (XLEN - 2)
  /\ XLEN <= M /\ 2 ^ ShamtBits = XLEN
  /\ 2 ^ (2 * XLEN) = M * M /\ 2 ^ (2 * XLEN - 1) = M * Half
<1> USE WidthTypes
<1>1. 2 ^ 0 = 1 /\ 2 ^ 1 = 2
  OBVIOUS
<1>2. CHAR_BIT \in 0 .. 2 * XLEN /\ 1 \in 0 .. CHAR_BIT
  OBVIOUS
<1>3. 2 ^ CHAR_BIT = 2 * 2 ^ (CHAR_BIT - 1) /\ 2 ^ CHAR_BIT \in Nat
  BY <1>1, <1>2, Power
<1>4. 2 ^ (CHAR_BIT - 1) \in Nat \ {0}
  BY PowerType, CHAR_BIT - 1 \in 0 .. 2 * XLEN
<1>5. Radix \in Nat /\ Radix >= 2
  BY <1>3, <1>4 DEF Radix
<1>6. 2 ^ XLEN = 2 * 2 ^ (XLEN - 1) /\ 2 ^ XLEN \in Nat
  BY <1>1, Power, XLEN \in 0 .. 2 * XLEN, 1 \in 0 .. XLEN
<1>7. 2 ^ (XLEN - 1) = 2 * 2 ^ (XLEN - 2)
  <2>1. 2 ^ (XLEN - 1) = 2 ^ 1 * 2 ^ (XLEN - 1 - 1)
    BY Power, XLEN - 1 \in 0 .. 2 * XLEN, 1 \in 0 .. XLEN - 1
  <2>2. XLEN - 1 - 1 = XLEN - 2
    OBVIOUS
  <2> QED
    BY <2>1, <2>2, <1>1
<1>8. 2 ^ (XLEN - 1) \in Nat \ {0} /\ 2 ^ (XLEN - 2) \in Nat \ {0}
  BY PowerType, XLEN - 1 \in 0 .. 2 * XLEN, XLEN - 2 \in 0 .. 2 * XLEN
<1>9. 2 ^ XLEN = 16 * 2 ^ (XLEN - 4) /\ 2 ^ (XLEN - 4) \in Nat \ {0}
  <2>1. 2 ^ 4 = 16
    OBVIOUS
  <2> QED
    BY <2>1, Power, PowerType, XLEN \in 0 .. 2 * XLEN, 4 \in 0 .. XLEN, XLEN - 4 \in 0 .. 2 * XLEN
<1>10. XLEN <= M
  <2>1. 2 ^ XLEN = 2 ^ ShamtBits * 2 ^ (XLEN - ShamtBits)
    BY Power, XLEN \in 0 .. 2 * XLEN, ShamtBits \in 0 .. XLEN
  <2>2. 2 ^ (XLEN - ShamtBits) \in Nat \ {0}
    BY PowerType, XLEN - ShamtBits \in 0 .. 2 * XLEN
  <2>3. \A k \in Nat \ {0} : XLEN <= XLEN * k
    OBVIOUS
  <2> QED
    BY <2>1, <2>2, <2>3, WidthsAssumption DEF M
<1>11. 2 ^ (2 * XLEN) = 2 ^ XLEN * 2 ^ XLEN
  BY Power, 2 * XLEN \in 0 .. 2 * XLEN, XLEN \in 0 .. 2 * XLEN, 2 * XLEN - XLEN = XLEN
<1>12. 2 ^ (2 * XLEN - 1) = 2 ^ XLEN * 2 ^ (XLEN - 1)
  BY Power, 2 * XLEN - 1 \in 0 .. 2 * XLEN, XLEN \in 0 .. 2 * XLEN - 1, 2 * XLEN - 1 - XLEN = XLEN - 1
<1> QED
  BY <1>1, <1>5, <1>6, <1>7, <1>8, <1>9, <1>10, <1>11, <1>12, WidthsAssumption DEF M, Half

\* The units of the bytes of a word.
LEMMA Units ==
  /\ 2 ^ (CHAR_BIT * 0) = 1 /\ 2 ^ (CHAR_BIT * 1) = Radix
  /\ 2 ^ (CHAR_BIT * 2) = Radix * Radix
  /\ 2 ^ (CHAR_BIT * 3) = Radix * Radix * Radix
  /\ M = Radix * Radix * Radix * Radix
<1> USE WidthTypes
<1>1. 2 ^ (CHAR_BIT * 0) = 1 /\ 2 ^ (CHAR_BIT * 1) = Radix
  BY CHAR_BIT * 0 = 0, CHAR_BIT * 1 = CHAR_BIT, Powers DEF Radix
<1>2. 2 ^ (CHAR_BIT * 2) = Radix * Radix
  BY Power, CHAR_BIT * 2 \in 0 .. 2 * XLEN, CHAR_BIT \in 0 .. CHAR_BIT * 2, CHAR_BIT * 2 - CHAR_BIT = CHAR_BIT DEF Radix
<1>3. 2 ^ (CHAR_BIT * 3) = Radix * Radix * Radix
  BY <1>2, Power, CHAR_BIT * 3 \in 0 .. 2 * XLEN, CHAR_BIT * 2 \in 0 .. CHAR_BIT * 3, CHAR_BIT * 3 - CHAR_BIT * 2 = CHAR_BIT DEF Radix
<1>4. 2 ^ (CHAR_BIT * 4) = Radix * Radix * Radix * Radix
  BY <1>3, Power, CHAR_BIT * 4 \in 0 .. 2 * XLEN, CHAR_BIT * 3 \in 0 .. CHAR_BIT * 4, CHAR_BIT * 4 - CHAR_BIT * 3 = CHAR_BIT DEF Radix
<1> QED
  BY <1>1, <1>2, <1>3, <1>4, XLEN = CHAR_BIT * 4 DEF M

-----------------------------------------------------------------------------
(* Sums. *)


\* The partial sums of e exist.
LEMMA PartialSums ==
  ASSUME NEW n \in Nat, NEW e \in [1 .. n -> Int], NEW j \in 0 .. n
  PROVE  \E g \in [0 .. j -> Int] : \A k \in 0 .. j : g[k] = IF k = 0 THEN 0 ELSE e[k] + g[k - 1]
<1> DEFINE Good(h) == \E g \in [0 .. h -> Int] : \A k \in 0 .. h : g[k] = IF k = 0 THEN 0 ELSE e[k] + g[k - 1]
           Bad == {h \in 0 .. n : ~ Good(h)}
<1> SUFFICES ASSUME Bad # {} PROVE FALSE
  OBVIOUS
<1>1. PICK h \in Bad : \A y \in Bad : h <= y
  BY Least, Bad \subseteq Nat
<1>2. CASE h = 0
  <2>1. \A k \in 0 .. 0 : k = 0
    OBVIOUS
  <2>2. [k \in 0 .. 0 |-> 0] \in [0 .. 0 -> Int]
    OBVIOUS
  <2>3. Good(0)
    BY <2>1, <2>2
  <2> QED
    BY <1>2, <2>3
<1>3. CASE h > 0
  <2>1. h - 1 \in 0 .. n /\ Good(h - 1)
    <3>1. h \in 0 .. n
      OBVIOUS
    <3>2. h - 1 \in 0 .. n /\ ~ (h <= h - 1)
      BY <1>3, <3>1
    <3> HIDE DEF Good
    <3> QED
      BY <1>1, <3>2
  <2>2. PICK g \in [0 .. h - 1 -> Int] : \A k \in 0 .. h - 1 : g[k] = IF k = 0 THEN 0 ELSE e[k] + g[k - 1]
    BY <2>1
  <2> DEFINE f == [k \in 0 .. h |-> IF k = h THEN e[h] + g[h - 1] ELSE g[k]]
  <2>3. f \in [0 .. h -> Int]
    BY <1>3
  <2>4. ASSUME NEW k \in 0 .. h PROVE f[k] = IF k = 0 THEN 0 ELSE e[k] + f[k - 1]
    <3>1. CASE k = h
      BY <3>1, <1>3
    <3>2. CASE k < h
      BY <3>2, <2>2
    <3> QED
      BY <3>1, <3>2
  <2>5. Good(h)
    BY <2>3, <2>4
  <2> QED
    BY <2>5
<1> QED
  BY <1>1, <1>2, <1>3

\* A sum, and the partial sums that lead to it.
LEMMA Sums ==
  ASSUME NEW n \in Nat, NEW e \in [1 .. n -> Int]
  PROVE  \E g \in [0 .. n -> Int] : /\ SumOf(e, n) = g[n] /\ g[0] = 0
                                    /\ \A k \in 1 .. n : g[k] = e[k] + g[k - 1]
<1> DEFINE Is(g) == g = [k \in 0 .. n |-> IF k = 0 THEN 0 ELSE e[k] + g[k - 1]]
           G == CHOOSE g : Is(g)
           Bad == {k \in 0 .. n : G[k] \notin Int}
<1>1. PICK g \in [0 .. n -> Int] : \A k \in 0 .. n : g[k] = IF k = 0 THEN 0 ELSE e[k] + g[k - 1]
  BY PartialSums, n \in 0 .. n
<1>2. Is(g)
  BY <1>1
<1>3. Is(G)
  BY <1>2
<1>4. SumOf(e, n) = G[n]
  BY DEF SumOf
<1> HIDE DEF G
<1>5. G[0] = 0 /\ \A k \in 1 .. n : G[k] = e[k] + G[k - 1]
  BY <1>3
<1>6. Bad = {}
  <2> SUFFICES ASSUME Bad # {} PROVE FALSE
    OBVIOUS
  <2>1. PICK k \in Bad : \A y \in Bad : k <= y
    BY Least, Bad \subseteq Nat
  <2>2. CASE k = 0
    BY <1>5, <2>2
  <2>3. CASE k > 0
    <3>1. k - 1 \in 0 .. n /\ k - 1 \notin Bad /\ k \in 1 .. n
      BY <2>1, <2>3
    <3> QED
      BY <3>1, <1>5
  <2> QED
    BY <2>2, <2>3
<1>7. G \in [0 .. n -> Int]
  BY <1>3, <1>6
<1> QED
  BY <1>4, <1>5, <1>7

\* A sum of integers is one.
LEMMA SumIsInteger ==
  ASSUME NEW n \in Nat, NEW e \in [1 .. n -> Int]
  PROVE  SumOf(e, n) \in Int
BY Sums, n \in 0 .. n

\* Sums of one, two and four terms.
LEMMA Sum1 ==
  ASSUME NEW n, n = 1, NEW e \in [1 .. n -> Int]
  PROVE  SumOf(e, n) = e[1]
<1>1. PICK g \in [0 .. n -> Int] : /\ SumOf(e, n) = g[n] /\ g[0] = 0
                                   /\ \A k \in 1 .. n : g[k] = e[k] + g[k - 1]
  BY Sums, n \in Nat
<1> QED
  BY <1>1

\* A sum of two.
LEMMA Sum2 ==
  ASSUME NEW n, n = 2, NEW e \in [1 .. n -> Int]
  PROVE  SumOf(e, n) = e[1] + e[2]
<1>1. PICK g \in [0 .. n -> Int] : /\ SumOf(e, n) = g[n] /\ g[0] = 0
                                   /\ \A k \in 1 .. n : g[k] = e[k] + g[k - 1]
  BY Sums, n \in Nat
<1>2. g[2] = e[2] + g[1] /\ g[1] = e[1] + g[0]
  BY <1>1
<1> QED
  BY <1>1, <1>2

\* A sum of four.
LEMMA Sum4 ==
  ASSUME NEW n, n = 4, NEW e \in [1 .. n -> Int]
  PROVE  SumOf(e, n) = e[1] + e[2] + e[3] + e[4]
<1>1. PICK g \in [0 .. n -> Int] : /\ SumOf(e, n) = g[n] /\ g[0] = 0
                                   /\ \A k \in 1 .. n : g[k] = e[k] + g[k - 1]
  BY Sums, n \in Nat
<1>2. g[4] = e[4] + g[3] /\ g[3] = e[3] + g[2] /\ g[2] = e[2] + g[1] /\ g[1] = e[1] + g[0]
  BY <1>1
<1> QED
  BY <1>1, <1>2

\* A sum of which only the first term is not zero.
LEMMA SumOfFirst ==
  ASSUME NEW n \in Nat \ {0}, NEW e \in [1 .. n -> Int], \A k \in 2 .. n : e[k] = 0
  PROVE  SumOf(e, n) = e[1]
<1>1. PICK g \in [0 .. n -> Int] : /\ SumOf(e, n) = g[n] /\ g[0] = 0
                                   /\ \A k \in 1 .. n : g[k] = e[k] + g[k - 1]
  BY Sums
<1> DEFINE Bad == {k \in 1 .. n : g[k] # e[1]}
<1>2. Bad = {}
  <2> SUFFICES ASSUME Bad # {} PROVE FALSE
    OBVIOUS
  <2>1. PICK k \in Bad : \A y \in Bad : k <= y
    BY Least, Bad \subseteq Nat
  <2>2. CASE k = 1
    BY <1>1, <2>2
  <2>3. CASE k > 1
    <3>1. k - 1 \in 1 .. n /\ k - 1 \notin Bad /\ k \in 2 .. n
      BY <2>1, <2>3
    <3> QED
      BY <3>1, <1>1
  <2> QED
    BY <2>2, <2>3
<1> QED
  BY <1>1, <1>2, n \in 1 .. n

\* The operations on bits have integers as results.
LEMMA BitsAreIntegers ==
  ASSUME NEW x \in Int, NEW y \in Int
  PROVE  BitAnd(x, y) \in Int /\ BitOr(x, y) \in Int /\ BitXor(x, y) \in Int
<1>1. ASSUME NEW k \in 1 .. XLEN
      PROVE  Bit(x, k - 1) \in 0 .. 1 /\ Bit(y, k - 1) \in 0 .. 1 /\ 2 ^ (k - 1) \in Nat
  <2>1. 2 ^ (k - 1) \in Nat \ {0}
    BY PowerType, WidthTypes, k - 1 \in 0 .. 2 * XLEN
  <2>2. x \div 2 ^ (k - 1) \in Int /\ y \div 2 ^ (k - 1) \in Int
    BY <2>1, Division
  <2> QED
    BY <2>1, <2>2, Division DEF Bit
<1>2. [k \in 1 .. XLEN |-> Bit(x, k - 1) * Bit(y, k - 1) * 2 ^ (k - 1)] \in [1 .. XLEN -> Int]
  <2> SUFFICES ASSUME NEW k \in 1 .. XLEN PROVE Bit(x, k - 1) * Bit(y, k - 1) * 2 ^ (k - 1) \in Int
    OBVIOUS
  <2> QED
    BY <1>1
<1>3. [k \in 1 .. XLEN |-> Bool(Bit(x, k - 1) + Bit(y, k - 1) > 0) * 2 ^ (k - 1)] \in [1 .. XLEN -> Int]
  <2> SUFFICES ASSUME NEW k \in 1 .. XLEN PROVE Bool(Bit(x, k - 1) + Bit(y, k - 1) > 0) * 2 ^ (k - 1) \in Int
    OBVIOUS
  <2> QED
    BY <1>1 DEF Bool
<1>4. [k \in 1 .. XLEN |-> ((Bit(x, k - 1) + Bit(y, k - 1)) % 2) * 2 ^ (k - 1)] \in [1 .. XLEN -> Int]
  <2> SUFFICES ASSUME NEW k \in 1 .. XLEN PROVE ((Bit(x, k - 1) + Bit(y, k - 1)) % 2) * 2 ^ (k - 1) \in Int
    OBVIOUS
  <2> QED
    BY <1>1
<1> QED
  BY <1>2, <1>3, <1>4, SumIsInteger, WidthTypes DEF BitAnd, BitOr, BitXor

\* The conjunction of two truth values.
LEMMA BitAndOfTruth ==
  ASSUME NEW x \in 0 .. 1, NEW y \in 0 .. 1
  PROVE  BitAnd(x, y) = x * y
<1> DEFINE e == [k \in 1 .. XLEN |-> Bit(x, k - 1) * Bit(y, k - 1) * 2 ^ (k - 1)]
<1>1. Bit(x, 0) = x /\ Bit(y, 0) = y
  <2>1. x \div 1 = x /\ y \div 1 = y /\ x % 2 = x /\ y % 2 = y
    OBVIOUS
  <2> QED
    BY <2>1, Powers DEF Bit
<1>2. ASSUME NEW k \in 2 .. XLEN PROVE Bit(x, k - 1) = 0 /\ Bit(y, k - 1) = 0 /\ 2 ^ (k - 1) \in Nat
  <2>1. 2 ^ (k - 1) = 2 * 2 ^ (k - 2) /\ 2 ^ (k - 2) \in Nat \ {0}
    <3>1. 2 ^ 1 = 2
      OBVIOUS
    <3>2. k - 1 \in 0 .. 2 * XLEN /\ 1 \in 0 .. k - 1 /\ k - 2 \in 0 .. 2 * XLEN
      BY WidthTypes
    <3>3. k - 1 - 1 = k - 2
      OBVIOUS
    <3> QED
      BY <3>1, <3>2, <3>3, Power, PowerType
  <2>2. 2 ^ (k - 1) \in Nat /\ 2 ^ (k - 1) >= 2
    BY <2>1
  <2>3. x \div 2 ^ (k - 1) = 0 /\ y \div 2 ^ (k - 1) = 0
    <3>1. x = 2 ^ (k - 1) * 0 + x /\ y = 2 ^ (k - 1) * 0 + y /\ x \in 0 .. 2 ^ (k - 1) - 1 /\ y \in 0 .. 2 ^ (k - 1) - 1
      BY <2>2
    <3> QED
      BY <3>1, <2>2, DivMod
  <2> QED
    BY <2>2, <2>3 DEF Bit
<1>3. e[1] = x * y /\ \A k \in 2 .. XLEN : e[k] = 0
  <2>1. e[1] = Bit(x, 0) * Bit(y, 0) * 2 ^ 0
    BY WidthTypes
  <2>2. ASSUME NEW k \in 2 .. XLEN PROVE e[k] = 0
    BY <1>2, <2>2
  <2> QED
    BY <2>1, <2>2, <1>1, Powers, x * y * 1 = x * y
<1>4. e \in [1 .. XLEN -> Int]
  <2> SUFFICES ASSUME NEW k \in 1 .. XLEN PROVE e[k] \in Int
    OBVIOUS
  <2>1. CASE k = 1
    BY <2>1, <1>3
  <2>2. CASE k \in 2 .. XLEN
    BY <2>2, <1>3
  <2> QED
    BY <2>1, <2>2
<1> HIDE DEF e
<1>5. SumOf(e, XLEN) = e[1]
  BY <1>3, <1>4, SumOfFirst, WidthTypes
<1> QED
  BY <1>3, <1>5 DEF BitAnd, e

-----------------------------------------------------------------------------
(* Values. *)

Widths == 1 .. 2 * XLEN
Val(w) == [width : {w}, at : [Points -> 0 .. 2 ^ w - 1]]

\* v has width w, and the value that f gives to each point.
Made(v, w, f) == v \in Val(w) /\ \A p \in Points : v.at[p] = f[p] % 2 ^ w

\* The widths that the model gives to values.
LEMMA SomeWidths == 1 \in Widths /\ CHAR_BIT \in Widths /\ 2 * CHAR_BIT \in Widths /\ XLEN \in Widths /\ 2 * XLEN \in Widths
BY WidthTypes DEF Widths

\* What a value of width w is at a point.
LEMMA ValueParts ==
  ASSUME NEW w \in Widths, NEW v \in Val(w), NEW p \in Points
  PROVE  v.width = w /\ v.at[p] \in 0 .. 2 ^ w - 1 /\ v.at[p] \in Int /\ 2 ^ w \in Nat \ {0}
<1>1. 2 ^ w \in Nat \ {0}
  BY PowerType DEF Widths
<1> QED
  BY <1>1 DEF Val

\* Value builds what its function says.
LEMMA ValueMade ==
  ASSUME NEW w \in Widths, NEW f \in [Points -> Int], NEW v, v = [width |-> w, at |-> [p \in Points |-> f[p] % 2 ^ w]]
  PROVE  Made(v, w, f)
<1>1. 2 ^ w \in Nat \ {0}
  BY PowerType DEF Widths
<1>2. \A p \in Points : f[p] % 2 ^ w \in 0 .. 2 ^ w - 1
  BY <1>1, Division
<1> QED
  BY <1>2 DEF Val, Made

\* The two's complement reading is an integer.
LEMMA SignedType ==
  ASSUME NEW w \in Widths, NEW n \in Int
  PROVE  ToInt(n, w) \in Int
<1>1. w \in 0 .. 2 * XLEN /\ w - 1 \in 0 .. 2 * XLEN
  BY WidthTypes DEF Widths
<1>2. 2 ^ w \in Nat \ {0} /\ 2 ^ (w - 1) \in Nat \ {0}
  BY <1>1, PowerType
<1> QED
  BY <1>2 DEF ToInt

\* So are machine quotient and remainder.
LEMMA QuotientType ==
  ASSUME NEW x \in Int, NEW y \in Int
  PROVE  Quotient(x, y) \in Int /\ Remainder(x, y) \in Int
<1>1. Quotient(x, y) \in Int
  <2>1. CASE y = 0
    BY <2>1 DEF Quotient
  <2>2. CASE y # 0
    <3>1. Abs(x) \in Int /\ Abs(y) \in Nat \ {0}
      BY <2>2 DEF Abs
    <3>2. Abs(x) \div Abs(y) \in Int
      BY <3>1, Division
    <3> QED
      BY <2>2, <3>2 DEF Quotient
  <2> QED
    BY <2>1, <2>2
<1>2. y * Quotient(x, y) \in Int
  BY <1>1
<1> QED
  BY <1>1, <1>2 DEF Remainder

\* add, sub and mul compute in the width of their arguments.
LEMMA SumsMade ==
  ASSUME NEW w \in Widths, NEW a \in Val(w), NEW b \in Val(w)
  PROVE  /\ Made(add(a, b), w, [p \in Points |-> a.at[p] + b.at[p]])
         /\ Made(sub(a, b), w, [p \in Points |-> a.at[p] - b.at[p]])
         /\ Made(mul(a, b), w, [p \in Points |-> ToInt(a.at[p], w) * ToInt(b.at[p], w)])
<1>1. Made(add(a, b), w, [p \in Points |-> a.at[p] + b.at[p]])
  <2> DEFINE f == [p \in Points |-> a.at[p] + b.at[p]]
  <2>1. f \in [Points -> Int]
    <3> SUFFICES ASSUME NEW p \in Points PROVE a.at[p] + b.at[p] \in Int
      OBVIOUS
    <3> QED
      BY ValueParts
  <2>2. add(a, b) = [width |-> w, at |-> [p \in Points |-> f[p] % 2 ^ w]]
    BY ValueParts DEF add, Binary, Value, Val
  <2> HIDE DEF f
  <2>3. w \in Widths
    BY SomeWidths
  <2>4. Made(add(a, b), w, f)
    BY <2>1, <2>2, <2>3, ValueMade
  <2> QED
    BY <2>4 DEF f
<1>2. Made(sub(a, b), w, [p \in Points |-> a.at[p] - b.at[p]])
  <2> DEFINE f == [p \in Points |-> a.at[p] - b.at[p]]
  <2>1. f \in [Points -> Int]
    <3> SUFFICES ASSUME NEW p \in Points PROVE a.at[p] - b.at[p] \in Int
      OBVIOUS
    <3> QED
      BY ValueParts
  <2>2. sub(a, b) = [width |-> w, at |-> [p \in Points |-> f[p] % 2 ^ w]]
    BY ValueParts DEF sub, Binary, Value, Val
  <2> HIDE DEF f
  <2>3. w \in Widths
    BY SomeWidths
  <2>4. Made(sub(a, b), w, f)
    BY <2>1, <2>2, <2>3, ValueMade
  <2> QED
    BY <2>4 DEF f
<1>3. Made(mul(a, b), w, [p \in Points |-> ToInt(a.at[p], w) * ToInt(b.at[p], w)])
  <2> DEFINE f == [p \in Points |-> ToInt(a.at[p], w) * ToInt(b.at[p], w)]
  <2>1. f \in [Points -> Int]
    <3> SUFFICES ASSUME NEW p \in Points PROVE ToInt(a.at[p], w) * ToInt(b.at[p], w) \in Int
      OBVIOUS
    <3> QED
      BY ValueParts, SignedType
  <2>2. mul(a, b) = [width |-> w, at |-> [p \in Points |-> f[p] % 2 ^ w]]
    BY ValueParts DEF mul, Binary, Value, Val
  <2> HIDE DEF f
  <2>3. w \in Widths
    BY SomeWidths
  <2>4. Made(mul(a, b), w, f)
    BY <2>1, <2>2, <2>3, ValueMade
  <2> QED
    BY <2>4 DEF f
<1> QED
  BY <1>1, <1>2, <1>3

\* bxor, bor and band.
LEMMA BitsMade ==
  ASSUME NEW w \in Widths, NEW a \in Val(w), NEW b \in Val(w)
  PROVE  /\ Made(bxor(a, b), w, [p \in Points |-> BitXor(a.at[p], b.at[p])])
         /\ Made(bor(a, b), w, [p \in Points |-> BitOr(a.at[p], b.at[p])])
         /\ Made(band(a, b), w, [p \in Points |-> BitAnd(a.at[p], b.at[p])])
<1>1. Made(bxor(a, b), w, [p \in Points |-> BitXor(a.at[p], b.at[p])])
  <2> DEFINE f == [p \in Points |-> BitXor(a.at[p], b.at[p])]
  <2>1. f \in [Points -> Int]
    <3> SUFFICES ASSUME NEW p \in Points PROVE BitXor(a.at[p], b.at[p]) \in Int
      OBVIOUS
    <3> QED
      BY ValueParts, BitsAreIntegers
  <2>2. bxor(a, b) = [width |-> w, at |-> [p \in Points |-> f[p] % 2 ^ w]]
    BY ValueParts DEF bxor, Binary, Value, Val
  <2> HIDE DEF f
  <2>3. w \in Widths
    BY SomeWidths
  <2>4. Made(bxor(a, b), w, f)
    BY <2>1, <2>2, <2>3, ValueMade
  <2> QED
    BY <2>4 DEF f
<1>2. Made(bor(a, b), w, [p \in Points |-> BitOr(a.at[p], b.at[p])])
  <2> DEFINE f == [p \in Points |-> BitOr(a.at[p], b.at[p])]
  <2>1. f \in [Points -> Int]
    <3> SUFFICES ASSUME NEW p \in Points PROVE BitOr(a.at[p], b.at[p]) \in Int
      OBVIOUS
    <3> QED
      BY ValueParts, BitsAreIntegers
  <2>2. bor(a, b) = [width |-> w, at |-> [p \in Points |-> f[p] % 2 ^ w]]
    BY ValueParts DEF bor, Binary, Value, Val
  <2> HIDE DEF f
  <2>3. w \in Widths
    BY SomeWidths
  <2>4. Made(bor(a, b), w, f)
    BY <2>1, <2>2, <2>3, ValueMade
  <2> QED
    BY <2>4 DEF f
<1>3. Made(band(a, b), w, [p \in Points |-> BitAnd(a.at[p], b.at[p])])
  <2> DEFINE f == [p \in Points |-> BitAnd(a.at[p], b.at[p])]
  <2>1. f \in [Points -> Int]
    <3> SUFFICES ASSUME NEW p \in Points PROVE BitAnd(a.at[p], b.at[p]) \in Int
      OBVIOUS
    <3> QED
      BY ValueParts, BitsAreIntegers
  <2>2. band(a, b) = [width |-> w, at |-> [p \in Points |-> f[p] % 2 ^ w]]
    BY ValueParts DEF band, Binary, Value, Val
  <2> HIDE DEF f
  <2>3. w \in Widths
    BY SomeWidths
  <2>4. Made(band(a, b), w, f)
    BY <2>1, <2>2, <2>3, ValueMade
  <2> QED
    BY <2>4 DEF f
<1> QED
  BY <1>1, <1>2, <1>3

\* udiv, urem, sdiv and srem.
LEMMA QuotientsMade ==
  ASSUME NEW w \in Widths, NEW a \in Val(w), NEW b \in Val(w)
  PROVE  /\ Made(udiv(a, b), w, [p \in Points |-> Quotient(a.at[p], b.at[p])])
         /\ Made(urem(a, b), w, [p \in Points |-> Remainder(a.at[p], b.at[p])])
         /\ Made(sdiv(a, b), w, [p \in Points |-> Quotient(ToInt(a.at[p], w), ToInt(b.at[p], w))])
         /\ Made(srem(a, b), w, [p \in Points |-> Remainder(ToInt(a.at[p], w), ToInt(b.at[p], w))])
<1>1. Made(udiv(a, b), w, [p \in Points |-> Quotient(a.at[p], b.at[p])])
  <2> DEFINE f == [p \in Points |-> Quotient(a.at[p], b.at[p])]
  <2>1. f \in [Points -> Int]
    <3> SUFFICES ASSUME NEW p \in Points PROVE Quotient(a.at[p], b.at[p]) \in Int
      OBVIOUS
    <3> QED
      BY ValueParts, QuotientType
  <2>2. udiv(a, b) = [width |-> w, at |-> [p \in Points |-> f[p] % 2 ^ w]]
    BY ValueParts DEF udiv, Binary, Value, Val
  <2> HIDE DEF f
  <2>3. w \in Widths
    BY SomeWidths
  <2>4. Made(udiv(a, b), w, f)
    BY <2>1, <2>2, <2>3, ValueMade
  <2> QED
    BY <2>4 DEF f
<1>2. Made(urem(a, b), w, [p \in Points |-> Remainder(a.at[p], b.at[p])])
  <2> DEFINE f == [p \in Points |-> Remainder(a.at[p], b.at[p])]
  <2>1. f \in [Points -> Int]
    <3> SUFFICES ASSUME NEW p \in Points PROVE Remainder(a.at[p], b.at[p]) \in Int
      OBVIOUS
    <3> QED
      BY ValueParts, QuotientType
  <2>2. urem(a, b) = [width |-> w, at |-> [p \in Points |-> f[p] % 2 ^ w]]
    BY ValueParts DEF urem, Binary, Value, Val
  <2> HIDE DEF f
  <2>3. w \in Widths
    BY SomeWidths
  <2>4. Made(urem(a, b), w, f)
    BY <2>1, <2>2, <2>3, ValueMade
  <2> QED
    BY <2>4 DEF f
<1>3. Made(sdiv(a, b), w, [p \in Points |-> Quotient(ToInt(a.at[p], w), ToInt(b.at[p], w))])
  <2> DEFINE f == [p \in Points |-> Quotient(ToInt(a.at[p], w), ToInt(b.at[p], w))]
  <2>1. f \in [Points -> Int]
    <3> SUFFICES ASSUME NEW p \in Points PROVE Quotient(ToInt(a.at[p], w), ToInt(b.at[p], w)) \in Int
      OBVIOUS
    <3> QED
      BY ValueParts, SignedType, QuotientType
  <2>2. sdiv(a, b) = [width |-> w, at |-> [p \in Points |-> f[p] % 2 ^ w]]
    BY ValueParts DEF sdiv, Binary, Value, Val
  <2> HIDE DEF f
  <2>3. w \in Widths
    BY SomeWidths
  <2>4. Made(sdiv(a, b), w, f)
    BY <2>1, <2>2, <2>3, ValueMade
  <2> QED
    BY <2>4 DEF f
<1>4. Made(srem(a, b), w, [p \in Points |-> Remainder(ToInt(a.at[p], w), ToInt(b.at[p], w))])
  <2> DEFINE f == [p \in Points |-> Remainder(ToInt(a.at[p], w), ToInt(b.at[p], w))]
  <2>1. f \in [Points -> Int]
    <3> SUFFICES ASSUME NEW p \in Points PROVE Remainder(ToInt(a.at[p], w), ToInt(b.at[p], w)) \in Int
      OBVIOUS
    <3> QED
      BY ValueParts, SignedType, QuotientType
  <2>2. srem(a, b) = [width |-> w, at |-> [p \in Points |-> f[p] % 2 ^ w]]
    BY ValueParts DEF srem, Binary, Value, Val
  <2> HIDE DEF f
  <2>3. w \in Widths
    BY SomeWidths
  <2>4. Made(srem(a, b), w, f)
    BY <2>1, <2>2, <2>3, ValueMade
  <2> QED
    BY <2>4 DEF f
<1> QED
  BY <1>1, <1>2, <1>3, <1>4

\* The comparisons.
LEMMA ConditionsMade ==
  ASSUME NEW w \in Widths, NEW a \in Val(w), NEW b \in Val(w)
  PROVE  /\ Made(eq(a, b), 1, [p \in Points |-> Bool(a.at[p] = b.at[p])])
         /\ Made(ne(a, b), 1, [p \in Points |-> Bool(a.at[p] # b.at[p])])
         /\ Made(ult(a, b), 1, [p \in Points |-> Bool(a.at[p] < b.at[p])])
         /\ Made(uge(a, b), 1, [p \in Points |-> Bool(a.at[p] >= b.at[p])])
         /\ Made(slt(a, b), 1, [p \in Points |-> Bool(ToInt(a.at[p], w) < ToInt(b.at[p], w))])
         /\ Made(sge(a, b), 1, [p \in Points |-> Bool(ToInt(a.at[p], w) >= ToInt(b.at[p], w))])
<1>1. Made(eq(a, b), 1, [p \in Points |-> Bool(a.at[p] = b.at[p])])
  <2> DEFINE f == [p \in Points |-> Bool(a.at[p] = b.at[p])]
  <2>1. f \in [Points -> Int]
    <3> SUFFICES ASSUME NEW p \in Points PROVE Bool(a.at[p] = b.at[p]) \in Int
      OBVIOUS
    <3> QED
      BY ValueParts DEF Bool
  <2>2. eq(a, b) = [width |-> 1, at |-> [p \in Points |-> f[p] % 2 ^ 1]]
    BY ValueParts DEF eq, Binary, Value, Val
  <2> HIDE DEF f
  <2>3. 1 \in Widths
    BY SomeWidths
  <2>4. Made(eq(a, b), 1, f)
    BY <2>1, <2>2, <2>3, ValueMade
  <2> QED
    BY <2>4 DEF f
<1>2. Made(ne(a, b), 1, [p \in Points |-> Bool(a.at[p] # b.at[p])])
  <2> DEFINE f == [p \in Points |-> Bool(a.at[p] # b.at[p])]
  <2>1. f \in [Points -> Int]
    <3> SUFFICES ASSUME NEW p \in Points PROVE Bool(a.at[p] # b.at[p]) \in Int
      OBVIOUS
    <3> QED
      BY ValueParts DEF Bool
  <2>2. ne(a, b) = [width |-> 1, at |-> [p \in Points |-> f[p] % 2 ^ 1]]
    BY ValueParts DEF ne, Binary, Value, Val
  <2> HIDE DEF f
  <2>3. 1 \in Widths
    BY SomeWidths
  <2>4. Made(ne(a, b), 1, f)
    BY <2>1, <2>2, <2>3, ValueMade
  <2> QED
    BY <2>4 DEF f
<1>3. Made(ult(a, b), 1, [p \in Points |-> Bool(a.at[p] < b.at[p])])
  <2> DEFINE f == [p \in Points |-> Bool(a.at[p] < b.at[p])]
  <2>1. f \in [Points -> Int]
    <3> SUFFICES ASSUME NEW p \in Points PROVE Bool(a.at[p] < b.at[p]) \in Int
      OBVIOUS
    <3> QED
      BY ValueParts DEF Bool
  <2>2. ult(a, b) = [width |-> 1, at |-> [p \in Points |-> f[p] % 2 ^ 1]]
    BY ValueParts DEF ult, Binary, Value, Val
  <2> HIDE DEF f
  <2>3. 1 \in Widths
    BY SomeWidths
  <2>4. Made(ult(a, b), 1, f)
    BY <2>1, <2>2, <2>3, ValueMade
  <2> QED
    BY <2>4 DEF f
<1>4. Made(uge(a, b), 1, [p \in Points |-> Bool(a.at[p] >= b.at[p])])
  <2> DEFINE f == [p \in Points |-> Bool(a.at[p] >= b.at[p])]
  <2>1. f \in [Points -> Int]
    <3> SUFFICES ASSUME NEW p \in Points PROVE Bool(a.at[p] >= b.at[p]) \in Int
      OBVIOUS
    <3> QED
      BY ValueParts DEF Bool
  <2>2. uge(a, b) = [width |-> 1, at |-> [p \in Points |-> f[p] % 2 ^ 1]]
    BY ValueParts DEF uge, Binary, Value, Val
  <2> HIDE DEF f
  <2>3. 1 \in Widths
    BY SomeWidths
  <2>4. Made(uge(a, b), 1, f)
    BY <2>1, <2>2, <2>3, ValueMade
  <2> QED
    BY <2>4 DEF f
<1>5. Made(slt(a, b), 1, [p \in Points |-> Bool(ToInt(a.at[p], w) < ToInt(b.at[p], w))])
  <2> DEFINE f == [p \in Points |-> Bool(ToInt(a.at[p], w) < ToInt(b.at[p], w))]
  <2>1. f \in [Points -> Int]
    <3> SUFFICES ASSUME NEW p \in Points PROVE Bool(ToInt(a.at[p], w) < ToInt(b.at[p], w)) \in Int
      OBVIOUS
    <3> QED
      BY ValueParts DEF Bool
  <2>2. slt(a, b) = [width |-> 1, at |-> [p \in Points |-> f[p] % 2 ^ 1]]
    BY ValueParts DEF slt, Binary, Value, Val
  <2> HIDE DEF f
  <2>3. 1 \in Widths
    BY SomeWidths
  <2>4. Made(slt(a, b), 1, f)
    BY <2>1, <2>2, <2>3, ValueMade
  <2> QED
    BY <2>4 DEF f
<1>6. Made(sge(a, b), 1, [p \in Points |-> Bool(ToInt(a.at[p], w) >= ToInt(b.at[p], w))])
  <2> DEFINE f == [p \in Points |-> Bool(ToInt(a.at[p], w) >= ToInt(b.at[p], w))]
  <2>1. f \in [Points -> Int]
    <3> SUFFICES ASSUME NEW p \in Points PROVE Bool(ToInt(a.at[p], w) >= ToInt(b.at[p], w)) \in Int
      OBVIOUS
    <3> QED
      BY ValueParts DEF Bool
  <2>2. sge(a, b) = [width |-> 1, at |-> [p \in Points |-> f[p] % 2 ^ 1]]
    BY ValueParts DEF sge, Binary, Value, Val
  <2> HIDE DEF f
  <2>3. 1 \in Widths
    BY SomeWidths
  <2>4. Made(sge(a, b), 1, f)
    BY <2>1, <2>2, <2>3, ValueMade
  <2> QED
    BY <2>4 DEF f
<1> QED
  BY <1>1, <1>2, <1>3, <1>4, <1>5, <1>6

\* A shift amount is a legal exponent.
LEMMA ShiftBy ==
  ASSUME NEW k \in 0 .. XLEN - 1
  PROVE  2 ^ k \in Nat \ {0}
BY PowerType, WidthTypes, k \in 0 .. 2 * XLEN

\* Shifts by less than the width of a word.
LEMMA ShiftsMade ==
  ASSUME NEW w \in Widths, NEW a \in Val(w), NEW b \in Val(w),
         \A p \in Points : b.at[p] \in 0 .. XLEN - 1
  PROVE  /\ Made(lshl(a, b), w, [p \in Points |-> a.at[p] * 2 ^ b.at[p]])
         /\ Made(lshr(a, b), w, [p \in Points |-> a.at[p] \div 2 ^ b.at[p]])
         /\ Made(ashr(a, b), w, [p \in Points |-> ToInt(a.at[p], w) \div 2 ^ b.at[p]])
<1>1. Made(lshl(a, b), w, [p \in Points |-> a.at[p] * 2 ^ b.at[p]])
  <2> DEFINE f == [p \in Points |-> a.at[p] * 2 ^ b.at[p]]
  <2>1. f \in [Points -> Int]
    <3> SUFFICES ASSUME NEW p \in Points PROVE a.at[p] * 2 ^ b.at[p] \in Int
      OBVIOUS
    <3> QED
      BY ValueParts, ShiftBy
  <2>2. lshl(a, b) = [width |-> w, at |-> [p \in Points |-> f[p] % 2 ^ w]]
    BY ValueParts DEF lshl, Binary, Value, Val
  <2> HIDE DEF f
  <2>3. w \in Widths
    BY SomeWidths
  <2>4. Made(lshl(a, b), w, f)
    BY <2>1, <2>2, <2>3, ValueMade
  <2> QED
    BY <2>4 DEF f
<1>2. Made(lshr(a, b), w, [p \in Points |-> a.at[p] \div 2 ^ b.at[p]])
  <2> DEFINE f == [p \in Points |-> a.at[p] \div 2 ^ b.at[p]]
  <2>1. f \in [Points -> Int]
    <3> SUFFICES ASSUME NEW p \in Points PROVE a.at[p] \div 2 ^ b.at[p] \in Int
      OBVIOUS
    <3> QED
      BY ValueParts, ShiftBy, Division
  <2>2. lshr(a, b) = [width |-> w, at |-> [p \in Points |-> f[p] % 2 ^ w]]
    BY ValueParts DEF lshr, Binary, Value, Val
  <2> HIDE DEF f
  <2>3. w \in Widths
    BY SomeWidths
  <2>4. Made(lshr(a, b), w, f)
    BY <2>1, <2>2, <2>3, ValueMade
  <2> QED
    BY <2>4 DEF f
<1>3. Made(ashr(a, b), w, [p \in Points |-> ToInt(a.at[p], w) \div 2 ^ b.at[p]])
  <2> DEFINE f == [p \in Points |-> ToInt(a.at[p], w) \div 2 ^ b.at[p]]
  <2>1. f \in [Points -> Int]
    <3> SUFFICES ASSUME NEW p \in Points PROVE ToInt(a.at[p], w) \div 2 ^ b.at[p] \in Int
      OBVIOUS
    <3> QED
      BY ValueParts, ShiftBy, SignedType, Division
  <2>2. ashr(a, b) = [width |-> w, at |-> [p \in Points |-> f[p] % 2 ^ w]]
    BY ValueParts DEF ashr, Binary, Value, Val
  <2> HIDE DEF f
  <2>3. w \in Widths
    BY SomeWidths
  <2>4. Made(ashr(a, b), w, f)
    BY <2>1, <2>2, <2>3, ValueMade
  <2> QED
    BY <2>4 DEF f
<1> QED
  BY <1>1, <1>2, <1>3

\* zext, sext and extract.
LEMMA WidthsMade ==
  ASSUME NEW w \in Widths, NEW v \in Val(w), NEW z \in Widths, NEW off \in 0 .. 2 * XLEN
  PROVE  /\ Made(zext(v, z), z, [p \in Points |-> v.at[p]])
         /\ Made(sext(v, z), z, [p \in Points |-> ToInt(v.at[p], w)])
         /\ Made(extract(v, off, z), z, [p \in Points |-> v.at[p] \div 2 ^ off])
<1>1. Made(zext(v, z), z, [p \in Points |-> v.at[p]])
  <2> DEFINE f == [p \in Points |-> v.at[p]]
  <2>1. f \in [Points -> Int]
    <3> SUFFICES ASSUME NEW p \in Points PROVE v.at[p] \in Int
      OBVIOUS
    <3> QED
      BY ValueParts
  <2>2. zext(v, z) = [width |-> z, at |-> [p \in Points |-> f[p] % 2 ^ z]]
    BY ValueParts DEF zext, Unary, Value, Val
  <2> HIDE DEF f
  <2>3. z \in Widths
    BY SomeWidths
  <2>4. Made(zext(v, z), z, f)
    BY <2>1, <2>2, <2>3, ValueMade
  <2> QED
    BY <2>4 DEF f
<1>2. Made(sext(v, z), z, [p \in Points |-> ToInt(v.at[p], w)])
  <2> DEFINE f == [p \in Points |-> ToInt(v.at[p], w)]
  <2>1. f \in [Points -> Int]
    <3> SUFFICES ASSUME NEW p \in Points PROVE ToInt(v.at[p], w) \in Int
      OBVIOUS
    <3> QED
      BY ValueParts, SignedType
  <2>2. sext(v, z) = [width |-> z, at |-> [p \in Points |-> f[p] % 2 ^ z]]
    BY ValueParts DEF sext, Unary, Value, Val
  <2> HIDE DEF f
  <2>3. z \in Widths
    BY SomeWidths
  <2>4. Made(sext(v, z), z, f)
    BY <2>1, <2>2, <2>3, ValueMade
  <2> QED
    BY <2>4 DEF f
<1>3. Made(extract(v, off, z), z, [p \in Points |-> v.at[p] \div 2 ^ off])
  <2> DEFINE f == [p \in Points |-> v.at[p] \div 2 ^ off]
  <2>1. f \in [Points -> Int]
    <3> SUFFICES ASSUME NEW p \in Points PROVE v.at[p] \div 2 ^ off \in Int
      OBVIOUS
    <3> QED
      BY ValueParts, PowerType, Division
  <2>2. extract(v, off, z) = [width |-> z, at |-> [p \in Points |-> f[p] % 2 ^ z]]
    BY ValueParts DEF extract, Unary, Value, Val
  <2> HIDE DEF f
  <2>3. z \in Widths
    BY SomeWidths
  <2>4. Made(extract(v, off, z), z, f)
    BY <2>1, <2>2, <2>3, ValueMade
  <2> QED
    BY <2>4 DEF f
<1> QED
  BY <1>1, <1>2, <1>3

\* concat.
LEMMA ConcatMade ==
  ASSUME NEW w \in Widths, NEW z \in Widths, w + z \in Widths, NEW a \in Val(w), NEW b \in Val(z)
  PROVE  /\ Made(concat(a, b), w + z, [p \in Points |-> a.at[p] * 2 ^ z + b.at[p]])
<1>1. Made(concat(a, b), w + z, [p \in Points |-> a.at[p] * 2 ^ z + b.at[p]])
  <2> DEFINE f == [p \in Points |-> a.at[p] * 2 ^ z + b.at[p]]
  <2>1. f \in [Points -> Int]
    <3> SUFFICES ASSUME NEW p \in Points PROVE a.at[p] * 2 ^ z + b.at[p] \in Int
      OBVIOUS
    <3> QED
      BY ValueParts
  <2>2. concat(a, b) = [width |-> w + z, at |-> [p \in Points |-> f[p] % 2 ^ (w + z)]]
    BY ValueParts DEF concat, Binary, Value, Val
  <2> HIDE DEF f
  <2>3. w + z \in Widths
    BY SomeWidths
  <2>4. Made(concat(a, b), w + z, f)
    BY <2>1, <2>2, <2>3, ValueMade
  <2> QED
    BY <2>4 DEF f
<1> QED
  BY <1>1

\* select.
LEMMA SelectMade ==
  ASSUME NEW w \in Widths, NEW a \in Val(w), NEW b \in Val(w), NEW c
  PROVE  /\ Made(select(c, a, b), w, [p \in Points |-> (IF c.at[p] = 1 THEN a.at[p] ELSE b.at[p])])
<1>1. Made(select(c, a, b), w, [p \in Points |-> (IF c.at[p] = 1 THEN a.at[p] ELSE b.at[p])])
  <2> DEFINE f == [p \in Points |-> (IF c.at[p] = 1 THEN a.at[p] ELSE b.at[p])]
  <2>1. f \in [Points -> Int]
    <3> SUFFICES ASSUME NEW p \in Points PROVE (IF c.at[p] = 1 THEN a.at[p] ELSE b.at[p]) \in Int
      OBVIOUS
    <3> QED
      BY ValueParts
  <2>2. select(c, a, b) = [width |-> w, at |-> [p \in Points |-> f[p] % 2 ^ w]]
    BY ValueParts DEF select, Value, Val
  <2> HIDE DEF f
  <2>3. w \in Widths
    BY SomeWidths
  <2>4. Made(select(c, a, b), w, f)
    BY <2>1, <2>2, <2>3, ValueMade
  <2> QED
    BY <2>4 DEF f
<1> QED
  BY <1>1

\* Const.
LEMMA ConstMade ==
  ASSUME NEW w \in Widths, NEW n \in Int
  PROVE  /\ Made(Const(w, n), w, [p \in Points |-> n])
<1>1. Made(Const(w, n), w, [p \in Points |-> n])
  <2> DEFINE f == [p \in Points |-> n]
  <2>1. f \in [Points -> Int]
    <3> SUFFICES ASSUME NEW p \in Points PROVE n \in Int
      OBVIOUS
    <3> QED
      BY n \in Int
  <2>2. Const(w, n) = [width |-> w, at |-> [p \in Points |-> f[p] % 2 ^ w]]
    BY ValueParts DEF Const, Value, Val
  <2> HIDE DEF f
  <2>3. w \in Widths
    BY SomeWidths
  <2>4. Made(Const(w, n), w, f)
    BY <2>1, <2>2, <2>3, ValueMade
  <2> QED
    BY <2>4 DEF f
<1> QED
  BY <1>1

-----------------------------------------------------------------------------
(* The simulator at a point mirrors a reference machine. *)

Cells == Memory \cup Control \cup Bounds
Statuses == {"running", "exited", "error", "aborted"}

Machines ==
  {m \in [regs : [Regs -> 0 .. M - 1], mem : [Cells -> 0 .. Radix - 1], pc : 0 .. M - 1, csr : Int, nread : Nat,
          status : Statuses] : m.regs[0] = 0}

StateOK ==
  /\ regs \in [Regs -> Val(XLEN)]
  /\ mem \in [Memory -> Val(CHAR_BIT)]
  /\ pc \in 0 .. M - 1
  /\ mscratch \in Int
  /\ ctrl \in [0 .. 2 -> 0 .. M - 1]
  /\ sensor \in [lower : 0 .. M - 1, upper : 0 .. M - 1, nread : Nat]
  /\ status \in Statuses
  /\ current \in Inputs
  /\ traced \subseteq Inputs
  /\ concretised \subseteq Inputs

\* What the machine of every followed input has in common with the simulator.
Common(m) ==
  /\ m.pc = pc /\ m.status = status /\ m.csr = mscratch /\ m.nread = sensor.nread
  /\ \A k \in 0 .. 2 : ctrl[k] = RefWord(m, CtrlStart + 4 * k, 4)
  /\ sensor.lower = RefWord(m, SensorStart, 4) /\ sensor.upper = RefWord(m, SensorStart + 4, 4)

\* What it has of its own.
Looks(p, m) ==
  /\ \A r \in Regs : regs[r].at[p] = m.regs[r]
  /\ \A b \in Memory : mem[b].at[p] = m.mem[b]

\* Point p shows the execution of input i: its own point, or point 0 if it is the
\* current one.
Shows(p, i) == p = i \/ (p = 0 /\ i = current)

Mirrors(p, i, m) ==
  /\ StateOK
  /\ i \in Inputs /\ p \in Points /\ Shows(p, i)
  /\ m \in Machines
  /\ Common(m)
  /\ Looks(p, m)

\* The value v has at p, as a word, what the reference computes as x.
Gives(v, p, x) == (\E w \in Widths : v \in Val(w)) /\ x \in Int /\ v.at[p] % M = x % M

\* Register x0 and point 0 exist, and every input is a point.
LEMMA ZeroReg == 0 \in Regs /\ 0 \in Points /\ Inputs \subseteq Points
BY LayoutAssumption, InputsAssumption DEF Regs, Points, Inputs

\* A remainder by the word size is a word.
LEMMA ModWord ==
  ASSUME NEW x \in Int
  PROVE  x % M \in 0 .. M - 1 /\ (x % M) % M = x % M
<1>1. M \in Nat \ {0}
  BY Powers
<1>2. x % M \in 0 .. M - 1
  BY <1>1, Division
<1>3. ASSUME NEW y \in 0 .. M - 1 PROVE y % M = y
  BY <1>1
<1> QED
  BY <1>2, <1>3

\* A word is its own remainder.
LEMMA SmallWord ==
  ASSUME NEW y \in 0 .. M - 1
  PROVE  y % M = y
BY Powers

\* A word that was made of integers.
LEMMA GivesWord ==
  ASSUME NEW v, NEW f, Made(v, XLEN, f), NEW p \in Points, NEW x \in Int, f[p] = x
  PROVE  Gives(v, p, x)
<1>1. v.at[p] = f[p] % M /\ v \in Val(XLEN)
  BY DEF Made, M
<1> QED
  BY <1>1, ModWord, SomeWidths DEF Gives

\* A truth value.
LEMMA GivesTruth ==
  ASSUME NEW v, NEW f, Made(v, 1, f), NEW p \in Points, NEW x \in 0 .. 1, f[p] = x
  PROVE  Gives(v, p, x)
<1>1. v.at[p] = f[p] % 2 /\ v \in Val(1)
  <2>1. 2 ^ 1 = 2
    OBVIOUS
  <2> QED
    BY <2>1 DEF Made
<1>2. f[p] % 2 = x
  OBVIOUS
<1> QED
  BY <1>1, <1>2, SomeWidths DEF Gives

\* The manual's signed reading of a word is the simulator's.
LEMMA SignedIs ==
  ASSUME NEW n \in 0 .. M - 1
  PROVE  S(n) = ToInt(n, XLEN) /\ S(n) \in -Half .. Half - 1
<1>1. M \div 2 = Half
  BY Powers
<1> QED
  BY <1>1, Powers DEF S, ToInt, M, Half

\* A constant is the same at every point.
LEMMA WordConst ==
  ASSUME NEW n \in Int
  PROVE  BVC(n) \in Val(XLEN) /\ \A p \in Points : BVC(n).at[p] = n % M
<1>1. Made(BVC(n), XLEN, [p \in Points |-> n])
  BY SomeWidths, ConstMade DEF BVC
<1> QED
  BY <1>1 DEF Made, M

\* RegFile::write and the reset of x0 against the reference.
LEMMA WrittenShows ==
  ASSUME NEW m \in Machines, regs \in [Regs -> Val(XLEN)], NEW p \in Points, \A r \in Regs : regs[r].at[p] = m.regs[r],
         NEW rd \in Regs, NEW v, NEW x, Gives(v, p, x)
  PROVE  /\ Written(rd, v) \in [Regs -> Val(XLEN)]
         /\ \A r \in Regs : Written(rd, v)[r].at[p] = RefSet(m, rd, x).regs[r]
         /\ RefSet(m, rd, x).regs \in [Regs -> 0 .. M - 1] /\ RefSet(m, rd, x).regs[0] = 0
<1>1. PICK w \in Widths : v \in Val(w)
  BY DEF Gives
<1>2. zext(v, XLEN) \in Val(XLEN) /\ zext(v, XLEN).at[p] = v.at[p] % M
  <2>1. Made(zext(v, XLEN), XLEN, [q \in Points |-> v.at[q]])
    BY <1>1, SomeWidths, WidthTypes, WidthsMade, 0 \in 0 .. 2 * XLEN
  <2> QED
    BY <2>1 DEF Made, M
<1>3. BVC(0) \in Val(XLEN) /\ BVC(0).at[p] = 0
  <2>1. 0 % M = 0 /\ 0 \in Int
    BY SmallWord, Powers
  <2> QED
    BY <2>1, WordConst
<1>4. Written(rd, v) = [r \in Regs |-> IF r = 0 THEN BVC(0) ELSE IF r = rd THEN zext(v, XLEN) ELSE regs[r]]
  BY ZeroReg DEF Written
<1>5. RefSet(m, rd, x).regs = [r \in Regs |-> IF r = rd THEN (IF rd = 0 THEN 0 ELSE x % M) ELSE m.regs[r]]
  BY DEF RefSet, Machines
<1>6. x % M \in 0 .. M - 1 /\ 0 \in 0 .. M - 1 /\ v.at[p] % M = x % M
  BY ModWord, Powers DEF Gives
<1>7. m.regs \in [Regs -> 0 .. M - 1] /\ m.regs[0] = 0
  BY DEF Machines
<1> HIDE DEF BVC, zext, Written, RefSet
<1>8. Written(rd, v) \in [Regs -> Val(XLEN)]
  BY <1>2, <1>3, <1>4
<1>9. \A r \in Regs : Written(rd, v)[r].at[p] = RefSet(m, rd, x).regs[r]
  BY <1>2, <1>3, <1>4, <1>5, <1>6, <1>7
<1> QED
  BY <1>5, <1>6, <1>7, <1>8, <1>9, ZeroReg

\* A word of the reference depends on its memory alone.
LEMMA WordIsOfMemory ==
  ASSUME NEW m, NEW z, z.mem = m.mem, NEW a, NEW n
  PROVE  RefWord(z, a, n) = RefWord(m, a, n)
BY DEF RefWord

\* What follows an instruction that only writes rd.
LEMMA WriteRdMirrors ==
  ASSUME NEW p, NEW i, NEW m, Mirrors(p, i, m), NEW rd \in Regs, NEW v, NEW x, Gives(v, p, x),
         regs' = Written(rd, v), pc' = NextPc, UNCHANGED <<mem, ctrl, sensor, status, current>>,
         mscratch' = mscratch, traced' \subseteq traced, concretised' \subseteq concretised
  PROVE  Mirrors(p, i, RefSet(m, rd, x))'
<1> DEFINE z == RefSet(m, rd, x)
<1>1. /\ Written(rd, v) \in [Regs -> Val(XLEN)]
      /\ \A r \in Regs : Written(rd, v)[r].at[p] = z.regs[r]
      /\ z.regs \in [Regs -> 0 .. M - 1] /\ z.regs[0] = 0
  BY WrittenShows DEF Mirrors, StateOK, Looks
<1>2. NextPc \in 0 .. M - 1 /\ z.pc = NextPc
  <2>1. pc + 4 \in Int /\ m.pc = pc
    BY DEF Mirrors, StateOK, Common
  <2>2. z.pc = (m.pc + 4) % M
    BY DEF RefSet, Mirrors, Machines
  <2> QED
    BY <2>1, <2>2, ModWord DEF NextPc, M
<1>3. z = [m EXCEPT !.regs = z.regs, !.pc = z.pc]
  BY DEF RefSet, Mirrors, Machines
<1> HIDE DEF z
<1>4. z \in Machines /\ z.mem = m.mem /\ z.csr = m.csr /\ z.nread = m.nread /\ z.status = m.status
  BY <1>1, <1>2, <1>3 DEF Mirrors, Machines
<1>5. StateOK'
  BY <1>1, <1>2 DEF Mirrors, StateOK
<1>6. Common(z)'
  BY <1>2, <1>4, WordIsOfMemory DEF Mirrors, Common
<1>7. Looks(p, z)'
  BY <1>1, <1>4 DEF Mirrors, Looks
<1>8. Shows(p, i)'
  BY DEF Mirrors, Shows
<1> QED
  BY <1>4, <1>5, <1>6, <1>7, <1>8 DEF Mirrors, z

-----------------------------------------------------------------------------
(* Arithmetic. *)

\* The operations on two words.
LEMMA WordGives ==
  ASSUME NEW a \in Val(XLEN), NEW b \in Val(XLEN), NEW p \in Points
  PROVE  /\ Gives(add(a, b), p, a.at[p] + b.at[p])
         /\ Gives(sub(a, b), p, a.at[p] - b.at[p])
         /\ Gives(bxor(a, b), p, BitXor(a.at[p], b.at[p]))
         /\ Gives(bor(a, b), p, BitOr(a.at[p], b.at[p]))
         /\ Gives(band(a, b), p, BitAnd(a.at[p], b.at[p]))
         /\ Gives(udiv(a, b), p, Quotient(a.at[p], b.at[p]))
         /\ Gives(urem(a, b), p, Remainder(a.at[p], b.at[p]))
         /\ Gives(sdiv(a, b), p, Quotient(ToInt(a.at[p], XLEN), ToInt(b.at[p], XLEN)))
         /\ Gives(srem(a, b), p, Remainder(ToInt(a.at[p], XLEN), ToInt(b.at[p], XLEN)))
<1>1. Gives(add(a, b), p, a.at[p] + b.at[p])
  <2>1. Made(add(a, b), XLEN, [q \in Points |-> a.at[q] + b.at[q]])
    BY SomeWidths, SumsMade
  <2>2. a.at[p] + b.at[p] \in Int
    BY SomeWidths, ValueParts, TRUE
  <2> QED
    BY <2>1, <2>2, GivesWord
<1>2. Gives(sub(a, b), p, a.at[p] - b.at[p])
  <2>1. Made(sub(a, b), XLEN, [q \in Points |-> a.at[q] - b.at[q]])
    BY SomeWidths, SumsMade
  <2>2. a.at[p] - b.at[p] \in Int
    BY SomeWidths, ValueParts, TRUE
  <2> QED
    BY <2>1, <2>2, GivesWord
<1>3. Gives(bxor(a, b), p, BitXor(a.at[p], b.at[p]))
  <2>1. Made(bxor(a, b), XLEN, [q \in Points |-> BitXor(a.at[q], b.at[q])])
    BY SomeWidths, BitsMade
  <2>2. BitXor(a.at[p], b.at[p]) \in Int
    BY SomeWidths, ValueParts, BitsAreIntegers
  <2> QED
    BY <2>1, <2>2, GivesWord
<1>4. Gives(bor(a, b), p, BitOr(a.at[p], b.at[p]))
  <2>1. Made(bor(a, b), XLEN, [q \in Points |-> BitOr(a.at[q], b.at[q])])
    BY SomeWidths, BitsMade
  <2>2. BitOr(a.at[p], b.at[p]) \in Int
    BY SomeWidths, ValueParts, BitsAreIntegers
  <2> QED
    BY <2>1, <2>2, GivesWord
<1>5. Gives(band(a, b), p, BitAnd(a.at[p], b.at[p]))
  <2>1. Made(band(a, b), XLEN, [q \in Points |-> BitAnd(a.at[q], b.at[q])])
    BY SomeWidths, BitsMade
  <2>2. BitAnd(a.at[p], b.at[p]) \in Int
    BY SomeWidths, ValueParts, BitsAreIntegers
  <2> QED
    BY <2>1, <2>2, GivesWord
<1>6. Gives(udiv(a, b), p, Quotient(a.at[p], b.at[p]))
  <2>1. Made(udiv(a, b), XLEN, [q \in Points |-> Quotient(a.at[q], b.at[q])])
    BY SomeWidths, QuotientsMade
  <2>2. Quotient(a.at[p], b.at[p]) \in Int
    BY SomeWidths, ValueParts, QuotientType
  <2> QED
    BY <2>1, <2>2, GivesWord
<1>7. Gives(urem(a, b), p, Remainder(a.at[p], b.at[p]))
  <2>1. Made(urem(a, b), XLEN, [q \in Points |-> Remainder(a.at[q], b.at[q])])
    BY SomeWidths, QuotientsMade
  <2>2. Remainder(a.at[p], b.at[p]) \in Int
    BY SomeWidths, ValueParts, QuotientType
  <2> QED
    BY <2>1, <2>2, GivesWord
<1>8. Gives(sdiv(a, b), p, Quotient(ToInt(a.at[p], XLEN), ToInt(b.at[p], XLEN)))
  <2>1. Made(sdiv(a, b), XLEN, [q \in Points |-> Quotient(ToInt(a.at[q], XLEN), ToInt(b.at[q], XLEN))])
    BY SomeWidths, QuotientsMade
  <2>2. Quotient(ToInt(a.at[p], XLEN), ToInt(b.at[p], XLEN)) \in Int
    BY SomeWidths, ValueParts, SignedType, QuotientType
  <2> QED
    BY <2>1, <2>2, GivesWord
<1>9. Gives(srem(a, b), p, Remainder(ToInt(a.at[p], XLEN), ToInt(b.at[p], XLEN)))
  <2>1. Made(srem(a, b), XLEN, [q \in Points |-> Remainder(ToInt(a.at[q], XLEN), ToInt(b.at[q], XLEN))])
    BY SomeWidths, QuotientsMade
  <2>2. Remainder(ToInt(a.at[p], XLEN), ToInt(b.at[p], XLEN)) \in Int
    BY SomeWidths, ValueParts, SignedType, QuotientType
  <2> QED
    BY <2>1, <2>2, GivesWord
<1> QED
  BY <1>1, <1>2, <1>3, <1>4, <1>5, <1>6, <1>7, <1>8, <1>9

\* The comparisons of two words.
LEMMA TruthGives ==
  ASSUME NEW a \in Val(XLEN), NEW b \in Val(XLEN), NEW p \in Points
  PROVE  /\ Gives(slt(a, b), p, Bool(ToInt(a.at[p], XLEN) < ToInt(b.at[p], XLEN)))
         /\ Gives(ult(a, b), p, Bool(a.at[p] < b.at[p]))
<1>1. Gives(slt(a, b), p, Bool(ToInt(a.at[p], XLEN) < ToInt(b.at[p], XLEN)))
  <2>1. Made(slt(a, b), 1, [q \in Points |-> Bool(ToInt(a.at[q], XLEN) < ToInt(b.at[q], XLEN))])
    BY SomeWidths, ConditionsMade
  <2>2. Bool(ToInt(a.at[p], XLEN) < ToInt(b.at[p], XLEN)) \in 0 .. 1
    BY SomeWidths, ValueParts, TRUE DEF Bool
  <2> QED
    BY <2>1, <2>2, GivesTruth
<1>2. Gives(ult(a, b), p, Bool(a.at[p] < b.at[p]))
  <2>1. Made(ult(a, b), 1, [q \in Points |-> Bool(a.at[q] < b.at[q])])
    BY SomeWidths, ConditionsMade
  <2>2. Bool(a.at[p] < b.at[p]) \in 0 .. 1
    BY SomeWidths, ValueParts, TRUE DEF Bool
  <2> QED
    BY <2>1, <2>2, GivesTruth
<1> QED
  BY <1>1, <1>2

\* Shifts.
LEMMA ShiftGives ==
  ASSUME NEW a \in Val(XLEN), NEW b \in Val(XLEN), NEW p \in Points,
         \A q \in Points : b.at[q] \in 0 .. XLEN - 1
  PROVE  /\ Gives(lshl(a, b), p, a.at[p] * 2 ^ b.at[p])
         /\ Gives(lshr(a, b), p, a.at[p] \div 2 ^ b.at[p])
         /\ Gives(ashr(a, b), p, ToInt(a.at[p], XLEN) \div 2 ^ b.at[p])
<1>1. Gives(lshl(a, b), p, a.at[p] * 2 ^ b.at[p])
  <2>1. Made(lshl(a, b), XLEN, [q \in Points |-> a.at[q] * 2 ^ b.at[q]])
    BY SomeWidths, ShiftsMade
  <2>2. a.at[p] * 2 ^ b.at[p] \in Int
    BY SomeWidths, ValueParts, ShiftBy
  <2> QED
    BY <2>1, <2>2, GivesWord
<1>2. Gives(lshr(a, b), p, a.at[p] \div 2 ^ b.at[p])
  <2>1. Made(lshr(a, b), XLEN, [q \in Points |-> a.at[q] \div 2 ^ b.at[q]])
    BY SomeWidths, ShiftsMade
  <2>2. a.at[p] \div 2 ^ b.at[p] \in Int
    BY SomeWidths, ValueParts, ShiftBy, Division
  <2> QED
    BY <2>1, <2>2, GivesWord
<1>3. Gives(ashr(a, b), p, ToInt(a.at[p], XLEN) \div 2 ^ b.at[p])
  <2>1. Made(ashr(a, b), XLEN, [q \in Points |-> ToInt(a.at[q], XLEN) \div 2 ^ b.at[q]])
    BY SomeWidths, ShiftsMade
  <2>2. ToInt(a.at[p], XLEN) \div 2 ^ b.at[p] \in Int
    BY SomeWidths, ValueParts, ShiftBy, Division, SignedType
  <2> QED
    BY <2>1, <2>2, GivesWord
<1> QED
  BY <1>1, <1>2, <1>3

\* RegFile::shamt: the lowest bits of the register.
LEMMA ShamtIs ==
  ASSUME regs \in [Regs -> Val(XLEN)], NEW r \in Regs
  PROVE  /\ shamt(r) \in Val(XLEN)
         /\ \A p \in Points : shamt(r).at[p] = regs[r].at[p] % XLEN /\ shamt(r).at[p] \in 0 .. XLEN - 1
<1> DEFINE low == extract(regs[r], 0, ShamtBits)
<1>1. ShamtBits \in Widths /\ 0 \in 0 .. 2 * XLEN /\ XLEN \in Nat \ {0}
  BY WidthTypes DEF Widths
<1>2. Made(low, ShamtBits, [q \in Points |-> regs[r].at[q] \div 2 ^ 0])
  BY <1>1, SomeWidths, WidthsMade
<1> HIDE DEF low
<1>3. low \in Val(ShamtBits)
  BY <1>2 DEF Made
<1>4. Made(zext(low, XLEN), XLEN, [q \in Points |-> low.at[q]])
  BY <1>1, <1>3, SomeWidths, WidthsMade
<1>5. ASSUME NEW p \in Points
      PROVE  shamt(r).at[p] = regs[r].at[p] % XLEN /\ shamt(r).at[p] \in 0 .. XLEN - 1
  <2>1. regs[r].at[p] \in Int
    BY SomeWidths, ValueParts
  <2>2. low.at[p] = regs[r].at[p] % XLEN
    <3>1. regs[r].at[p] \div 2 ^ 0 = regs[r].at[p]
      BY <2>1, Powers
    <3> QED
      BY <1>2, <3>1, Powers DEF Made
  <2>3. low.at[p] \in 0 .. XLEN - 1
    BY <2>1, <2>2, <1>1, Division
  <2>4. low.at[p] % M = low.at[p]
    BY <2>3, SmallWord, Powers, WidthTypes
  <2> QED
    BY <1>4, <2>2, <2>3, <2>4 DEF Made, M, shamt, low
<1> QED
  BY <1>4, <1>5 DEF Made, shamt, low

\* Register-register instructions.
LEMMA RegOpGives ==
  ASSUME regs \in [Regs -> Val(XLEN)], NEW r \in Regs, NEW a \in Val(XLEN), NEW p \in Points, NEW op \in RegOps
  PROVE  Gives(RegOp(op, a, r), p, RefAlu(op, a.at[p], regs[r].at[p]))
<1> DEFINE b == regs[r]
           sh == shamt(r)
           x == a.at[p]
           y == b.at[p]
<1> USE SomeWidths
<1>a. b \in Val(XLEN) /\ x \in 0 .. M - 1 /\ y \in 0 .. M - 1
  BY ValueParts DEF M
<1>b. S(x) = ToInt(x, XLEN) /\ S(y) = ToInt(y, XLEN)
  BY <1>a, SignedIs
<1>c. sh \in Val(XLEN) /\ (\A q \in Points : sh.at[q] \in 0 .. XLEN - 1) /\ sh.at[p] = y % XLEN
  BY ShamtIs
<1> HIDE DEF b, sh, x, y
<1>1. CASE op = "ADD"
  <2>1. RegOp(op, a, r) = add(a, b) /\ RefAlu(op, a.at[p], regs[r].at[p]) = x + y
    BY <1>1, <1>c DEF RegOp, RefAlu, Bool, b, x, y, sh
  <2> QED
    BY <2>1, <1>a, WordGives DEF x, y
<1>2. CASE op = "SUB"
  <2>1. RegOp(op, a, r) = sub(a, b) /\ RefAlu(op, a.at[p], regs[r].at[p]) = x - y
    BY <1>2, <1>c DEF RegOp, RefAlu, Bool, b, x, y, sh
  <2> QED
    BY <2>1, <1>a, WordGives DEF x, y
<1>3. CASE op = "XOR"
  <2>1. RegOp(op, a, r) = bxor(a, b) /\ RefAlu(op, a.at[p], regs[r].at[p]) = BitXor(x, y)
    BY <1>3, <1>c DEF RegOp, RefAlu, Bool, b, x, y, sh
  <2> QED
    BY <2>1, <1>a, WordGives DEF x, y
<1>4. CASE op = "OR"
  <2>1. RegOp(op, a, r) = bor(a, b) /\ RefAlu(op, a.at[p], regs[r].at[p]) = BitOr(x, y)
    BY <1>4, <1>c DEF RegOp, RefAlu, Bool, b, x, y, sh
  <2> QED
    BY <2>1, <1>a, WordGives DEF x, y
<1>5. CASE op = "AND"
  <2>1. RegOp(op, a, r) = band(a, b) /\ RefAlu(op, a.at[p], regs[r].at[p]) = BitAnd(x, y)
    BY <1>5, <1>c DEF RegOp, RefAlu, Bool, b, x, y, sh
  <2> QED
    BY <2>1, <1>a, WordGives DEF x, y
<1>6. CASE op = "SLT"
  <2>1. RegOp(op, a, r) = slt(a, b) /\ RefAlu(op, a.at[p], regs[r].at[p]) = Bool(S(x) < S(y))
    BY <1>6, <1>c DEF RegOp, RefAlu, Bool, b, x, y, sh
  <2> QED
    BY <2>1, <1>a, <1>b, TruthGives DEF x, y
<1>7. CASE op = "SLTU"
  <2>1. RegOp(op, a, r) = ult(a, b) /\ RefAlu(op, a.at[p], regs[r].at[p]) = Bool(x < y)
    BY <1>7, <1>c DEF RegOp, RefAlu, Bool, b, x, y, sh
  <2> QED
    BY <2>1, <1>a, TruthGives DEF x, y
<1>8. CASE op = "SLL"
  <2>1. RegOp(op, a, r) = lshl(a, sh) /\ RefAlu(op, a.at[p], regs[r].at[p]) = x * 2 ^ (sh.at[p])
    BY <1>8, <1>c DEF RegOp, RefAlu, Bool, b, x, y, sh
  <2> QED
    BY <2>1, <1>a, <1>c, ShiftGives DEF x
<1>9. CASE op = "SRL"
  <2>1. RegOp(op, a, r) = lshr(a, sh) /\ RefAlu(op, a.at[p], regs[r].at[p]) = x \div 2 ^ (sh.at[p])
    BY <1>9, <1>c DEF RegOp, RefAlu, Bool, b, x, y, sh
  <2> QED
    BY <2>1, <1>a, <1>c, ShiftGives DEF x
<1>10. CASE op = "SRA"
  <2>1. RegOp(op, a, r) = ashr(a, sh) /\ RefAlu(op, a.at[p], regs[r].at[p]) = S(x) \div 2 ^ (sh.at[p])
    BY <1>10, <1>c DEF RegOp, RefAlu, Bool, b, x, y, sh
  <2> QED
    BY <2>1, <1>a, <1>b, <1>c, ShiftGives DEF x
<1> QED
  BY <1>1, <1>2, <1>3, <1>4, <1>5, <1>6, <1>7, <1>8, <1>9, <1>10 DEF RegOps

\* A word value gives its own number.
LEMMA WordIsItself ==
  ASSUME NEW v \in Val(XLEN), NEW p \in Points
  PROVE  Gives(v, p, v.at[p])
BY SomeWidths, ValueParts DEF Gives

\* Register-immediate instructions.
LEMMA ImmOpGives ==
  ASSUME NEW a \in Val(XLEN), NEW p \in Points, NEW op \in ImmOps \ {"AUIPC"}, NEW imm \in Int,
         op \in {"SLLI", "SRLI", "SRAI"} => imm \in 0 .. XLEN - 1
  PROVE  Gives(ImmOp(op, a, BVC(imm)), p, RefAlu(op, a.at[p], imm % M))
<1> DEFINE b == BVC(imm)
           x == a.at[p]
           y == b.at[p]
<1> USE SomeWidths
<1>a. b \in Val(XLEN) /\ x \in 0 .. M - 1 /\ y \in 0 .. M - 1 /\ y = imm % M
  BY ValueParts, WordConst DEF M
<1>b. S(x) = ToInt(x, XLEN) /\ S(y) = ToInt(y, XLEN)
  BY <1>a, SignedIs
<1>c. imm \in 0 .. XLEN - 1 => (\A q \in Points : b.at[q] \in 0 .. XLEN - 1) /\ y % XLEN = y
  <2> SUFFICES ASSUME imm \in 0 .. XLEN - 1 PROVE (\A q \in Points : b.at[q] \in 0 .. XLEN - 1) /\ y % XLEN = y
    OBVIOUS
  <2>1. imm % M = imm
    BY SmallWord, Powers, WidthTypes
  <2>2. imm % XLEN = imm
    BY WidthTypes
  <2> QED
    BY <2>1, <2>2, WordConst
<1> HIDE DEF b, x, y
<1>1. CASE op = "ADDI"
  <2>1. ImmOp(op, a, BVC(imm)) = add(a, b) /\ RefAlu(op, a.at[p], imm % M) = x + y
    BY <1>1, <1>a, <1>c DEF ImmOp, RefAlu, Bool, b, x
  <2> QED
    BY <2>1, <1>a, WordGives DEF x, y
<1>2. CASE op = "SLTI"
  <2>1. ImmOp(op, a, BVC(imm)) = slt(a, b) /\ RefAlu(op, a.at[p], imm % M) = Bool(S(x) < S(y))
    BY <1>2, <1>a, <1>c DEF ImmOp, RefAlu, Bool, b, x
  <2> QED
    BY <2>1, <1>a, <1>b, TruthGives DEF x, y
<1>3. CASE op = "SLTIU"
  <2>1. ImmOp(op, a, BVC(imm)) = ult(a, b) /\ RefAlu(op, a.at[p], imm % M) = Bool(x < y)
    BY <1>3, <1>a, <1>c DEF ImmOp, RefAlu, Bool, b, x
  <2> QED
    BY <2>1, <1>a, TruthGives DEF x, y
<1>4. CASE op = "XORI"
  <2>1. ImmOp(op, a, BVC(imm)) = bxor(a, b) /\ RefAlu(op, a.at[p], imm % M) = BitXor(x, y)
    BY <1>4, <1>a, <1>c DEF ImmOp, RefAlu, Bool, b, x
  <2> QED
    BY <2>1, <1>a, WordGives DEF x, y
<1>5. CASE op = "ORI"
  <2>1. ImmOp(op, a, BVC(imm)) = bor(a, b) /\ RefAlu(op, a.at[p], imm % M) = BitOr(x, y)
    BY <1>5, <1>a, <1>c DEF ImmOp, RefAlu, Bool, b, x
  <2> QED
    BY <2>1, <1>a, WordGives DEF x, y
<1>6. CASE op = "ANDI"
  <2>1. ImmOp(op, a, BVC(imm)) = band(a, b) /\ RefAlu(op, a.at[p], imm % M) = BitAnd(x, y)
    BY <1>6, <1>a, <1>c DEF ImmOp, RefAlu, Bool, b, x
  <2> QED
    BY <2>1, <1>a, WordGives DEF x, y
<1>7. CASE op = "SLLI"
  <2>1. ImmOp(op, a, BVC(imm)) = lshl(a, b) /\ RefAlu(op, a.at[p], imm % M) = x * 2 ^ y
    BY <1>7, <1>a, <1>c DEF ImmOp, RefAlu, Bool, b, x
  <2> QED
    BY <2>1, <1>a, <1>c, <1>7, ShiftGives DEF x, y
<1>8. CASE op = "SRLI"
  <2>1. ImmOp(op, a, BVC(imm)) = lshr(a, b) /\ RefAlu(op, a.at[p], imm % M) = x \div 2 ^ y
    BY <1>8, <1>a, <1>c DEF ImmOp, RefAlu, Bool, b, x
  <2> QED
    BY <2>1, <1>a, <1>c, <1>8, ShiftGives DEF x, y
<1>9. CASE op = "SRAI"
  <2>1. ImmOp(op, a, BVC(imm)) = ashr(a, b) /\ RefAlu(op, a.at[p], imm % M) = S(x) \div 2 ^ y
    BY <1>9, <1>a, <1>c DEF ImmOp, RefAlu, Bool, b, x
  <2> QED
    BY <2>1, <1>a, <1>b, <1>c, <1>9, ShiftGives DEF x, y
<1>10. CASE op = "LUI"
  <2>1. ImmOp(op, a, BVC(imm)) = b /\ RefAlu(op, a.at[p], imm % M) = y
    BY <1>10, <1>a, <1>c DEF ImmOp, RefAlu, Bool, b, x
  <2> QED
    BY <2>1, <1>a, WordIsItself DEF y
<1> QED
  BY <1>1, <1>2, <1>3, <1>4, <1>5, <1>6, <1>7, <1>8, <1>9, <1>10 DEF ImmOps

\* A word in twice the width.
LEMMA WideIs ==
  ASSUME NEW a \in Val(XLEN), NEW p \in Points
  PROVE  /\ sext(a, 2 * XLEN) \in Val(2 * XLEN) /\ zext(a, 2 * XLEN) \in Val(2 * XLEN)
         /\ ToInt(sext(a, 2 * XLEN).at[p], 2 * XLEN) = S(a.at[p])
         /\ ToInt(zext(a, 2 * XLEN).at[p], 2 * XLEN) = a.at[p]
<1> DEFINE x == a.at[p]
           N == M * M
<1>1. x \in 0 .. M - 1
  BY ValueParts, SomeWidths DEF M
<1>2. N \in Nat \ {0} /\ N = 2 * (M * Half) /\ M * Half \in Nat /\ M * Half >= M /\ M * Half >= Half /\ N >= M
  <2>1. ASSUME NEW h \in Nat \ {0}, NEW n \in Nat \ {0}, n = 2 * h
        PROVE  n * n \in Nat \ {0} /\ n * n = 2 * (n * h) /\ n * h \in Nat /\ n * h >= n /\ n * h >= h /\ n * n >= n
    BY <2>1
  <2> QED
    BY <2>1, Powers
<1>3. Made(sext(a, 2 * XLEN), 2 * XLEN, [q \in Points |-> ToInt(a.at[q], XLEN)])
  BY SomeWidths, WidthsMade, WidthTypes, 0 \in 0 .. 2 * XLEN
<1>4. Made(zext(a, 2 * XLEN), 2 * XLEN, [q \in Points |-> a.at[q]])
  BY SomeWidths, WidthsMade, WidthTypes, 0 \in 0 .. 2 * XLEN
<1>5. S(x) = ToInt(x, XLEN) /\ S(x) \in -Half .. Half - 1
  BY <1>1, SignedIs
<1>6. 2 ^ (2 * XLEN) = N /\ 2 ^ (2 * XLEN - 1) = M * Half
  BY Powers
<1>7. sext(a, 2 * XLEN).at[p] = S(x) % N /\ zext(a, 2 * XLEN).at[p] = x % N
  BY <1>3, <1>4, <1>5, <1>6 DEF Made
<1> HIDE DEF x, N
<1>8. x % N = x /\ ToInt(x, 2 * XLEN) = x
  BY <1>1, <1>2, <1>6, Powers DEF ToInt
<1>9. ToInt(S(x) % N, 2 * XLEN) = S(x)
  <2>1. CASE S(x) >= 0
    <3>1. S(x) % N = S(x)
      BY <1>2, <1>5, <2>1, Powers
    <3> QED
      BY <1>2, <1>5, <1>6, <2>1, <3>1, Powers DEF ToInt
  <2>2. CASE S(x) < 0
    <3>1. S(x) + N \in 0 .. N - 1 /\ S(x) + N * 1 = S(x) + N /\ S(x) \in Int
      BY <1>2, <1>5, <2>2, Powers
    <3>2. \A t \in 0 .. N - 1 : t % N = t
      BY <1>2
    <3>3. S(x) % N = S(x) + N
      BY <1>2, <3>1, <3>2, Shifted, 1 \in Int
    <3> QED
      BY <1>2, <1>5, <1>6, <2>2, <3>3, Powers DEF ToInt
  <2> QED
    BY <1>5, <2>1, <2>2, Powers
<1> QED
  BY <1>3, <1>4, <1>7, <1>8, <1>9 DEF Made, x

\* The halves of the product of two wide words.
LEMMA HalvesGive ==
  ASSUME NEW a \in Val(2 * XLEN), NEW b \in Val(2 * XLEN), NEW p \in Points, NEW x \in Int, NEW y \in Int,
         ToInt(a.at[p], 2 * XLEN) = x, ToInt(b.at[p], 2 * XLEN) = y
  PROVE  /\ Gives(extract(mul(a, b), 0, XLEN), p, x * y)
         /\ Gives(extract(mul(a, b), XLEN, XLEN), p, (x * y) \div M)
<1> DEFINE ans == mul(a, b)
<1>1. Made(ans, 2 * XLEN, [q \in Points |-> ToInt(a.at[q], 2 * XLEN) * ToInt(b.at[q], 2 * XLEN)])
  BY SumsMade, SomeWidths
<1> HIDE DEF ans
<1>2. ans \in Val(2 * XLEN) /\ ans.at[p] = (x * y) % (M * M)
  BY <1>1, Powers DEF Made
<1>3. Made(extract(ans, 0, XLEN), XLEN, [q \in Points |-> ans.at[q] \div 2 ^ 0])
  BY <1>2, SomeWidths, WidthsMade, WidthTypes, 0 \in 0 .. 2 * XLEN
<1>4. Made(extract(ans, XLEN, XLEN), XLEN, [q \in Points |-> ans.at[q] \div 2 ^ XLEN])
  BY <1>2, SomeWidths, WidthsMade, WidthTypes, XLEN \in 0 .. 2 * XLEN
<1>5. x * y \in Int /\ M \in Nat \ {0}
  BY Powers
<1>6. ans.at[p] \in Int
  BY <1>2, SomeWidths, ValueParts
<1>7. ans.at[p] % M = (x * y) % M /\ ans.at[p] \div M = ((x * y) \div M) % M
  <2>1. ASSUME NEW t \in Int
        PROVE  (t % (M * M)) % M = t % M /\ (t % (M * M)) \div M = (t \div M) % M
    BY <1>5, Between
  <2> QED
    BY <1>2, <1>5, <2>1
<1>8. extract(ans, 0, XLEN).at[p] = (x * y) % M
  <2>1. ans.at[p] \div 2 ^ 0 = ans.at[p]
    BY <1>6, Powers
  <2> QED
    BY <1>3, <2>1, <1>7 DEF Made, M
<1>9. (x * y) \div M \in Int
  BY <1>5, Division
<1>10. extract(ans, XLEN, XLEN).at[p] = ((x * y) \div M) % M
  BY <1>4, <1>7, <1>9, ModWord DEF Made, M
<1> QED
  BY <1>3, <1>4, <1>5, <1>8, <1>9, <1>10, ModWord, SomeWidths DEF Made, Gives, ans

\* The product of the signed words is that of the words, as a word.
LEMMA SignedProduct ==
  ASSUME NEW x \in 0 .. M - 1, NEW y \in 0 .. M - 1
  PROVE  (S(x) * S(y)) % M = (x * y) % M
<1>1. PICK e \in {0, 1} : S(x) = x - e * M
  BY Powers DEF S
<1>2. PICK f \in {0, 1} : S(y) = y - f * M
  BY Powers DEF S
<1> DEFINE k == (e * f) * M - e * y - f * x
<1>3. k \in Int /\ M \in Nat \ {0} /\ x * y \in Int
  BY Powers
<1>4. S(x) * S(y) = x * y + M * k
  <2>1. ASSUME NEW n \in Int, NEW u \in Int, NEW v \in Int, NEW g \in Int, NEW h \in Int
        PROVE  (u - g * n) * (v - h * n) = u * v + n * ((g * h) * n - g * v - h * u)
    OBVIOUS
  <2> QED
    BY <2>1, <1>1, <1>2, Powers
<1> HIDE DEF k
<1> QED
  BY <1>3, <1>4, Shifted

\* Multiplication.
LEMMA MulOpGives ==
  ASSUME NEW a \in Val(XLEN), NEW b \in Val(XLEN), NEW p \in Points, NEW op \in MulOps
  PROVE  Gives(MulOp(op, a, b), p, RefAlu(op, a.at[p], b.at[p]))
<1> DEFINE x == a.at[p]
           y == b.at[p]
           sa == sext(a, 2 * XLEN)
           sb == sext(b, 2 * XLEN)
           za == zext(a, 2 * XLEN)
           zb == zext(b, 2 * XLEN)
<1>1. x \in 0 .. M - 1 /\ y \in 0 .. M - 1
  BY ValueParts, SomeWidths DEF M
<1>2. /\ sa \in Val(2 * XLEN) /\ sb \in Val(2 * XLEN) /\ za \in Val(2 * XLEN) /\ zb \in Val(2 * XLEN)
      /\ ToInt(sa.at[p], 2 * XLEN) = S(x) /\ ToInt(sb.at[p], 2 * XLEN) = S(y)
      /\ ToInt(za.at[p], 2 * XLEN) = x /\ ToInt(zb.at[p], 2 * XLEN) = y
  BY WideIs
<1>3. S(x) \in Int /\ S(y) \in Int /\ x \in Int /\ y \in Int
  BY <1>1, SignedIs, Powers
<1>4. /\ op = "MUL" => MulOp(op, a, b) = extract(mul(sa, sb), 0, XLEN) /\ RefAlu(op, x, y) = x * y
      /\ op = "MULH" => MulOp(op, a, b) = extract(mul(sa, sb), XLEN, XLEN) /\ RefAlu(op, x, y) = (S(x) * S(y)) \div M
      /\ op = "MULHU" => MulOp(op, a, b) = extract(mul(za, zb), XLEN, XLEN) /\ RefAlu(op, x, y) = (x * y) \div M
      /\ op = "MULHSU" => MulOp(op, a, b) = extract(mul(sa, zb), XLEN, XLEN) /\ RefAlu(op, x, y) = (S(x) * y) \div M
  BY DEF MulOp, RefAlu
<1> HIDE DEF x, y, sa, sb, za, zb
<1>5. CASE op = "MUL"
  <2>1. Gives(extract(mul(sa, sb), 0, XLEN), p, S(x) * S(y))
    BY <1>2, <1>3, HalvesGive
  <2>2. (S(x) * S(y)) % M = (x * y) % M /\ x * y \in Int
    BY <1>1, <1>3, SignedProduct
  <2> QED
    BY <1>4, <1>5, <2>1, <2>2 DEF Gives, x, y
<1>6. CASE op = "MULH"
  BY <1>2, <1>3, <1>4, <1>6, HalvesGive DEF x, y
<1>7. CASE op = "MULHU"
  BY <1>2, <1>3, <1>4, <1>7, HalvesGive DEF x, y
<1>8. CASE op = "MULHSU"
  BY <1>2, <1>3, <1>4, <1>8, HalvesGive DEF x, y
<1> QED
  BY <1>5, <1>6, <1>7, <1>8 DEF MulOps

\* The quotient that Quotient computes is one of the manual's ...
LEMMA QuotientIs ==
  ASSUME NEW x \in -M .. M, NEW y \in Int, y # 0
  PROVE  /\ Quotient(x, y) \in -M .. M /\ Abs(x - Quotient(x, y) * y) < Abs(y)
         /\ (x - Quotient(x, y) * y) * x >= 0
<1> DEFINE q == Quotient(x, y)
           c == Abs(x)
           d == Abs(y)
<1>1. c \in 0 .. M /\ d \in Nat \ {0} /\ M \in Nat
  BY Powers DEF Abs
<1>2. PICK k \in Int : \E r \in 0 .. d - 1 : c = d * k + r /\ c \div d = k /\ c % d = r
  <2>1. c \in Int
    BY <1>1
  <2> HIDE DEF c, d
  <2> QED
    BY <1>1, <2>1, Quotients
<1>3. PICK r \in 0 .. d - 1 : c = d * k + r /\ c \div d = k /\ c % d = r
  BY <1>2
<1>4. k \in 0 .. M
  <2>1. ~ (k < 0)
    <3>1. k < 0 => d * k <= -d
      <4>1. ASSUME NEW j \in Nat, k = -1 - j PROVE d * k = -d - d * j /\ d * j \in Nat
        BY <1>1, <4>1
      <4>2. k < 0 => -1 - k \in Nat /\ k = -1 - (-1 - k)
        OBVIOUS
      <4> HIDE DEF d
      <4> QED
        BY <4>1, <4>2, <1>1
    <3>2. d * k \in Int
      BY <1>1
    <3> HIDE DEF d, c
    <3> QED
      BY <1>1, <1>3, <3>1, <3>2
  <2>2. k <= d * k
    <3> HIDE DEF d
    <3>1. ASSUME NEW j \in Nat, NEW e \in Nat \ {0} PROVE j <= e * j
      OBVIOUS
    <3> QED
      BY <1>1, <2>1, <3>1
  <2>3. d * k \in Int
    BY <1>1
  <2> HIDE DEF d, c
  <2> QED
    BY <1>1, <1>3, <2>1, <2>2, <2>3
<1>5. q = IF (x < 0) # (y < 0) THEN -k ELSE k
  BY <1>3 DEF Quotient
<1>6. x - q * y = IF x < 0 THEN -r ELSE r
  <2>1. CASE x < 0 /\ y < 0
    BY <1>3, <1>5, <2>1 DEF Abs
  <2>2. CASE x < 0 /\ y > 0
    BY <1>3, <1>5, <2>2 DEF Abs
  <2>3. CASE x >= 0 /\ y < 0
    BY <1>3, <1>5, <2>3 DEF Abs
  <2>4. CASE x >= 0 /\ y > 0
    BY <1>3, <1>5, <2>4 DEF Abs
  <2> QED
    BY <2>1, <2>2, <2>3, <2>4, Powers
<1>7. r \in Nat /\ r < d
  BY <1>1
<1>8. (x - q * y) * x >= 0
  <2>1. ASSUME NEW u \in Nat, NEW v \in Nat PROVE u * v >= 0 /\ (-u) * (-v) >= 0
    OBVIOUS
  <2>2. CASE x < 0
    <3>1. -x \in Nat /\ x = -(-x)
      BY <2>2, Powers
    <3> HIDE DEF q
    <3> QED
      BY <1>6, <1>7, <2>1, <2>2, <3>1
  <2>3. CASE x >= 0
    <3>1. x \in Nat
      BY <2>3, Powers
    <3> HIDE DEF q
    <3> QED
      BY <1>6, <1>7, <2>1, <2>3, <3>1
  <2> QED
    BY <2>2, <2>3, Powers
<1>9. Abs(x - q * y) < d
  <2> HIDE DEF q
  <2> QED
    BY <1>6, <1>7 DEF Abs
<1>10. q \in -M .. M
  BY <1>1, <1>4, <1>5
<1> QED
  BY <1>8, <1>9, <1>10

\* Two numbers that are on the sign's side have one sign, or the sign is zero.
LEMMA Signs ==
  ASSUME NEW u \in Int, NEW v \in Int, NEW w \in Int,
         w > 0 => u >= 0 /\ v >= 0,
         w < 0 => u <= 0 /\ v <= 0
  PROVE  \/ u >= 0 /\ v >= 0
         \/ u <= 0 /\ v <= 0
         \/ w = 0 /\ ((u < 0 /\ v > 0) \/ (u > 0 /\ v < 0))
OBVIOUS

\* ... and there is no other.
LEMMA QuotientUnique ==
  ASSUME NEW x \in Int, NEW y \in Int, y # 0, NEW q1 \in Int, NEW q2 \in Int,
         Abs(x - q1 * y) < Abs(y), (x - q1 * y) * x >= 0, Abs(x - q2 * y) < Abs(y), (x - q2 * y) * x >= 0
  PROVE  q1 = q2
<1>1. PICK d1 \in Int : d1 = x - q1 * y
  OBVIOUS
<1>2. PICK d2 \in Int : d2 = x - q2 * y
  OBVIOUS
<1>3. PICK n \in Nat \ {0} : n = Abs(y)
  BY DEF Abs
<1>4. Abs(d1) < n /\ Abs(d2) < n /\ d1 * x >= 0 /\ d2 * x >= 0
  BY <1>1, <1>2, <1>3
<1>5. PICK t1 \in Int : t1 = IF y < 0 THEN -q1 ELSE q1
  OBVIOUS
<1>6. PICK t2 \in Int : t2 = IF y < 0 THEN -q2 ELSE q2
  OBVIOUS
<1>7. x = n * t1 + d1 /\ x = n * t2 + d2
  <2>1. n * t1 = q1 * y /\ n * t2 = q2 * y
    <3>1. CASE y < 0
      <4>1. n = -y /\ t1 = -q1 /\ t2 = -q2
        BY <3>1, <1>3, <1>5, <1>6 DEF Abs
      <4>2. (-y) * (-q1) = q1 * y /\ (-y) * (-q2) = q2 * y
        OBVIOUS
      <4> QED
        BY <4>1, <4>2
    <3>2. CASE y > 0
      <4>1. n = y /\ t1 = q1 /\ t2 = q2
        BY <3>2, <1>3, <1>5, <1>6 DEF Abs
      <4>2. y * q1 = q1 * y /\ y * q2 = q2 * y
        OBVIOUS
      <4> QED
        BY <4>1, <4>2
    <3> QED
      BY <3>1, <3>2
  <2>2. q1 * y \in Int /\ q2 * y \in Int
    OBVIOUS
  <2> QED
    BY <1>1, <1>2, <2>1, <2>2
<1>8. \A u \in Int, v \in Int : u * v >= 0 => ~ (u < 0 /\ v > 0) /\ ~ (u > 0 /\ v < 0)
  <2>1. \A u \in Nat \ {0}, v \in Nat \ {0} : (-u) * v < 0 /\ u * (-v) < 0
    OBVIOUS
  <2>2. ASSUME NEW u \in Int, NEW v \in Int, u * v >= 0 PROVE ~ (u < 0 /\ v > 0)
    BY <2>2
  <2>3. ASSUME NEW u \in Int, NEW v \in Int, u * v >= 0 PROVE ~ (u > 0 /\ v < 0)
    BY <2>3
  <2> QED
    BY <2>2, <2>3
<1>9. t1 = t2
  <2>1. CASE d1 >= 0 /\ d2 >= 0
    <3>1. d1 \in 0 .. n - 1 /\ d2 \in 0 .. n - 1
      BY <1>4, <2>1 DEF Abs
    <3>2. n * t1 + d1 = n * t2 + d2
      BY <1>7
    <3> QED
      BY <3>1, <3>2, Near
  <2>2. CASE d1 <= 0 /\ d2 <= 0
    <3>1. -d1 \in 0 .. n - 1 /\ -d2 \in 0 .. n - 1
      BY <1>4, <2>2 DEF Abs
    <3>2. n * (-t1) + (-d1) = n * (-t2) + (-d2)
      <4>1. n * (-t1) = -(n * t1) /\ n * (-t2) = -(n * t2) /\ n * t1 \in Int /\ n * t2 \in Int
        OBVIOUS
      <4> QED
        BY <4>1, <1>7
    <3>3. -t1 \in Int /\ -t2 \in Int
      OBVIOUS
    <3>4. -t1 = -t2
      BY <3>1, <3>2, <3>3, Near
    <3> QED
      BY <3>4
  <2>3. CASE x = 0 /\ ((d1 < 0 /\ d2 > 0) \/ (d1 > 0 /\ d2 < 0))
    <3>1. ASSUME NEW t \in Int, NEW e \in Int, Abs(e) < n, 0 = n * t + e PROVE t = 0
      <4>1. CASE e >= 0
        <5>1. e \in 0 .. n - 1 /\ n * t + e = n * 0 + 0 /\ 0 \in 0 .. n - 1
          BY <3>1, <4>1 DEF Abs
        <5> QED
          BY <5>1, Near
      <4>2. CASE e < 0
        <5>1. -e \in 0 .. n - 1 /\ n * (-t) + (-e) = n * 0 + 0 /\ 0 \in 0 .. n - 1 /\ -t \in Int
          BY <3>1, <4>2 DEF Abs
        <5>2. -t = 0
          BY <5>1, Near
        <5> QED
          BY <5>2
      <4> QED
        BY <4>1, <4>2
    <3> QED
      BY <1>4, <1>7, <2>3, <3>1
  <2>4. (x > 0 => d1 >= 0 /\ d2 >= 0) /\ (x < 0 => d1 <= 0 /\ d2 <= 0)
    <3>1. ~ (d1 < 0 /\ x > 0) /\ ~ (d1 > 0 /\ x < 0)
      BY <1>4, <1>8
    <3>2. ~ (d2 < 0 /\ x > 0) /\ ~ (d2 > 0 /\ x < 0)
      BY <1>4, <1>8
    <3> QED
      BY <3>1, <3>2
  <2>5. (d1 >= 0 /\ d2 >= 0) \/ (d1 <= 0 /\ d2 <= 0) \/ (x = 0 /\ ((d1 < 0 /\ d2 > 0) \/ (d1 > 0 /\ d2 < 0)))
    BY <2>4, Signs
  <2> QED
    BY <2>1, <2>2, <2>3, <2>5
<1> QED
  BY <1>5, <1>6, <1>9

\* The manual's quotient, by its two conditions, is the one that the machine
\* computes.
LEMMA QuotIs ==
  ASSUME NEW x \in -M .. M, NEW y \in Int, y # 0
  PROVE  Quot(x, y) = Quotient(x, y)
<1> DEFINE Is(q) == Abs(x - q * y) < Abs(y) /\ (x - q * y) * x >= 0
<1>1. Quotient(x, y) \in -M .. M /\ Is(Quotient(x, y))
  BY QuotientIs
<1>2. Quot(x, y) = CHOOSE q \in -M .. M : Is(q)
  BY DEF Quot
<1>3. Quot(x, y) \in -M .. M /\ Is(Quot(x, y))
  BY <1>1, <1>2
<1>4. x \in Int /\ Quot(x, y) \in Int /\ Quotient(x, y) \in Int
  BY <1>1, <1>3, Powers
<1> QED
  BY <1>1, <1>3, <1>4, QuotientUnique

\* The condition that DIV and REM select on, at a point: the smallest number is
\* divided by -1.
LEMMA OverflowIs ==
  ASSUME NEW a \in Val(XLEN), NEW b \in Val(XLEN), NEW p \in Points
  PROVE  band(eq(a, BVC(2 ^ (XLEN - 1))), eq(b, BVC(2 ^ XLEN - 1))).at[p]
           = Bool(S(a.at[p]) = -Half /\ S(b.at[p]) = -1)
<1> DEFINE ca == BVC(2 ^ (XLEN - 1))
           cb == BVC(2 ^ XLEN - 1)
           ea == eq(a, ca)
           eb == eq(b, cb)
           x == a.at[p]
           y == b.at[p]
<1>1. x \in 0 .. M - 1 /\ y \in 0 .. M - 1
  BY ValueParts, SomeWidths DEF M
<1>2. ca \in Val(XLEN) /\ cb \in Val(XLEN) /\ ca.at[p] = Half /\ cb.at[p] = M - 1
  <2>1. Half \in 0 .. M - 1 /\ M - 1 \in 0 .. M - 1 /\ Half \in Int /\ M - 1 \in Int
    BY Powers
  <2>2. Half % M = Half /\ (M - 1) % M = M - 1
    BY <2>1, SmallWord
  <2> QED
    BY <2>1, <2>2, WordConst DEF Half, M
<1> HIDE DEF ca, cb, x, y
<1>3. Made(ea, 1, [q \in Points |-> Bool(a.at[q] = ca.at[q])]) /\ Made(eb, 1, [q \in Points |-> Bool(b.at[q] = cb.at[q])])
  BY <1>2, SomeWidths, ConditionsMade
<1>4. 2 ^ 1 = 2
  OBVIOUS
<1> HIDE DEF ea, eb
<1>5. /\ ea \in Val(1) /\ eb \in Val(1)
      /\ ea.at[p] = Bool(x = Half) % 2 /\ eb.at[p] = Bool(y = M - 1) % 2
  BY <1>2, <1>3, <1>4 DEF Made, x, y
<1>6. ea.at[p] = Bool(x = Half) /\ eb.at[p] = Bool(y = M - 1)
  BY <1>5 DEF Bool
<1>7. Made(band(ea, eb), 1, [q \in Points |-> BitAnd(ea.at[q], eb.at[q])])
  BY <1>5, SomeWidths, BitsMade
<1>8. BitAnd(ea.at[p], eb.at[p]) = ea.at[p] * eb.at[p]
  BY <1>6, BitAndOfTruth DEF Bool
<1>9. band(ea, eb).at[p] = (ea.at[p] * eb.at[p]) % 2
  BY <1>4, <1>7, <1>8 DEF Made
<1>10. band(ea, eb).at[p] = Bool(x = Half /\ y = M - 1)
  BY <1>6, <1>9 DEF Bool
<1>11. (x = Half <=> S(x) = -Half) /\ (y = M - 1 <=> S(y) = -1)
  <2>1. M \div 2 = Half
    BY Powers
  <2> QED
    BY <1>1, <2>1, Powers DEF S
<1> QED
  BY <1>10, <1>11 DEF ca, cb, ea, eb, x, y

\* The absolute value of a negative number.
LEMMA AbsMinus ==
  ASSUME NEW h \in Nat, NEW n, n = -h
  PROVE  Abs(n) = h
BY DEF Abs

\* Division by what is not zero.
LEMMA DivOpGives ==
  ASSUME NEW a \in Val(XLEN), NEW b \in Val(XLEN), NEW p \in Points, NEW op \in DivOps, b.at[p] # 0
  PROVE  Gives(DivOp(op, a, b), p, RefAlu(op, a.at[p], b.at[p]))
<1> DEFINE over == band(eq(a, BVC(2 ^ (XLEN - 1))), eq(b, BVC(2 ^ XLEN - 1)))
           x == a.at[p]
           y == b.at[p]
<1>1. x \in 0 .. M - 1 /\ y \in 1 .. M - 1
  BY ValueParts, SomeWidths, Powers DEF M
<1>2. /\ S(x) = ToInt(x, XLEN) /\ S(y) = ToInt(y, XLEN) /\ S(x) \in -Half .. Half - 1 /\ S(y) \in -Half .. Half - 1
      /\ S(y) # 0
  <2>1. S(y) # 0
    BY <1>1, Powers DEF S
  <2> QED
    BY <1>1, <2>1, SignedIs, Powers
<1>3. Quot(S(x), S(y)) = Quotient(S(x), S(y)) /\ Quot(x, y) = Quotient(x, y)
  <2>1. S(x) \in -M .. M /\ S(y) \in Int /\ x \in -M .. M /\ y \in Int /\ y # 0
    BY <1>1, <1>2, Powers
  <2> QED
    BY <1>2, <2>1, QuotIs
<1>4. over.at[p] = Bool(S(x) = -Half /\ S(y) = -1)
  BY OverflowIs
<1>5. (S(x) = -Half /\ S(y) = -1) => x = Half /\ Quotient(S(x), S(y)) = Half /\ Remainder(S(x), S(y)) = 0
  <2> SUFFICES ASSUME S(x) = -Half, S(y) = -1 PROVE x = Half /\ Quotient(S(x), S(y)) = Half /\ Remainder(S(x), S(y)) = 0
    OBVIOUS
  <2>1. x = Half
    BY <1>1, Powers DEF S
  <2>2. Abs(-Half) = Half /\ Abs(-1) = 1 /\ Half \div 1 = Half /\ -Half < 0 /\ -1 < 0 /\ -1 # 0
    <3>1. \A h \in Nat : h \div 1 = h
      OBVIOUS
    <3>2. Half \in Nat /\ Half > 0
      BY Powers
    <3>3. Abs(-Half) = Half /\ Abs(-1) = 1
      BY <3>2, AbsMinus, 1 \in Nat
    <3> QED
      BY <3>1, <3>2, <3>3
  <2>3. Quotient(-Half, -1) = Half
    BY <2>2 DEF Quotient
  <2>4. Remainder(-Half, -1) = 0
    BY <2>3, Powers DEF Remainder
  <2> QED
    BY <2>1, <2>3, <2>4
<1> HIDE DEF over
<1>6. Remainder(S(x), S(y)) = S(x) - S(y) * Quotient(S(x), S(y)) /\ Remainder(x, y) = x - y * Quotient(x, y)
  BY DEF Remainder
<1>7. CASE op = "DIV"
  <2>1. DivOp(op, a, b) = select(over, a, sdiv(a, b)) /\ RefAlu(op, x, y) = Quotient(S(x), S(y))
    BY <1>1, <1>3, <1>7 DEF DivOp, RefAlu, over
  <2>2. Gives(sdiv(a, b), p, Quotient(S(x), S(y))) /\ Made(sdiv(a, b), XLEN, [q \in Points |-> Quotient(ToInt(a.at[q], XLEN), ToInt(b.at[q], XLEN))])
    BY <1>2, SomeWidths, WordGives, QuotientsMade
  <2>3. sdiv(a, b) \in Val(XLEN)
    BY <2>2 DEF Made
  <2>4. Made(select(over, a, sdiv(a, b)), XLEN, [q \in Points |-> (IF over.at[q] = 1 THEN a.at[q] ELSE sdiv(a, b).at[q])])
    BY <2>3, SomeWidths, SelectMade
  <2>5. select(over, a, sdiv(a, b)).at[p] = (IF over.at[p] = 1 THEN x ELSE sdiv(a, b).at[p]) % M
    BY <2>4 DEF Made, M
  <2>6. (IF over.at[p] = 1 THEN x ELSE sdiv(a, b).at[p]) % M = Quotient(S(x), S(y)) % M
    BY <1>4, <1>5, <2>2 DEF Bool, Gives
  <2>7. Quotient(S(x), S(y)) \in Int
    BY <2>2 DEF Gives
  <2> QED
    BY <2>1, <2>4, <2>5, <2>6, <2>7, ModWord, SomeWidths DEF Gives, Made
<1>8. CASE op = "REM"
  <2>1. DivOp(op, a, b) = select(over, BVC(0), srem(a, b)) /\ RefAlu(op, x, y) = Remainder(S(x), S(y))
    BY <1>1, <1>3, <1>6, <1>8 DEF DivOp, RefAlu, over
  <2>2. Gives(srem(a, b), p, Remainder(S(x), S(y))) /\ Made(srem(a, b), XLEN, [q \in Points |-> Remainder(ToInt(a.at[q], XLEN), ToInt(b.at[q], XLEN))])
    BY <1>2, SomeWidths, WordGives, QuotientsMade
  <2>3. srem(a, b) \in Val(XLEN) /\ BVC(0) \in Val(XLEN) /\ BVC(0).at[p] = 0 % M
    BY <2>2, WordConst, 0 \in Int DEF Made
  <2>4. Made(select(over, BVC(0), srem(a, b)), XLEN, [q \in Points |-> (IF over.at[q] = 1 THEN BVC(0).at[q] ELSE srem(a, b).at[q])])
    BY <2>3, SomeWidths, SelectMade
  <2>5. select(over, BVC(0), srem(a, b)).at[p] = (IF over.at[p] = 1 THEN BVC(0).at[p] ELSE srem(a, b).at[p]) % M
    BY <2>4 DEF Made, M
  <2>6. (0 % M) % M = 0 % M
    BY ModWord, 0 \in Int
  <2>7. (IF over.at[p] = 1 THEN BVC(0).at[p] ELSE srem(a, b).at[p]) % M = Remainder(S(x), S(y)) % M
    BY <1>4, <1>5, <2>2, <2>3, <2>6 DEF Bool, Gives
  <2>8. Remainder(S(x), S(y)) \in Int
    BY <2>2 DEF Gives
  <2> QED
    BY <2>1, <2>4, <2>5, <2>7, <2>8, ModWord, SomeWidths DEF Gives, Made
<1>9. CASE op = "DIVU"
  <2>1. DivOp(op, a, b) = udiv(a, b) /\ RefAlu(op, x, y) = Quotient(x, y)
    BY <1>1, <1>3, <1>9 DEF DivOp, RefAlu
  <2> QED
    BY <2>1, WordGives
<1>10. CASE op = "REMU"
  <2>1. DivOp(op, a, b) = urem(a, b) /\ RefAlu(op, x, y) = Remainder(x, y)
    BY <1>1, <1>3, <1>6, <1>10 DEF DivOp, RefAlu
  <2> QED
    BY <2>1, WordGives
<1> QED
  BY <1>7, <1>8, <1>9, <1>10 DEF DivOps

\* Division: the point takes the decision that the concrete part took.
LEMMA DividedGives ==
  ASSUME NEW a \in Val(XLEN), NEW b \in Val(XLEN), NEW p \in Points, NEW op \in DivOps,
         NEW zero, zero = eq(b, BVC(0)), zero.at[p] = concrete(zero)
  PROVE  Gives(Divided(op, a, b, zero), p, RefAlu(op, a.at[p], b.at[p]))
<1>1. BVC(0) \in Val(XLEN) /\ BVC(0).at[p] = 0
  <2>1. 0 % M = 0 /\ 0 \in Int
    BY SmallWord, Powers
  <2> QED
    BY <2>1, WordConst
<1>2. Made(zero, 1, [q \in Points |-> Bool(b.at[q] = BVC(0).at[q])])
  BY <1>1, SomeWidths, ConditionsMade
<1>3. zero.at[p] = Bool(b.at[p] = 0)
  <2>1. 2 ^ 1 = 2 /\ Bool(b.at[p] = 0) % 2 = Bool(b.at[p] = 0)
    BY DEF Bool
  <2> QED
    BY <1>1, <1>2, <2>1 DEF Made
<1>4. CASE b.at[p] # 0
  <2>1. Divided(op, a, b, zero) = DivOp(op, a, b)
    BY <1>3, <1>4 DEF Divided, Bool
  <2> QED
    BY <1>4, <2>1, DivOpGives
<1>5. CASE b.at[p] = 0 /\ op \in {"DIV", "DIVU"}
  <2>1. Divided(op, a, b, zero) = BVC(2 ^ XLEN - 1) /\ RefAlu(op, a.at[p], b.at[p]) = -1
    BY <1>3, <1>5 DEF Divided, Bool, RefAlu
  <2>2. M - 1 \in Int /\ -1 \in Int /\ M - 1 = -1 + M * 1 /\ M \in Nat \ {0}
    BY Powers
  <2>3. (M - 1) % M = (-1) % M
    BY <2>2, Shifted, 1 \in Int
  <2>4. BVC(M - 1) \in Val(XLEN) /\ BVC(M - 1).at[p] = (M - 1) % M
    BY <2>2, WordConst
  <2> QED
    BY <2>1, <2>2, <2>3, <2>4, ModWord, SomeWidths DEF Gives, M
<1>6. CASE b.at[p] = 0 /\ op \in {"REM", "REMU"}
  <2>1. Divided(op, a, b, zero) = a /\ RefAlu(op, a.at[p], b.at[p]) = a.at[p]
    BY <1>3, <1>6 DEF Divided, Bool, RefAlu
  <2> QED
    BY <2>1, WordIsItself
<1> QED
  BY <1>4, <1>5, <1>6 DEF DivOps

-----------------------------------------------------------------------------
(* One instruction, one lemma. *)

\* Point p is followed beyond this step.
Followed(p) == p = 0 \/ p \in traced' \cap concretised'

\* What the encoding guarantees of the fields.
LEMMA InstructionParts ==
  ASSUME NEW ins \in Instructions
  PROVE  ins.op \in Ops /\ ins.rd \in Regs /\ ins.rs1 \in Regs /\ ins.rs2 \in Regs /\ ins.imm \in Int
BY DEF Instructions

\* The reference executes each instruction by the operator of its class.
LEMMA OpClasses ==
  ASSUME NEW op
  PROVE  /\ op \in RegOps \cup MulOps \cup DivOps => op \notin ImmOps
         /\ op \in RegOps \cup ImmOps \cup MulOps \cup DivOps =>
              op \notin {"JAL", "JALR"} \cup BranchOps \cup {"LB", "LH", "LW", "LBU", "LHU"} \cup {"SB", "SH", "SW"} \cup AmoOps \cup CsrOps
         /\ op \in {"JAL", "JALR"} => op \notin BranchOps \cup {"LB", "LH", "LW", "LBU", "LHU"} \cup {"SB", "SH", "SW"} \cup AmoOps \cup CsrOps
         /\ op \in BranchOps => op \notin {"LB", "LH", "LW", "LBU", "LHU"} \cup {"SB", "SH", "SW"} \cup AmoOps \cup CsrOps
         /\ op \in {"LB", "LH", "LW", "LBU", "LHU"} => op \notin {"SB", "SH", "SW"} \cup AmoOps \cup CsrOps
         /\ op \in {"SB", "SH", "SW"} => op \notin AmoOps \cup CsrOps
         /\ op \in AmoOps => op \notin CsrOps
BY DEF RegOps, ImmOps, MulOps, DivOps, BranchOps, AmoOps, CsrOps

\* The reference step of each class of instructions.
LEMMA RefStepIs ==
  ASSUME NEW m, NEW ins, NEW i
  PROVE  /\ ins.op \in RegOps \cup ImmOps \cup MulOps \cup DivOps => RefStep(m, ins, i) = RefArithmetic(m, ins)
         /\ ins.op \in {"JAL", "JALR"} => RefStep(m, ins, i) = RefJump(m, ins)
         /\ ins.op \in BranchOps => RefStep(m, ins, i) = RefBranch(m, ins)
         /\ ins.op \in {"LB", "LH", "LW", "LBU", "LHU"} => RefStep(m, ins, i) = RefLoads(m, ins, i)
         /\ ins.op \in {"SB", "SH", "SW"} => RefStep(m, ins, i) =
              RefStore(m, (m.regs[ins.rs1] + ins.imm) % M, m.regs[ins.rs2], Width[ins.op], i, 0, 0)
         /\ ins.op \in AmoOps => RefStep(m, ins, i) = RefAmo(m, ins, i)
         /\ ins.op \in CsrOps => RefStep(m, ins, i) = RefCsr(m, ins)
BY OpClasses DEF RefStep

\* The reference step of the instructions with two registers.
LEMMA RefArithmeticIs ==
  ASSUME NEW m, NEW ins, NEW i, ins.op \in RegOps \cup MulOps \cup DivOps
  PROVE  RefStep(m, ins, i) = RefSet(m, ins.rd, RefAlu(ins.op, m.regs[ins.rs1], m.regs[ins.rs2]))
<1>1. ins.op \notin ImmOps /\ ins.op # "AUIPC"
  BY OpClasses DEF ImmOps
<1>2. RefStep(m, ins, i) = RefArithmetic(m, ins)
  BY RefStepIs
<1> QED
  BY <1>1, <1>2 DEF RefArithmetic

\* A point that shows a machine shows its registers.
LEMMA MirrorsRegs ==
  ASSUME NEW p, NEW i, NEW m, Mirrors(p, i, m), NEW r \in Regs
  PROVE  regs[r] \in Val(XLEN) /\ regs[r].at[p] = m.regs[r] /\ m.regs[r] \in 0 .. M - 1 /\ p \in Points
BY DEF Mirrors, StateOK, Looks, Machines

\* ADD .. SRA, the immediate forms, LUI, AUIPC and the products keep point and
\* machine in step.
LEMMA ArithmeticStep ==
  ASSUME NEW p, NEW i, NEW m, Mirrors(p, i, m), NEW ins \in Instructions, Arithmetic(ins)
  PROVE  Mirrors(p, i, RefStep(m, ins, i))'
<1> DEFINE x == m.regs[ins.rs1]
           y == m.regs[ins.rs2]
           op == ins.op
<1> USE InstructionParts
<1>1. /\ regs[ins.rs1] \in Val(XLEN) /\ regs[ins.rs2] \in Val(XLEN) /\ p \in Points /\ regs \in [Regs -> Val(XLEN)]
      /\ regs[ins.rs1].at[p] = x /\ regs[ins.rs2].at[p] = y
  BY MirrorsRegs DEF Mirrors, StateOK
<1>2. \A v, z : Gives(v, p, z) /\ WriteRd(ins.rd, v) => Mirrors(p, i, RefSet(m, ins.rd, z))'
  <2> SUFFICES ASSUME NEW v, NEW z, Gives(v, p, z), WriteRd(ins.rd, v) PROVE Mirrors(p, i, RefSet(m, ins.rd, z))'
    OBVIOUS
  <2> QED
    BY WriteRdMirrors DEF WriteRd
<1>3. CASE op \in RegOps /\ WriteRd(ins.rd, RegOp(ins.op, regs[ins.rs1], ins.rs2))
  <2>1. RefStep(m, ins, i) = RefSet(m, ins.rd, RefAlu(op, x, y))
    BY <1>3, RefArithmeticIs
  <2>2. Gives(RegOp(op, regs[ins.rs1], ins.rs2), p, RefAlu(op, x, y))
    BY <1>1, <1>3, RegOpGives
  <2> QED
    BY <1>2, <1>3, <2>1, <2>2
<1>4. CASE op \in ImmOps /\ WriteRd(ins.rd, ImmOp(ins.op, regs[ins.rs1], BVC(ins.imm)))
  <2>1. CASE op # "AUIPC"
    <3>1. RefStep(m, ins, i) = RefSet(m, ins.rd, RefAlu(op, x, ins.imm % M))
      BY <1>4, <2>1, RefStepIs DEF RefArithmetic
    <3>2. op \in {"SLLI", "SRLI", "SRAI"} => ins.imm \in 0 .. XLEN - 1
      BY DEF Instructions
    <3>3. Gives(ImmOp(op, regs[ins.rs1], BVC(ins.imm)), p, RefAlu(op, x, ins.imm % M))
      BY <1>1, <1>4, <2>1, <3>2, ImmOpGives
    <3> QED
      BY <1>2, <1>4, <3>1, <3>3
  <2>2. CASE op = "AUIPC"
    <3>1. RefStep(m, ins, i) = RefSet(m, ins.rd, m.pc + (ins.imm % M))
      BY <1>4, <2>2, RefStepIs DEF RefArithmetic
    <3>2. ImmOp(op, regs[ins.rs1], BVC(ins.imm)) = add(BVC(pc), BVC(ins.imm))
      BY <2>2 DEF ImmOp
    <3>3. m.pc = pc /\ pc \in 0 .. M - 1 /\ pc \in Int /\ pc % M = pc
      BY SmallWord, Powers DEF Mirrors, StateOK, Common
    <3>4. BVC(pc) \in Val(XLEN) /\ BVC(ins.imm) \in Val(XLEN) /\ BVC(pc).at[p] = pc /\ BVC(ins.imm).at[p] = ins.imm % M
      BY <1>1, <3>3, WordConst
    <3>5. Gives(add(BVC(pc), BVC(ins.imm)), p, m.pc + (ins.imm % M))
      BY <1>1, <3>3, <3>4, WordGives
    <3> QED
      BY <1>2, <1>4, <3>1, <3>2, <3>5
  <2> QED
    BY <2>1, <2>2
<1>5. CASE op \in MulOps /\ WriteRd(ins.rd, MulOp(ins.op, regs[ins.rs1], regs[ins.rs2]))
  <2>1. RefStep(m, ins, i) = RefSet(m, ins.rd, RefAlu(op, x, y))
    BY <1>5, RefArithmeticIs
  <2>2. Gives(MulOp(op, regs[ins.rs1], regs[ins.rs2]), p, RefAlu(op, x, y))
    BY <1>1, <1>5, MulOpGives
  <2> QED
    BY <1>2, <1>5, <2>1, <2>2
<1> QED
  BY <1>3, <1>4, <1>5 DEF Arithmetic

\* A followed point takes the decision of the concrete part.
LEMMA TracedAgrees ==
  ASSUME NEW p, Followed(p), NEW cond, traced' = Traced(cond)
  PROVE  cond.at[p] = concrete(cond)
BY DEF Followed, Traced, concrete

\* A followed point agrees with the concrete part of what was concretised.
LEMMA AgreeingAgrees ==
  ASSUME NEW p, Followed(p), NEW v, concretised' \subseteq Agreeing(v)
  PROVE  v.at[p] = concrete(v)
BY DEF Followed, Agreeing, concrete

\* DIV .. REMU do: a followed input agrees on whether the divisor is zero.
LEMMA DivideStep ==
  ASSUME NEW p, NEW i, NEW m, Mirrors(p, i, m), NEW ins \in Instructions, Divide(ins), Followed(p)
  PROVE  Mirrors(p, i, RefStep(m, ins, i))'
<1> DEFINE x == m.regs[ins.rs1]
           y == m.regs[ins.rs2]
           op == ins.op
           zero == eq(regs[ins.rs2], BVC(0))
           v == Divided(ins.op, regs[ins.rs1], regs[ins.rs2], zero)
<1> USE InstructionParts
<1>1. /\ regs[ins.rs1] \in Val(XLEN) /\ regs[ins.rs2] \in Val(XLEN) /\ p \in Points
      /\ regs[ins.rs1].at[p] = x /\ regs[ins.rs2].at[p] = y
  BY MirrorsRegs
<1>2. /\ op \in DivOps /\ regs' = Written(ins.rd, v) /\ traced' = Traced(zero) /\ pc' = NextPc
      /\ UNCHANGED <<mem, mscratch, ctrl, sensor, status, current, concretised>>
  BY DEF Divide
<1>3. RefStep(m, ins, i) = RefSet(m, ins.rd, RefAlu(op, x, y))
  BY <1>2, RefArithmeticIs
<1>4. zero.at[p] = concrete(zero)
  BY <1>2, TracedAgrees
<1>5. Gives(v, p, RefAlu(op, x, y))
  BY <1>1, <1>2, <1>4, DividedGives
<1>6. traced' \subseteq traced
  BY <1>2 DEF Traced
<1> HIDE DEF v
<1> QED
  BY <1>2, <1>3, <1>5, <1>6, WriteRdMirrors

\* A step that changes pc, and rd as RefSet does.
LEMMA JumpMirrors ==
  ASSUME NEW p, NEW i, NEW m, Mirrors(p, i, m), NEW rd \in Regs, NEW v, NEW x, Gives(v, p, x),
         regs' = Written(rd, v), NEW t \in 0 .. M - 1, pc' = t, UNCHANGED <<mem, ctrl, sensor, status, current>>,
         NEW c \in Int, mscratch' = c, traced' \subseteq traced, concretised' \subseteq concretised
  PROVE  Mirrors(p, i, [RefSet(m, rd, x) EXCEPT !.pc = t, !.csr = c])'
<1> DEFINE z == [RefSet(m, rd, x) EXCEPT !.pc = t, !.csr = c]
<1>1. /\ Written(rd, v) \in [Regs -> Val(XLEN)]
      /\ \A r \in Regs : Written(rd, v)[r].at[p] = RefSet(m, rd, x).regs[r]
      /\ RefSet(m, rd, x).regs \in [Regs -> 0 .. M - 1] /\ RefSet(m, rd, x).regs[0] = 0
  BY WrittenShows DEF Mirrors, StateOK, Looks
<1>2. z = [m EXCEPT !.regs = RefSet(m, rd, x).regs, !.pc = t, !.csr = c]
  BY DEF RefSet, Mirrors, Machines
<1> HIDE DEF z
<1>3. /\ z \in Machines /\ z.mem = m.mem /\ z.csr = c /\ z.nread = m.nread /\ z.status = m.status /\ z.pc = t
      /\ z.regs = RefSet(m, rd, x).regs
  BY <1>1, <1>2 DEF Mirrors, Machines
<1>4. StateOK'
  BY <1>1 DEF Mirrors, StateOK
<1>5. Common(z)'
  BY <1>3, WordIsOfMemory DEF Mirrors, Common
<1>6. Looks(p, z)'
  BY <1>1, <1>3 DEF Mirrors, Looks
<1>7. Shows(p, i)'
  BY DEF Mirrors, Shows
<1> QED
  BY <1>3, <1>4, <1>5, <1>6, <1>7 DEF Mirrors, z

\* JAL and JALR do: a followed input agrees on the target of JALR.
LEMMA JumpStep ==
  ASSUME NEW p, NEW i, NEW m, Mirrors(p, i, m), NEW ins \in Instructions, Jump(ins), Followed(p)
  PROVE  Mirrors(p, i, RefStep(m, ins, i))'
<1> DEFINE base == IF ins.op = "JAL" THEN BVC(pc) ELSE regs[ins.rs1]
           b == IF ins.op = "JAL" THEN m.pc ELSE m.regs[ins.rs1]
           target == (concrete(base) + ins.imm) % 2 ^ XLEN
           t == IF ins.op = "JAL" THEN target ELSE target - (target % 2)
<1> USE InstructionParts
<1>1. /\ ins.op \in {"JAL", "JALR"} /\ pc' = t /\ concretised' = concretised \cap Agreeing(base)
      /\ regs' = Written(ins.rd, BVC(NextPc))
      /\ UNCHANGED <<mem, mscratch, ctrl, sensor, status, current, traced>>
  BY DEF Jump
<1>2. m.pc = pc /\ pc \in 0 .. M - 1 /\ pc \in Int /\ pc % M = pc /\ p \in Points /\ m.csr = mscratch /\ mscratch \in Int
  BY SmallWord, Powers DEF Mirrors, StateOK, Common
<1>3. base.at[p] = b /\ b \in 0 .. M - 1
  BY <1>2, MirrorsRegs, WordConst
<1>4. base.at[p] = concrete(base)
  <2>1. concretised' \subseteq Agreeing(base)
    BY <1>1
  <2> HIDE DEF base
  <2> QED
    BY <2>1, AgreeingAgrees
<1>5. target = (b + ins.imm) % M /\ target \in 0 .. M - 1
  <2>1. b + ins.imm \in Int
    BY <1>3, Powers
  <2> HIDE DEF b, base
  <2> QED
    BY <1>3, <1>4, <2>1, ModWord DEF M
<1> HIDE DEF target, base, b
<1>6. t \in 0 .. M - 1 /\ t = IF ins.op = "JAL" THEN target ELSE 2 * (target \div 2)
  BY <1>5, Powers
<1>7. Gives(BVC(NextPc), p, m.pc + 4)
  <2>1. NextPc = (m.pc + 4) % M /\ m.pc + 4 \in Int
    BY <1>2 DEF NextPc, M
  <2>2. (m.pc + 4) % M \in 0 .. M - 1 /\ ((m.pc + 4) % M) % M = (m.pc + 4) % M
    BY <2>1, ModWord
  <2>3. NextPc \in Int /\ NextPc % M = (m.pc + 4) % M
    BY <2>1, <2>2, Powers
  <2> QED
    BY <1>2, <2>1, <2>3, WordConst, ModWord, SomeWidths DEF Gives
<1> HIDE DEF t
<1>8. PICK u \in 0 .. M - 1 : u = t
  BY <1>6
<1>9. PICK c \in Int : c = mscratch
  BY <1>2
<1>10. Mirrors(p, i, [RefSet(m, ins.rd, m.pc + 4) EXCEPT !.pc = u, !.csr = c])'
  <2>1. traced' \subseteq traced /\ concretised' \subseteq concretised
    BY <1>1
  <2> QED
    BY <1>1, <1>7, <1>8, <1>9, <2>1, JumpMirrors
<1>11. [RefSet(m, ins.rd, m.pc + 4) EXCEPT !.pc = u, !.csr = c] = RefStep(m, ins, i)
  <2>1. c = m.csr /\ m \in Machines
    BY <1>2, <1>9 DEF Mirrors
  <2>2. u = IF ins.op = "JAL" THEN (m.pc + ins.imm) % M ELSE 2 * (((m.regs[ins.rs1] + ins.imm) % M) \div 2)
    BY <1>1, <1>5, <1>6, <1>8 DEF b
  <2>3. RefStep(m, ins, i) = [RefSet(m, ins.rd, m.pc + 4) EXCEPT !.pc = u]
    BY <1>1, <2>2, RefStepIs DEF RefJump
  <2>4. [RefSet(m, ins.rd, m.pc + 4) EXCEPT !.pc = u, !.csr = c] = [RefSet(m, ins.rd, m.pc + 4) EXCEPT !.pc = u]
    BY <2>1 DEF RefSet, Machines
  <2> QED
    BY <2>3, <2>4
<1> QED
  BY <1>10, <1>11

\* Branches.
LEMMA ConditionIs ==
  ASSUME NEW a \in Val(XLEN), NEW b \in Val(XLEN), NEW p \in Points, NEW op \in BranchOps
  PROVE  Condition(op, a, b).at[p] = Bool(RefTaken(op, a.at[p], b.at[p]))
<1> DEFINE x == a.at[p]
           y == b.at[p]
<1>1. x \in 0 .. M - 1 /\ y \in 0 .. M - 1
  BY ValueParts, SomeWidths DEF M
<1>2. S(x) = ToInt(x, XLEN) /\ S(y) = ToInt(y, XLEN) /\ S(x) \in Int /\ S(y) \in Int
  BY <1>1, SignedIs, Powers
<1>3. 2 ^ 1 = 2
  OBVIOUS
<1>4. /\ eq(a, b).at[p] = Bool(x = y) /\ ne(a, b).at[p] = Bool(x # y)
      /\ ult(a, b).at[p] = Bool(x < y) /\ uge(a, b).at[p] = Bool(x >= y)
      /\ slt(a, b).at[p] = Bool(S(x) < S(y)) /\ sge(a, b).at[p] = Bool(S(x) >= S(y))
  <2>1. /\ Made(eq(a, b), 1, [q \in Points |-> Bool(a.at[q] = b.at[q])])
        /\ Made(ne(a, b), 1, [q \in Points |-> Bool(a.at[q] # b.at[q])])
        /\ Made(ult(a, b), 1, [q \in Points |-> Bool(a.at[q] < b.at[q])])
        /\ Made(uge(a, b), 1, [q \in Points |-> Bool(a.at[q] >= b.at[q])])
        /\ Made(slt(a, b), 1, [q \in Points |-> Bool(ToInt(a.at[q], XLEN) < ToInt(b.at[q], XLEN))])
        /\ Made(sge(a, b), 1, [q \in Points |-> Bool(ToInt(a.at[q], XLEN) >= ToInt(b.at[q], XLEN))])
    BY ConditionsMade, SomeWidths
  <2>2. /\ eq(a, b).at[p] = Bool(x = y) % 2 /\ ne(a, b).at[p] = Bool(x # y) % 2
        /\ ult(a, b).at[p] = Bool(x < y) % 2 /\ uge(a, b).at[p] = Bool(x >= y) % 2
        /\ slt(a, b).at[p] = Bool(S(x) < S(y)) % 2 /\ sge(a, b).at[p] = Bool(S(x) >= S(y)) % 2
    BY <1>2, <1>3, <2>1 DEF Made
  <2> HIDE DEF x, y
  <2> QED
    BY <2>2 DEF Bool
<1> HIDE DEF x, y
<1>5. (x >= y <=> ~ (x < y)) /\ (S(x) >= S(y) <=> ~ (S(x) < S(y)))
  BY <1>1, <1>2, Powers
<1> QED
  BY <1>4, <1>5 DEF Condition, RefTaken, BranchOps, Bool, x, y

\* The branches do: a followed input agrees on the traced condition.
LEMMA BranchStep ==
  ASSUME NEW p, NEW i, NEW m, Mirrors(p, i, m), NEW ins \in Instructions, Branch(ins), Followed(p)
  PROVE  Mirrors(p, i, RefStep(m, ins, i))'
<1> DEFINE res == Condition(ins.op, regs[ins.rs1], regs[ins.rs2])
           taken == RefTaken(ins.op, m.regs[ins.rs1], m.regs[ins.rs2])
           z == RefStep(m, ins, i)
<1> USE InstructionParts
<1>1. /\ ins.op \in BranchOps /\ pc' = (IF concrete(res) = 1 THEN (pc + ins.imm) % 2 ^ XLEN ELSE NextPc)
      /\ traced' = Traced(res) /\ UNCHANGED <<regs, mem, mscratch, ctrl, sensor, status, current, concretised>>
  BY DEF Branch
<1>2. res.at[p] = Bool(taken)
  BY <1>1, ConditionIs, MirrorsRegs
<1>3. res.at[p] = concrete(res)
  BY <1>1, TracedAgrees
<1>4. z = [m EXCEPT !.pc = (m.pc + (IF taken THEN ins.imm ELSE 4)) % M]
  BY <1>1, RefStepIs DEF RefBranch, Mirrors, Machines
<1>5. m.pc = pc /\ pc \in Int /\ pc + ins.imm \in Int /\ pc + 4 \in Int
  BY Powers DEF Mirrors, StateOK, Common
<1>6. pc' = (m.pc + (IF taken THEN ins.imm ELSE 4)) % M /\ pc' \in 0 .. M - 1
  <2>1. (pc + ins.imm) % M \in 0 .. M - 1 /\ (pc + 4) % M \in 0 .. M - 1
    BY <1>5, ModWord
  <2> HIDE DEF res, taken
  <2> QED
    BY <1>1, <1>2, <1>3, <1>5, <2>1 DEF Bool, NextPc, M
<1> HIDE DEF z, res, taken
<1>7. z \in Machines /\ z.regs = m.regs /\ z.mem = m.mem /\ z.csr = m.csr /\ z.nread = m.nread /\ z.status = m.status /\ z.pc = pc'
  BY <1>4, <1>6 DEF Mirrors, Machines
<1>8. StateOK'
  BY <1>1, <1>6 DEF Mirrors, StateOK, Traced
<1>9. Common(z)'
  BY <1>1, <1>7, WordIsOfMemory DEF Mirrors, Common
<1>10. Looks(p, z)'
  BY <1>1, <1>7 DEF Mirrors, Looks
<1>11. Shows(p, i)'
  BY <1>1 DEF Mirrors, Shows
<1> QED
  BY <1>7, <1>8, <1>9, <1>10, <1>11 DEF Mirrors, z

\* The CSR instructions do: a followed input agrees on the operand that the
\* register receives.
LEMMA CsrStep ==
  ASSUME NEW p, NEW i, NEW m, Mirrors(p, i, m), NEW ins \in Instructions, Csr(ins), Followed(p)
  PROVE  Mirrors(p, i, RefStep(m, ins, i))'
<1> DEFINE immediate == ins.op \in {"CSRRWI", "CSRRSI", "CSRRCI"}
           operand == IF immediate THEN BVC(ins.imm) ELSE regs[ins.rs1]
           n == concrete(operand)
           write == ins.op \in {"CSRRW", "CSRRWI"} \/ (IF immediate THEN ins.imm # 0 ELSE ins.rs1 # 0)
           csr == CASE ~write -> mscratch
                    [] write /\ ins.op \in {"CSRRW", "CSRRWI"} -> n
                    [] write /\ ins.op \in {"CSRRS", "CSRRSI"} -> BitOr(mscratch, n)
                    [] write /\ ins.op \in {"CSRRC", "CSRRCI"} -> BitAnd(mscratch, 2 ^ XLEN - 1 - n)
           y == IF immediate THEN ins.imm % M ELSE m.regs[ins.rs1]
<1> USE InstructionParts
<1>1. /\ ins.op \in CsrOps /\ regs' = Written(ins.rd, BVC(mscratch)) /\ mscratch' = csr
      /\ concretised' = concretised \cap Agreeing(operand) /\ pc' = NextPc
      /\ UNCHANGED <<mem, ctrl, sensor, status, current, traced>>
  BY DEF Csr
<1>2. /\ m.csr = mscratch /\ mscratch \in Int /\ p \in Points /\ m.pc = pc /\ pc \in Int /\ m \in Machines
  BY Powers DEF Mirrors, StateOK, Common, Machines
<1>3. operand.at[p] = y /\ y \in 0 .. M - 1
  BY <1>2, MirrorsRegs, WordConst, ModWord
<1>4. n = y
  <2>1. concretised' \subseteq Agreeing(operand)
    BY <1>1
  <2> HIDE DEF operand
  <2> QED
    BY <2>1, <1>3, AgreeingAgrees
<1> HIDE DEF operand, n, y
<1>5. BitOr(mscratch, y) \in Int /\ BitAnd(mscratch, M - 1 - y) \in Int
  <2>1. y \in Int /\ M - 1 - y \in Int
    BY <1>3, Powers
  <2> QED
    BY <1>2, <2>1, BitsAreIntegers
<1> DEFINE reads == ins.op \notin {"CSRRW", "CSRRWI"} /\ (IF immediate THEN ins.imm = 0 ELSE ins.rs1 = 0)
<1>6. csr = IF reads THEN m.csr ELSE RefAlu(ins.op, m.csr, y)
  <2>1. reads <=> ~write
    OBVIOUS
  <2>2. CASE ~write
    BY <1>2, <2>1, <2>2
  <2>3. CASE write /\ ins.op \in {"CSRRW", "CSRRWI"}
    BY <1>4, <2>1, <2>3 DEF RefAlu
  <2>4. CASE write /\ ins.op \in {"CSRRS", "CSRRSI"}
    BY <1>2, <1>4, <2>1, <2>4 DEF RefAlu
  <2>5. CASE write /\ ins.op \in {"CSRRC", "CSRRCI"}
    BY <1>2, <1>4, <2>1, <2>5 DEF RefAlu, M
  <2> QED
    BY <1>1, <2>2, <2>3, <2>4, <2>5 DEF CsrOps
<1>7. csr \in Int
  <2>1. n \in Int
    BY <1>3, <1>4, Powers
  <2> QED
    BY <1>1, <1>2, <1>4, <1>5, <2>1 DEF CsrOps, M
<1> HIDE DEF csr
<1>8. PICK c \in Int : c = csr
  BY <1>7
<1>9. PICK u \in 0 .. M - 1 : u = NextPc /\ u = (m.pc + 4) % M
  BY <1>2, ModWord DEF NextPc, M
<1>10. Gives(BVC(mscratch), p, m.csr)
  BY <1>2, WordConst, ModWord, SomeWidths DEF Gives
<1>11. Mirrors(p, i, [RefSet(m, ins.rd, m.csr) EXCEPT !.pc = u, !.csr = c])'
  <2>1. traced' \subseteq traced /\ concretised' \subseteq concretised
    BY <1>1
  <2> QED
    BY <1>1, <1>8, <1>9, <1>10, <2>1, JumpMirrors
<1>12. [RefSet(m, ins.rd, m.csr) EXCEPT !.pc = u, !.csr = c] = RefStep(m, ins, i)
  <2>1. RefStep(m, ins, i) = RefCsr(m, ins)
    BY <1>1, RefStepIs
  <2>2. RefSet(m, ins.rd, m.csr).csr = m.csr /\ RefSet(m, ins.rd, m.csr).pc = u
    BY <1>2, <1>9 DEF RefSet, Machines
  <2>3. c = IF reads THEN RefSet(m, ins.rd, m.csr).csr ELSE RefAlu(ins.op, RefSet(m, ins.rd, m.csr).csr, y)
    BY <1>6, <1>8, <2>2
  <2>4. RefCsr(m, ins) = [RefSet(m, ins.rd, m.csr) EXCEPT !.csr = c]
    BY <2>3 DEF RefCsr, y
  <2>5. [RefSet(m, ins.rd, m.csr) EXCEPT !.pc = u, !.csr = c] = [RefSet(m, ins.rd, m.csr) EXCEPT !.csr = c]
    BY <1>2, <2>2 DEF RefSet, Machines
  <2> QED
    BY <2>1, <2>4, <2>5
<1> QED
  BY <1>11, <1>12

-----------------------------------------------------------------------------
(* Bytes and words. *)

\* The word of four bytes, the lowest first, and a byte of a number.
WordOf(b0, b1, b2, b3) == b0 + Radix * (b1 + Radix * (b2 + Radix * b3))
Digit(v, j) == (v \div 2 ^ (CHAR_BIT * j)) % Radix

\* The range of a number of two digits.
LEMMA TwoDigits ==
  ASSUME NEW d \in Nat \ {0}, NEW e \in Nat \ {0}, NEW r \in 0 .. d - 1, NEW u \in 0 .. e - 1
  PROVE  d * u + r \in 0 .. d * e - 1
<1>1. PICK k \in Nat : e = u + 1 + k
  <2>1. e - u - 1 \in Nat
    OBVIOUS
  <2> QED
    BY <2>1, e = u + 1 + (e - u - 1)
<1>2. d * e = d * u + d + d * k /\ d * k \in Nat /\ d * u \in Nat
  BY <1>1
<1> QED
  BY <1>2

\* The numbers of one to four bytes.
LEMMA WordRange ==
  ASSUME NEW b0 \in 0 .. Radix - 1, NEW b1 \in 0 .. Radix - 1, NEW b2 \in 0 .. Radix - 1, NEW b3 \in 0 .. Radix - 1
  PROVE  /\ b0 + Radix * b1 \in 0 .. Radix * Radix - 1
         /\ b1 + Radix * (b2 + Radix * b3) \in 0 .. Radix * Radix * Radix - 1
         /\ WordOf(b0, b1, b2, b3) \in 0 .. M - 1
<1>1. Radix \in Nat \ {0} /\ Radix * Radix \in Nat \ {0} /\ Radix * Radix * Radix \in Nat \ {0}
  BY Powers
<1>2. b0 + Radix * b1 \in 0 .. Radix * Radix - 1 /\ b2 + Radix * b3 \in 0 .. Radix * Radix - 1
  <2>1. Radix * b1 + b0 \in 0 .. Radix * Radix - 1 /\ Radix * b3 + b2 \in 0 .. Radix * Radix - 1
    BY <1>1, TwoDigits
  <2> QED
    BY <2>1, <1>1
<1>3. b1 + Radix * (b2 + Radix * b3) \in 0 .. Radix * (Radix * Radix) - 1
  <2>1. Radix * (b2 + Radix * b3) + b1 \in 0 .. Radix * (Radix * Radix) - 1
    BY <1>1, <1>2, TwoDigits
  <2>2. Radix * (b2 + Radix * b3) \in Int
    BY <1>1, <1>2
  <2> QED
    BY <2>1, <2>2
<1>4. WordOf(b0, b1, b2, b3) \in 0 .. Radix * (Radix * (Radix * Radix)) - 1
  <2> DEFINE t == b1 + Radix * (b2 + Radix * b3)
  <2>1. Radix * (Radix * Radix) \in Nat \ {0} /\ t \in 0 .. Radix * (Radix * Radix) - 1
    BY <1>1, <1>3
  <2> HIDE DEF t
  <2>2. Radix * t + b0 \in 0 .. Radix * (Radix * (Radix * Radix)) - 1
    BY <1>1, <2>1, TwoDigits
  <2>3. Radix * t \in Int
    BY <1>1, <2>1
  <2> QED
    BY <2>2, <2>3 DEF WordOf, t
<1>5. Radix * (Radix * Radix) = Radix * Radix * Radix /\ M = Radix * (Radix * (Radix * Radix))
  BY <1>1, Units
<1> QED
  BY <1>2, <1>3, <1>4, <1>5

\* What is left of a word without its lowest bytes.
LEMMA Upper ==
  ASSUME NEW b0 \in 0 .. Radix - 1, NEW b1 \in 0 .. Radix - 1, NEW b2 \in 0 .. Radix - 1, NEW b3 \in 0 .. Radix - 1,
         NEW w, w = WordOf(b0, b1, b2, b3)
  PROVE  /\ w \in 0 .. M - 1
         /\ w \div 1 = w
         /\ w \div Radix = b1 + Radix * (b2 + Radix * b3)
         /\ w \div (Radix * Radix) = b2 + Radix * b3
         /\ w \div (Radix * Radix * Radix) = b3
<1> DEFINE t1 == b1 + Radix * (b2 + Radix * b3)
           t2 == b2 + Radix * b3
<1>1. Radix \in Nat \ {0} /\ Radix * Radix \in Nat \ {0} /\ Radix * Radix * Radix \in Nat \ {0}
  BY Powers
<1>2. w \in 0 .. M - 1 /\ w \in Int
  BY WordRange, Powers
<1>3. t1 \in Int /\ t2 \in Int /\ b3 \in Int
  BY <1>1
<1>4. w = Radix * t1 + b0
  <2>1. Radix * t1 \in Int
    BY <1>1, <1>3
  <2> QED
    BY <2>1 DEF WordOf
<1>5. w \div Radix = t1
  <2> HIDE DEF t1
  <2> QED
    BY <1>1, <1>2, <1>3, <1>4, DivMod
<1>6. t1 \div Radix = t2
  <2>1. t1 = Radix * t2 + b1
    BY <1>1, <1>3
  <2> HIDE DEF t1, t2
  <2> QED
    BY <1>1, <1>3, <2>1, DivMod
<1>7. t2 \div Radix = b3
  <2>1. t2 = Radix * b3 + b2
    BY <1>1, <1>3
  <2> HIDE DEF t2
  <2> QED
    BY <1>1, <1>3, <2>1, DivMod
<1>8. w \div (Radix * Radix) = t2
  <2> HIDE DEF t1, t2
  <2>1. w \div (Radix * Radix) = (w \div Radix) \div Radix
    BY <1>1, <1>2, Between
  <2> QED
    BY <2>1, <1>5, <1>6
<1>9. w \div ((Radix * Radix) * Radix) = b3
  <2> HIDE DEF t1, t2
  <2>1. w \div ((Radix * Radix) * Radix) = (w \div (Radix * Radix)) \div Radix
    BY <1>1, <1>2, Between
  <2> QED
    BY <2>1, <1>7, <1>8
<1>10. w \div 1 = w
  BY <1>2
<1> QED
  BY <1>2, <1>5, <1>8, <1>9, <1>10

\* The parts of a word that an aligned access of one, two or four bytes sees.
LEMMA PartOf ==
  ASSUME NEW b0 \in 0 .. Radix - 1, NEW b1 \in 0 .. Radix - 1, NEW b2 \in 0 .. Radix - 1, NEW b3 \in 0 .. Radix - 1,
         NEW w, w = WordOf(b0, b1, b2, b3)
  PROVE  /\ w % Radix = b0 /\ (w \div Radix) % Radix = b1 /\ (w \div (Radix * Radix)) % Radix = b2
         /\ (w \div (Radix * Radix * Radix)) % Radix = b3
         /\ w % (Radix * Radix) = b0 + Radix * b1
         /\ (w \div (Radix * Radix)) % (Radix * Radix) = b2 + Radix * b3
         /\ w % M = w
<1> DEFINE t1 == b1 + Radix * (b2 + Radix * b3)
           t2 == b2 + Radix * b3
<1>1. Radix \in Nat \ {0} /\ Radix * Radix \in Nat \ {0} /\ Radix * Radix * Radix \in Nat \ {0}
  BY Powers
<1>2. w \in 0 .. M - 1 /\ w \in Int /\ t1 \in Int /\ t2 \in Int /\ b3 \in Int
  BY <1>1, WordRange, Powers
<1>3. w = Radix * t1 + b0 /\ t1 = Radix * t2 + b1 /\ t2 = Radix * b3 + b2
  <2>1. Radix * t1 \in Int /\ Radix * t2 \in Int /\ Radix * b3 \in Int
    BY <1>1, <1>2
  <2> QED
    BY <2>1 DEF WordOf
<1>4. w \div Radix = t1 /\ w \div (Radix * Radix) = t2 /\ w \div (Radix * Radix * Radix) = b3
  BY Upper
<1>5. t2 \in 0 .. Radix * Radix - 1
  BY <1>1, <1>3, TwoDigits
<1> HIDE DEF t1, t2
<1>6. w % Radix = b0 /\ t1 % Radix = b1 /\ t2 % Radix = b2
  <2>1. w % Radix = b0
    BY <1>1, <1>2, <1>3, DivMod
  <2>2. t1 % Radix = b1
    BY <1>1, <1>2, <1>3, DivMod
  <2>3. t2 % Radix = b2
    BY <1>1, <1>2, <1>3, DivMod
  <2> QED
    BY <2>1, <2>2, <2>3
<1>7. b3 % Radix = b3 /\ \A n \in Nat \ {0} : \A t \in 0 .. n - 1 : t % n = t
  BY <1>1
<1>8. t2 % (Radix * Radix) = t2 /\ w % M = w
  <2>1. t2 % (Radix * Radix) = t2
    BY <1>1, <1>5, <1>7
  <2> QED
    BY <1>2, <2>1, SmallWord
<1>9. w % (Radix * Radix) = b0 + Radix * b1
  <2>1. b0 + Radix * b1 \in 0 .. Radix * Radix - 1
    BY WordRange
  <2>2. w = (Radix * Radix) * t2 + (b0 + Radix * b1)
    <3>1. Radix * (Radix * t2 + b1) + b0 = (Radix * Radix) * t2 + (b0 + Radix * b1)
      BY <1>1, <1>2
    <3> QED
      BY <1>3, <3>1
  <2> QED
    BY <1>1, <1>2, <2>1, <2>2, DivMod
<1> QED
  BY <1>4, <1>6, <1>7, <1>8, <1>9 DEF t2

\* The low part of a number, digit by digit.
LEMMA LowPart ==
  ASSUME NEW d \in Nat \ {0}, NEW e \in Nat \ {0}, NEW x \in Int
  PROVE  x % (d * e) = (x % d) + d * ((x \div d) % e)
<1>1. Low(d, e, x)
  BY Between
<1>2. PICK u \in Int : u = (x \div d) % e
  BY Division
<1>3. PICK r \in Int : r = x % d
  BY Division
<1>4. d * u + r = r + d * u
  OBVIOUS
<1> QED
  BY ONLY <1>1, <1>2, <1>3, <1>4 DEF Low

\* The lowest bytes of a number.
LEMMA LowDigits ==
  ASSUME NEW v \in Int
  PROVE  /\ \A j \in 0 .. 3 : Digit(v, j) \in 0 .. Radix - 1
         /\ v % Radix = Digit(v, 0)
         /\ v % (Radix * Radix) = Digit(v, 0) + Radix * Digit(v, 1)
         /\ v % M = WordOf(Digit(v, 0), Digit(v, 1), Digit(v, 2), Digit(v, 3))
<1> DEFINE v1 == v \div Radix
           v2 == v1 \div Radix
           v3 == v2 \div Radix
<1>1. Radix \in Nat \ {0} /\ Radix * Radix \in Nat \ {0} /\ Radix * Radix * Radix \in Nat \ {0}
  BY Powers
<1>2. v1 \in Int
  BY <1>1, Division
<1>3. v2 \in Int
  <2> HIDE DEF v1
  <2> QED
    BY <1>1, <1>2, Division
<1>4. v3 \in Int
  <2> HIDE DEF v2
  <2> QED
    BY <1>1, <1>3, Division
<1>5. v \div (Radix * Radix) = v2
  BY <1>1, Between
<1>6. v \div (Radix * Radix * Radix) = v3
  <2>1. v \div ((Radix * Radix) * Radix) = (v \div (Radix * Radix)) \div Radix
    BY <1>1, Between
  <2> QED
    BY <1>5, <2>1
<1>7. v \div 1 = v
  OBVIOUS
<1>8. Digit(v, 0) = v % Radix /\ Digit(v, 1) = v1 % Radix /\ Digit(v, 2) = v2 % Radix /\ Digit(v, 3) = v3 % Radix
  BY <1>5, <1>6, <1>7, Units DEF Digit
<1> HIDE DEF v1, v2, v3
<1>9. \A j \in 0 .. 3 : Digit(v, j) \in 0 .. Radix - 1
  <2>1. v % Radix \in 0 .. Radix - 1 /\ v1 % Radix \in 0 .. Radix - 1 /\ v2 % Radix \in 0 .. Radix - 1 /\ v3 % Radix \in 0 .. Radix - 1
    BY <1>1, <1>2, <1>3, <1>4, Division
  <2>2. \A j \in 0 .. 3 : j = 0 \/ j = 1 \/ j = 2 \/ j = 3
    OBVIOUS
  <2> QED
    BY <1>8, <2>1, <2>2
<1>10. \A t \in Int, e \in Nat \ {0} : t % (Radix * e) = (t % Radix) + Radix * ((t \div Radix) % e)
  BY <1>1, LowPart
<1>11. v % (Radix * Radix) = Digit(v, 0) + Radix * Digit(v, 1)
  BY <1>1, <1>8, <1>10 DEF v1
<1>12. v2 % (Radix * Radix) = Digit(v, 2) + Radix * Digit(v, 3)
  BY <1>1, <1>3, <1>8, <1>10 DEF v3
<1>13. v1 % (Radix * (Radix * Radix)) = Digit(v, 1) + Radix * (Digit(v, 2) + Radix * Digit(v, 3))
  BY <1>1, <1>2, <1>8, <1>10, <1>12 DEF v2
<1>14. v % (Radix * (Radix * (Radix * Radix))) = WordOf(Digit(v, 0), Digit(v, 1), Digit(v, 2), Digit(v, 3))
  <2>1. Radix * (Radix * Radix) \in Nat \ {0}
    BY <1>1
  <2> QED
    BY <1>8, <1>10, <1>13, <2>1 DEF v1, WordOf
<1>15. M = Radix * (Radix * (Radix * Radix))
  BY <1>1, Units
<1> QED
  BY <1>8, <1>9, <1>11, <1>14, <1>15

\* The bytes of a word of a reference machine.
LEMMA RefWordIs ==
  ASSUME NEW f \in [Cells -> 0 .. Radix - 1], NEW m, m.mem = f, NEW a \in Nat, NEW n
  PROVE  /\ n = 1 /\ a \in Cells => RefWord(m, a, n) = f[a]
         /\ n = 2 /\ a \in Cells /\ a + 1 \in Cells => RefWord(m, a, n) = f[a] + Radix * f[a + 1]
         /\ n = 4 /\ a \in Cells /\ a + 1 \in Cells /\ a + 2 \in Cells /\ a + 3 \in Cells =>
              RefWord(m, a, n) = WordOf(f[a], f[a + 1], f[a + 2], f[a + 3])
<1> DEFINE e == [k \in 1 .. n |-> m.mem[a + k - 1] * 2 ^ (CHAR_BIT * (k - 1))]
<1>1. RefWord(m, a, n) = SumOf(e, n)
  BY DEF RefWord
<1>2. Radix \in Nat /\ \A c \in Cells : f[c] \in Nat
  BY Powers
<1>3. ASSUME n = 1, a \in Cells PROVE RefWord(m, a, n) = f[a]
  <2>1. e[1] = f[a]
    BY <1>2, <1>3, Units, a + 1 - 1 = a, 1 - 1 = 0
  <2>2. e \in [1 .. n -> Int]
    <3>1. \A k \in 1 .. n : e[k] = f[a]
      BY <1>3, <2>1
    <3> QED
      BY <1>2, <1>3, <3>1
  <2> HIDE DEF e
  <2> QED
    BY <1>1, <1>3, <2>1, <2>2, Sum1
<1>4. ASSUME n = 2, a \in Cells, a + 1 \in Cells PROVE RefWord(m, a, n) = f[a] + Radix * f[a + 1]
  <2>1. e[1] = f[a] /\ e[2] = f[a + 1] * Radix
    <3>1. a + 1 - 1 = a /\ a + 2 - 1 = a + 1
      OBVIOUS
    <3>2. e[1] = m.mem[a] * 2 ^ (CHAR_BIT * 0) /\ e[2] = m.mem[a + 1] * 2 ^ (CHAR_BIT * 1)
      BY <1>4, <3>1
    <3> QED
      BY <1>2, <1>4, <3>2, Units
  <2>2. e[1] \in Int /\ e[2] \in Int
    BY <1>2, <1>4, <2>1
  <2>3. e \in [1 .. n -> Int]
    <3>1. \A k \in 1 .. n : k = 1 \/ k = 2
      BY <1>4
    <3>2. \A k \in 1 .. n : e[k] \in Int
      BY <2>2, <3>1
    <3> QED
      BY <3>2
  <2> HIDE DEF e
  <2>4. SumOf(e, n) = e[1] + e[2]
    BY <1>4, <2>3, Sum2
  <2> QED
    BY <1>1, <1>2, <1>4, <2>1, <2>4
<1>5. ASSUME n = 4, a \in Cells, a + 1 \in Cells, a + 2 \in Cells, a + 3 \in Cells
      PROVE  RefWord(m, a, n) = WordOf(f[a], f[a + 1], f[a + 2], f[a + 3])
  <2>1. e[1] = f[a] /\ e[2] = f[a + 1] * Radix /\ e[3] = f[a + 2] * (Radix * Radix) /\ e[4] = f[a + 3] * (Radix * Radix * Radix)
    <3>1. a + 1 - 1 = a /\ a + 2 - 1 = a + 1 /\ a + 3 - 1 = a + 2 /\ a + 4 - 1 = a + 3
      OBVIOUS
    <3>2. /\ e[1] = m.mem[a] * 2 ^ (CHAR_BIT * 0) /\ e[2] = m.mem[a + 1] * 2 ^ (CHAR_BIT * 1)
          /\ e[3] = m.mem[a + 2] * 2 ^ (CHAR_BIT * 2) /\ e[4] = m.mem[a + 3] * 2 ^ (CHAR_BIT * 3)
      BY <1>5, <3>1
    <3> QED
      BY <1>2, <1>5, <3>2, Units
  <2>2. e[1] \in Int /\ e[2] \in Int /\ e[3] \in Int /\ e[4] \in Int
    BY <1>2, <1>5, <2>1
  <2>3. e \in [1 .. n -> Int]
    <3>1. \A k \in 1 .. n : k = 1 \/ k = 2 \/ k = 3 \/ k = 4
      BY <1>5
    <3>2. \A k \in 1 .. n : e[k] \in Int
      BY <2>2, <3>1
    <3> QED
      BY <3>2
  <2> HIDE DEF e
  <2>4. SumOf(e, n) = e[1] + e[2] + e[3] + e[4]
    BY <1>5, <2>3, Sum4
  <2>5. ASSUME NEW x0 \in Nat, NEW x1 \in Nat, NEW x2 \in Nat, NEW x3 \in Nat
        PROVE  x0 + x1 * Radix + x2 * (Radix * Radix) + x3 * (Radix * Radix * Radix) = WordOf(x0, x1, x2, x3)
    BY <1>2 DEF WordOf
  <2>6. f[a] \in Nat /\ f[a + 1] \in Nat /\ f[a + 2] \in Nat /\ f[a + 3] \in Nat
    BY <1>2, <1>5
  <2>7. e[1] + e[2] + e[3] + e[4] = WordOf(f[a], f[a + 1], f[a + 2], f[a + 3])
    BY <2>1, <2>5, <2>6
  <2> QED
    BY <1>1, <2>4, <2>7
<1> QED
  BY <1>3, <1>4, <1>5

\* What Patched makes of a word.
LEMMA PatchedIs ==
  ASSUME NEW b0 \in 0 .. Radix - 1, NEW b1 \in 0 .. Radix - 1, NEW b2 \in 0 .. Radix - 1, NEW b3 \in 0 .. Radix - 1,
         NEW v \in Int, NEW off, NEW n
  PROVE  LET w == WordOf(b0, b1, b2, b3)
             d0 == Digit(v, 0)
             d1 == Digit(v, 1)
         IN  /\ n = 1 /\ off = 0 => Patched(w, off, v, n) = WordOf(d0, b1, b2, b3)
             /\ n = 1 /\ off = 1 => Patched(w, off, v, n) = WordOf(b0, d0, b2, b3)
             /\ n = 1 /\ off = 2 => Patched(w, off, v, n) = WordOf(b0, b1, d0, b3)
             /\ n = 1 /\ off = 3 => Patched(w, off, v, n) = WordOf(b0, b1, b2, d0)
             /\ n = 2 /\ off = 0 => Patched(w, off, v, n) = WordOf(d0, d1, b2, b3)
             /\ n = 2 /\ off = 2 => Patched(w, off, v, n) = WordOf(b0, b1, d0, d1)
             /\ n = 4 /\ off = 0 => Patched(w, off, v, n) = WordOf(d0, d1, Digit(v, 2), Digit(v, 3))
<1> DEFINE w == WordOf(b0, b1, b2, b3)
           d0 == Digit(v, 0)
           d1 == Digit(v, 1)
           d2 == Digit(v, 2)
           d3 == Digit(v, 3)
<1>1. /\ Radix \in Nat \ {0} /\ d0 \in Nat /\ d1 \in Nat /\ d2 \in Nat /\ d3 \in Nat
  <2>1. \A j \in 0 .. 3 : Digit(v, j) \in 0 .. Radix - 1
    BY LowDigits
  <2>2. \A j \in 0 .. 3 : Digit(v, j) \in Nat
    BY <2>1, Powers
  <2> QED
    BY <2>2, Powers
<1>2. /\ v % Radix = d0 /\ v % (Radix * Radix) = d0 + Radix * d1 /\ v % M = WordOf(d0, d1, d2, d3)
  BY LowDigits
<1>3. /\ w % Radix = b0 /\ (w \div Radix) % Radix = b1 /\ (w \div (Radix * Radix)) % Radix = b2
      /\ (w \div (Radix * Radix * Radix)) % Radix = b3
      /\ w % (Radix * Radix) = b0 + Radix * b1
      /\ (w \div (Radix * Radix)) % (Radix * Radix) = b2 + Radix * b3
      /\ w % M = w /\ w \div 1 = w /\ w \in Int
  <2> HIDE DEF w
  <2>1. w = WordOf(b0, b1, b2, b3)
    BY DEF w
  <2> QED
    <3>1. /\ w % Radix = b0 /\ (w \div Radix) % Radix = b1 /\ (w \div (Radix * Radix)) % Radix = b2
          /\ (w \div (Radix * Radix * Radix)) % Radix = b3
          /\ w % (Radix * Radix) = b0 + Radix * b1
          /\ (w \div (Radix * Radix)) % (Radix * Radix) = b2 + Radix * b3
          /\ w % M = w
      BY <2>1, PartOf
    <3>2. w \div 1 = w /\ w \in 0 .. M - 1
      BY <2>1, Upper
    <3> QED
      BY <3>1, <3>2, Powers
<1>4. /\ 2 ^ (CHAR_BIT * 0) = 1 /\ 2 ^ (CHAR_BIT * 1) = Radix /\ 2 ^ (CHAR_BIT * 2) = Radix * Radix
      /\ 2 ^ (CHAR_BIT * 3) = Radix * Radix * Radix /\ 2 ^ (CHAR_BIT * 4) = M
  BY Units, WidthTypes, CHAR_BIT * 4 = 4 * CHAR_BIT DEF M
<1>5. w = b0 + Radix * (b1 + Radix * (b2 + Radix * b3))
  BY DEF WordOf
<1> HIDE DEF w, d0, d1, d2, d3
<1>6. ASSUME n = 1, off = 0 PROVE Patched(w, off, v, n) = WordOf(d0, b1, b2, b3)
  <2>1. Patched(w, off, v, n) = w + (d0 - b0) * 1
    BY <1>2, <1>3, <1>4, <1>6 DEF Patched
  <2> QED
    BY <1>1, <1>5, <2>1 DEF WordOf
<1>7. ASSUME n = 1, off = 1 PROVE Patched(w, off, v, n) = WordOf(b0, d0, b2, b3)
  <2>1. Patched(w, off, v, n) = w + (d0 - b1) * Radix
    BY <1>2, <1>3, <1>4, <1>7 DEF Patched
  <2> QED
    BY <1>1, <1>5, <2>1 DEF WordOf
<1>8. ASSUME n = 1, off = 2 PROVE Patched(w, off, v, n) = WordOf(b0, b1, d0, b3)
  <2>1. Patched(w, off, v, n) = w + (d0 - b2) * (Radix * Radix)
    BY <1>2, <1>3, <1>4, <1>8 DEF Patched
  <2> QED
    BY <1>1, <1>5, <2>1 DEF WordOf
<1>9. ASSUME n = 1, off = 3 PROVE Patched(w, off, v, n) = WordOf(b0, b1, b2, d0)
  <2>1. Patched(w, off, v, n) = w + (d0 - b3) * (Radix * Radix * Radix)
    BY <1>2, <1>3, <1>4, <1>9 DEF Patched
  <2> QED
    BY <1>1, <1>5, <2>1 DEF WordOf
<1>10. ASSUME n = 2, off = 0 PROVE Patched(w, off, v, n) = WordOf(d0, d1, b2, b3)
  <2>1. Patched(w, off, v, n) = w + ((d0 + Radix * d1) - (b0 + Radix * b1)) * 1
    BY <1>2, <1>3, <1>4, <1>10 DEF Patched
  <2> QED
    BY <1>1, <1>5, <2>1 DEF WordOf
<1>11. ASSUME n = 2, off = 2 PROVE Patched(w, off, v, n) = WordOf(b0, b1, d0, d1)
  <2>1. Patched(w, off, v, n) = w + ((d0 + Radix * d1) - (b2 + Radix * b3)) * (Radix * Radix)
    BY <1>2, <1>3, <1>4, <1>11 DEF Patched
  <2> QED
    BY <1>1, <1>5, <2>1 DEF WordOf
<1>12. ASSUME n = 4, off = 0 PROVE Patched(w, off, v, n) = WordOf(d0, d1, d2, d3)
  <2>1. Patched(w, off, v, n) = w + (WordOf(d0, d1, d2, d3) - w) * 1
    BY <1>2, <1>3, <1>4, <1>12 DEF Patched
  <2>2. WordOf(d0, d1, d2, d3) \in Int
    BY <1>1 DEF WordOf
  <2> QED
    BY <1>3, <2>1, <2>2
<1> QED
  BY <1>6, <1>7, <1>8, <1>9, <1>10, <1>11, <1>12 DEF w, d0, d1, d2, d3

-----------------------------------------------------------------------------
(* Addresses. *)

\* The words that the control peripheral and the sensor keep.
WordAddresses == {CtrlStart, CtrlStart + 4, CtrlStart + 8, SensorStart, SensorStart + 4}

\* Memory, control peripheral and sensor lie apart and within the address space.
LEMMA Layout ==
  /\ MemSize \in Nat /\ CtrlStart \in Nat /\ SensorStart \in Nat /\ DeviceSize \in Nat
  /\ CtrlStart % 4 = 0 /\ SensorStart % 4 = 0 /\ 12 <= DeviceSize
  /\ MemSize < CtrlStart /\ CtrlStart + DeviceSize <= SensorStart /\ SensorStart + DeviceSize <= M
  /\ TrapVector \in 0 .. M - 1
BY LayoutAssumption DEF M

\* The words of the devices are cells of the reference, byte by byte.
LEMMA WordCells ==
  ASSUME NEW w \in WordAddresses
  PROVE  /\ w \in Nat /\ w % 4 = 0 /\ w >= CtrlStart
         /\ w \in Cells /\ w + 1 \in Cells /\ w + 2 \in Cells /\ w + 3 \in Cells
BY Layout DEF WordAddresses, Cells, Memory, Control, Bounds

\* An aligned access of one, two or four bytes lies in one word.
LEMMA Aligned ==
  ASSUME NEW a \in Nat, NEW n \in {1, 2, 4}, a % n = 0, NEW w \in Nat, w % 4 = 0
  PROVE  \/ n = 1 /\ (a = w \/ a = w + 1 \/ a = w + 2 \/ a = w + 3)
         \/ n = 2 /\ (a = w \/ a = w + 2)
         \/ n = 4 /\ a = w
         \/ a \notin w .. w + 3 /\ \A b \in a .. a + n - 1 : b \notin w .. w + 3
<1>1. CASE n = 1
  BY <1>1
<1>2. CASE n = 2
  BY <1>2
<1>3. CASE n = 4
  BY <1>3
<1> QED
  BY <1>1, <1>2, <1>3

\* The store of the reference.
LEMMA PutIs ==
  ASSUME NEW m \in Machines, NEW a \in Nat, NEW v \in Int, NEW n \in {1, 2, 4}
  PROVE  /\ RefPut(m, a, v, n) = [m EXCEPT !.mem = RefPut(m, a, v, n).mem]
         /\ RefPut(m, a, v, n).mem \in [Cells -> 0 .. Radix - 1]
         /\ RefPut(m, a, v, n) \in Machines
<1> DEFINE put == RefPut(m, a, v, n)
           f == [b \in Cells |-> IF b \in a .. a + n - 1 THEN Digit(v, b - a) ELSE m.mem[b]]
<1>1. m.mem \in [Cells -> 0 .. Radix - 1]
  BY DEF Machines
<1>2. put = [m EXCEPT !.mem = f]
  BY <1>1 DEF RefPut, Digit, Radix
<1>3. \A b \in Cells : b \in a .. a + n - 1 => Digit(v, b - a) \in 0 .. Radix - 1
  <2> SUFFICES ASSUME NEW b \in Cells, b \in a .. a + n - 1 PROVE Digit(v, b - a) \in 0 .. Radix - 1
    OBVIOUS
  <2>1. b - a \in 0 .. 3
    OBVIOUS
  <2> QED
    BY <2>1, LowDigits
<1>4. f \in [Cells -> 0 .. Radix - 1]
  BY <1>1, <1>3
<1> HIDE DEF f, put
<1>5. put.mem = f /\ put \in Machines
  BY <1>2, <1>4 DEF Machines
<1> QED
  BY <1>2, <1>4, <1>5 DEF f, put

\* A byte of the reference after a store.
LEMMA PutByte ==
  ASSUME NEW m \in Machines, NEW a, NEW v, NEW n, NEW b \in Cells
  PROVE  RefPut(m, a, v, n).mem[b] = IF b \in a .. a + n - 1 THEN Digit(v, b - a) ELSE m.mem[b]
<1>1. m.mem \in [Cells -> 0 .. Radix - 1]
  BY DEF Machines
<1>2. RefPut(m, a, v, n).mem = [c \in Cells |-> IF c \in a .. a + n - 1 THEN Digit(v, c - a) ELSE m.mem[c]]
  BY <1>1 DEF RefPut, Digit, Radix, Machines
<1> QED
  BY <1>2

\* What the store makes of a word.
LEMMA PutWord ==
  ASSUME NEW m \in Machines, NEW a \in Nat, NEW v \in Int, NEW n \in {1, 2, 4}, a % n = 0, NEW w \in WordAddresses
  PROVE  RefWord(RefPut(m, a, v, n), w, 4) = IF a \in w .. w + 3 THEN Patched(RefWord(m, w, 4), a - w, v, n)
                                             ELSE RefWord(m, w, 4)
<1> DEFINE put == RefPut(m, a, v, n)
           f == m.mem
           g == put.mem
<1>1. f \in [Cells -> 0 .. Radix - 1] /\ g \in [Cells -> 0 .. Radix - 1]
  BY PutIs DEF Machines
<1>2. \A b \in Cells : g[b] = IF b \in a .. a + n - 1 THEN Digit(v, b - a) ELSE f[b]
  <2> SUFFICES ASSUME NEW b \in Cells
               PROVE  RefPut(m, a, v, n).mem[b] = IF b \in a .. a + n - 1 THEN Digit(v, b - a) ELSE m.mem[b]
    OBVIOUS
  <2> QED
    BY PutByte
<1> HIDE DEF put
<1>3. w \in Nat /\ w % 4 = 0 /\ w \in Cells /\ w + 1 \in Cells /\ w + 2 \in Cells /\ w + 3 \in Cells
  BY WordCells
<1>4. RefWord(m, w, 4) = WordOf(f[w], f[w + 1], f[w + 2], f[w + 3]) /\ RefWord(put, w, 4) = WordOf(g[w], g[w + 1], g[w + 2], g[w + 3])
  BY <1>1, <1>3, RefWordIs
<1>5. f[w] \in 0 .. Radix - 1 /\ f[w + 1] \in 0 .. Radix - 1 /\ f[w + 2] \in 0 .. Radix - 1 /\ f[w + 3] \in 0 .. Radix - 1
  BY <1>1, <1>3
<1> HIDE DEF f, g
<1>6. CASE n = 1 /\ (a = w \/ a = w + 1 \/ a = w + 2 \/ a = w + 3)
  <2>1. \A b \in Cells : g[b] = IF b = a THEN Digit(v, 0) ELSE f[b]
    <3>1. ASSUME NEW b \in Cells PROVE b \in Int
      BY Layout DEF Cells, Memory, Control, Bounds
    <3> QED
      BY <1>2, <1>6, <3>1
  <2>2. a - w \in 0 .. 3 /\ (a = w => a - w = 0) /\ (a = w + 1 => a - w = 1) /\ (a = w + 2 => a - w = 2) /\ (a = w + 3 => a - w = 3)
    BY <1>3, <1>6
  <2>3. CASE a = w
    <3>1. RefWord(put, w, 4) = WordOf(Digit(v, 0), f[w + 1], f[w + 2], f[w + 3])
      BY <1>3, <1>4, <2>1, <2>3
    <3> QED
      BY <1>3, <1>4, <1>5, <1>6, <2>2, <2>3, <3>1, PatchedIs DEF put
  <2>4. CASE a = w + 1
    <3>1. RefWord(put, w, 4) = WordOf(f[w], Digit(v, 0), f[w + 2], f[w + 3])
      BY <1>3, <1>4, <2>1, <2>4
    <3> QED
      BY <1>3, <1>4, <1>5, <1>6, <2>2, <2>4, <3>1, PatchedIs DEF put
  <2>5. CASE a = w + 2
    <3>1. RefWord(put, w, 4) = WordOf(f[w], f[w + 1], Digit(v, 0), f[w + 3])
      BY <1>3, <1>4, <2>1, <2>5
    <3> QED
      BY <1>3, <1>4, <1>5, <1>6, <2>2, <2>5, <3>1, PatchedIs DEF put
  <2>6. CASE a = w + 3
    <3>1. RefWord(put, w, 4) = WordOf(f[w], f[w + 1], f[w + 2], Digit(v, 0))
      BY <1>3, <1>4, <2>1, <2>6
    <3> QED
      BY <1>3, <1>4, <1>5, <1>6, <2>2, <2>6, <3>1, PatchedIs DEF put
  <2> QED
    BY <1>6, <2>3, <2>4, <2>5, <2>6
<1>7. CASE n = 2 /\ a = w
  <2>1. g[w] = Digit(v, 0) /\ g[w + 1] = Digit(v, 1) /\ g[w + 2] = f[w + 2] /\ g[w + 3] = f[w + 3]
    BY <1>2, <1>3, <1>7
  <2>2. a - w = 0 /\ a \in w .. w + 3
    BY <1>3, <1>7
  <2> QED
    BY <1>4, <1>5, <1>7, <2>1, <2>2, PatchedIs DEF put
<1>8. CASE n = 2 /\ a = w + 2
  <2>1. g[w] = f[w] /\ g[w + 1] = f[w + 1] /\ g[w + 2] = Digit(v, 0) /\ g[w + 3] = Digit(v, 1)
    BY <1>2, <1>3, <1>8
  <2>2. a - w = 2 /\ a \in w .. w + 3
    BY <1>3, <1>8
  <2> QED
    BY <1>4, <1>5, <1>8, <2>1, <2>2, PatchedIs DEF put
<1>9. CASE n = 4 /\ a = w
  <2>1. g[w] = Digit(v, 0) /\ g[w + 1] = Digit(v, 1) /\ g[w + 2] = Digit(v, 2) /\ g[w + 3] = Digit(v, 3)
    BY <1>2, <1>3, <1>9
  <2>2. a - w = 0 /\ a \in w .. w + 3
    BY <1>3, <1>9
  <2> QED
    BY <1>4, <1>5, <1>9, <2>1, <2>2, PatchedIs DEF put
<1>10. CASE a \notin w .. w + 3 /\ \A b \in a .. a + n - 1 : b \notin w .. w + 3
  <2>1. g[w] = f[w] /\ g[w + 1] = f[w + 1] /\ g[w + 2] = f[w + 2] /\ g[w + 3] = f[w + 3]
    <3>1. w \in w .. w + 3 /\ w + 1 \in w .. w + 3 /\ w + 2 \in w .. w + 3 /\ w + 3 \in w .. w + 3
      BY <1>3
    <3> QED
      BY <1>2, <1>3, <1>10, <3>1
  <2> QED
    BY <1>4, <1>10, <2>1 DEF put
<1> QED
  BY <1>3, <1>6, <1>7, <1>8, <1>9, <1>10, Aligned

-----------------------------------------------------------------------------
(* Transactions. *)

\* The memory mm, the words cc and the sensor ss are, at p, what machine m has.
DevicesAre(p, m, mm, cc, ss) ==
  /\ mm \in [Memory -> Val(CHAR_BIT)] /\ cc \in [0 .. 2 -> 0 .. M - 1]
  /\ ss \in [lower : 0 .. M - 1, upper : 0 .. M - 1, nread : Nat]
  /\ \A b \in Memory : mm[b].at[p] = m.mem[b]
  /\ \A k \in 0 .. 2 : cc[k] = RefWord(m, CtrlStart + 4 * k, 4)
  /\ ss.lower = RefWord(m, SensorStart, 4) /\ ss.upper = RefWord(m, SensorStart + 4, 4)
  /\ ss.nread = m.nread

\* A point that shows a machine shows its memory and devices.
LEMMA MirrorsDevices ==
  ASSUME NEW p, NEW i, NEW m, Mirrors(p, i, m)
  PROVE  DevicesAre(p, m, mem, ctrl, sensor)
BY DEF Mirrors, StateOK, Looks, Common, DevicesAre

\* Of a machine, DevicesAre looks at memory and nread.
LEMMA DevicesOf ==
  ASSUME NEW p, NEW m, NEW z, z.mem = m.mem, z.nread = m.nread, NEW mm, NEW cc, NEW ss, DevicesAre(p, m, mm, cc, ss)
  PROVE  DevicesAre(p, z, mm, cc, ss)
BY WordIsOfMemory DEF DevicesAre

\* z differs from m at most in what a transaction changes.
SameCore(m, z) == z \in Machines /\ z.regs = m.regs /\ z.pc = m.pc /\ z.csr = m.csr

\* A machine with other registers, pc and status.
LEMMA AfterMirrors ==
  ASSUME NEW p, NEW i, NEW m, Mirrors(p, i, m), NEW z \in Machines,
         DevicesAre(p, z, mem', ctrl', sensor'),
         regs' \in [Regs -> Val(XLEN)], \A r \in Regs : (regs'[r]).at[p] = z.regs[r],
         pc' = z.pc, status' = z.status, mscratch' = mscratch, z.csr = m.csr, current' = current,
         traced' \subseteq traced, concretised' \subseteq concretised
  PROVE  Mirrors(p, i, z)'
<1>1. z.pc \in 0 .. M - 1 /\ z.status \in Statuses
  BY DEF Machines
<1>2. StateOK'
  BY <1>1 DEF Mirrors, StateOK, DevicesAre
<1>3. Common(z)'
  BY DEF Mirrors, Common, DevicesAre
<1>4. Looks(p, z)'
  BY DEF Looks, DevicesAre
<1>5. Shows(p, i)'
  BY DEF Mirrors, Shows
<1> QED
  BY <1>2, <1>3, <1>4, <1>5 DEF Mirrors

\* A transaction succeeded, and rd receives v.
LEMMA SucceedMirrors ==
  ASSUME NEW p, NEW i, NEW m, Mirrors(p, i, m), NEW z, SameCore(m, z),
         DevicesAre(p, z, mem', ctrl', sensor'), NEW rd \in Regs, NEW v, NEW x, Gives(v, p, x), regs' = Written(rd, v),
         pc' = NextPc, status' = z.status, mscratch' = mscratch, current' = current,
         traced' \subseteq traced, concretised' \subseteq concretised
  PROVE  Mirrors(p, i, RefSet(z, rd, x))'
<1> DEFINE y == RefSet(z, rd, x)
<1>1. z \in Machines /\ regs \in [Regs -> Val(XLEN)] /\ p \in Points /\ \A r \in Regs : regs[r].at[p] = z.regs[r]
  BY DEF SameCore, Mirrors, StateOK, Looks
<1>2. /\ Written(rd, v) \in [Regs -> Val(XLEN)]
      /\ \A r \in Regs : Written(rd, v)[r].at[p] = y.regs[r]
      /\ y.regs \in [Regs -> 0 .. M - 1] /\ y.regs[0] = 0
  BY <1>1, WrittenShows
<1>3. NextPc \in 0 .. M - 1 /\ y.pc = NextPc
  <2>1. pc + 4 \in Int /\ z.pc = pc
    BY DEF SameCore, Mirrors, StateOK, Common
  <2>2. y.pc = (z.pc + 4) % M
    BY <1>1 DEF RefSet, Machines
  <2> QED
    BY <2>1, <2>2, ModWord DEF NextPc, M
<1>4. y = [z EXCEPT !.regs = y.regs, !.pc = y.pc]
  BY <1>1 DEF RefSet, Machines
<1> HIDE DEF y
<1>5. y \in Machines /\ y.mem = z.mem /\ y.csr = m.csr /\ y.nread = z.nread /\ y.status = z.status
  BY <1>1, <1>2, <1>3, <1>4 DEF Machines, SameCore
<1>6. DevicesAre(p, y, mem', ctrl', sensor')
  BY <1>5, DevicesOf
<1> QED
  BY <1>2, <1>3, <1>5, <1>6, AfterMirrors DEF y

\* A transaction failed, and the trap handler is next.
LEMMA TrapMirrors ==
  ASSUME NEW p, NEW i, NEW m, Mirrors(p, i, m), NEW z, SameCore(m, z),
         DevicesAre(p, z, mem', ctrl', sensor'), regs' = regs,
         pc' = TrapVector, status' = z.status, mscratch' = mscratch, current' = current,
         traced' \subseteq traced, concretised' \subseteq concretised
  PROVE  Mirrors(p, i, RefTrap(z))'
<1> DEFINE y == RefTrap(z)
<1>1. y = [z EXCEPT !.pc = TrapVector] /\ z \in Machines
  BY DEF RefTrap, SameCore
<1> HIDE DEF y
<1>2. /\ y \in Machines /\ y.mem = z.mem /\ y.csr = m.csr /\ y.nread = z.nread /\ y.status = z.status /\ y.regs = m.regs
      /\ y.pc = TrapVector
  BY <1>1, Layout DEF Machines, SameCore
<1>3. DevicesAre(p, y, mem', ctrl', sensor')
  BY <1>2, DevicesOf
<1>4. regs' \in [Regs -> Val(XLEN)] /\ \A r \in Regs : (regs'[r]).at[p] = y.regs[r]
  BY <1>2 DEF Mirrors, StateOK, Looks
<1> QED
  BY <1>2, <1>3, <1>4, AfterMirrors DEF y

\* A transaction threw, and the simulation is over.
LEMMA AbortMirrors ==
  ASSUME NEW p, NEW i, NEW m, Mirrors(p, i, m), DevicesAre(p, m, mem', ctrl', sensor'), regs' = regs,
         pc' = pc, status' = "aborted", mscratch' = mscratch, current' = current,
         traced' \subseteq traced, concretised' \subseteq concretised
  PROVE  Mirrors(p, i, RefAbort(m))'
<1> DEFINE y == RefAbort(m)
<1>1. y = [m EXCEPT !.status = "aborted"] /\ m \in Machines
  BY DEF RefAbort, Mirrors
<1> HIDE DEF y
<1>2. /\ y \in Machines /\ y.mem = m.mem /\ y.csr = m.csr /\ y.nread = m.nread /\ y.status = "aborted" /\ y.regs = m.regs
      /\ y.pc = pc
  BY <1>1 DEF Machines, Statuses, Mirrors, Common
<1>3. DevicesAre(p, y, mem', ctrl', sensor')
  BY <1>2, DevicesOf
<1>4. regs' \in [Regs -> Val(XLEN)] /\ \A r \in Regs : (regs'[r]).at[p] = y.regs[r]
  BY <1>2 DEF Mirrors, StateOK, Looks
<1> QED
  BY <1>2, <1>3, <1>4, AfterMirrors DEF y

\* The bytes of memory that a load returns.
LEMMA LoadBytesIs ==
  ASSUME NEW p, NEW m \in Machines, p \in Points, DevicesAre(p, m, mem, ctrl, sensor), NEW a \in Nat, NEW n \in {1, 2, 4},
         a + n <= MemSize
  PROVE  LoadBytes(a, n) \in Val(n * CHAR_BIT) /\ LoadBytes(a, n).at[p] = RefWord(m, a, n)
<1> DEFINE f == m.mem
<1>1. f \in [Cells -> 0 .. Radix - 1] /\ mem \in [Memory -> Val(CHAR_BIT)] /\ \A b \in Memory : mem[b].at[p] = f[b]
  BY DEF Machines, DevicesAre
<1>2. \A b \in Memory : b \in Cells
  BY DEF Cells
<1>3. CASE n = 1
  <2>1. a \in Memory
    BY <1>3, Layout DEF Memory
  <2>2. LoadBytes(a, n) = mem[a] /\ n * CHAR_BIT = CHAR_BIT
    BY <1>3, WidthTypes DEF LoadBytes
  <2> QED
    BY <1>1, <1>2, <1>3, <2>1, <2>2, RefWordIs
<1>4. \A b \in Memory, c \in Memory :
        /\ concat(mem[b], mem[c]) \in Val(2 * CHAR_BIT)
        /\ concat(mem[b], mem[c]).at[p] = f[c] + Radix * f[b]
  <2> SUFFICES ASSUME NEW b \in Memory, NEW c \in Memory
               PROVE  /\ concat(mem[b], mem[c]) \in Val(2 * CHAR_BIT)
                      /\ concat(mem[b], mem[c]).at[p] = f[c] + Radix * f[b]
    OBVIOUS
  <2>1. CHAR_BIT + CHAR_BIT = 2 * CHAR_BIT
    BY WidthTypes
  <2>2. Made(concat(mem[b], mem[c]), 2 * CHAR_BIT, [q \in Points |-> mem[b].at[q] * 2 ^ CHAR_BIT + mem[c].at[q]])
    BY <1>1, <2>1, SomeWidths, ConcatMade
  <2>3. concat(mem[b], mem[c]).at[p] = (f[b] * Radix + f[c]) % 2 ^ (2 * CHAR_BIT)
    BY <1>1, <2>2 DEF Made, Radix
  <2>4. 2 ^ (2 * CHAR_BIT) = Radix * Radix /\ Radix \in Nat /\ Radix * Radix \in Nat \ {0}
    BY Units, Powers, WidthTypes, 2 * CHAR_BIT = CHAR_BIT * 2
  <2>5. f[c] + Radix * f[b] \in 0 .. Radix * Radix - 1 /\ f[b] * Radix + f[c] = f[c] + Radix * f[b]
    <3>1. f[b] \in 0 .. Radix - 1 /\ f[c] \in 0 .. Radix - 1
      BY <1>1, <1>2
    <3>2. f[c] + Radix * f[b] \in 0 .. Radix * Radix - 1
      BY <3>1, WordRange
    <3> QED
      BY <2>4, <3>1, <3>2
  <2>6. \A k \in Nat \ {0} : \A t \in 0 .. k - 1 : t % k = t
    OBVIOUS
  <2>7. (f[c] + Radix * f[b]) % (Radix * Radix) = f[c] + Radix * f[b]
    BY <2>4, <2>5, <2>6
  <2> QED
    BY <2>2, <2>3, <2>4, <2>5, <2>7 DEF Made
<1>5. CASE n = 2
  <2>1. a \in Memory /\ a + 1 \in Memory
    BY <1>5, Layout DEF Memory
  <2>2. LoadBytes(a, n) = concat(mem[a + 1], mem[a]) /\ n * CHAR_BIT = 2 * CHAR_BIT
    BY <1>5, WidthTypes DEF LoadBytes
  <2>3. RefWord(m, a, n) = f[a] + Radix * f[a + 1]
    BY <1>1, <1>2, <1>5, <2>1, RefWordIs
  <2> QED
    BY <1>4, <2>1, <2>2, <2>3
<1>6. CASE n = 4
  <2> DEFINE high == concat(mem[a + 3], mem[a + 2])
             low == concat(mem[a + 1], mem[a])
  <2>1. a \in Memory /\ a + 1 \in Memory /\ a + 2 \in Memory /\ a + 3 \in Memory
    BY <1>6, Layout DEF Memory
  <2>2. LoadBytes(a, n) = concat(high, low) /\ n * CHAR_BIT = XLEN
    BY <1>6, WidthTypes DEF LoadBytes
  <2>3. RefWord(m, a, n) = WordOf(f[a], f[a + 1], f[a + 2], f[a + 3])
    BY <1>1, <1>2, <1>6, <2>1, RefWordIs
  <2>4. /\ high \in Val(2 * CHAR_BIT) /\ high.at[p] = f[a + 2] + Radix * f[a + 3]
        /\ low \in Val(2 * CHAR_BIT) /\ low.at[p] = f[a] + Radix * f[a + 1]
    BY <1>4, <2>1
  <2> HIDE DEF high, low
  <2>5. 2 * CHAR_BIT + 2 * CHAR_BIT = XLEN
    BY WidthTypes
  <2>6. Made(concat(high, low), XLEN, [q \in Points |-> high.at[q] * 2 ^ (2 * CHAR_BIT) + low.at[q]])
    BY <2>4, <2>5, SomeWidths, ConcatMade
  <2>7. 2 ^ (2 * CHAR_BIT) = Radix * Radix /\ Radix \in Nat
    BY Units, Powers, WidthTypes, 2 * CHAR_BIT = CHAR_BIT * 2
  <2>8. concat(high, low).at[p] = ((f[a + 2] + Radix * f[a + 3]) * (Radix * Radix) + (f[a] + Radix * f[a + 1])) % M
    BY <2>4, <2>6, <2>7 DEF Made, M
  <2>9. f[a] \in 0 .. Radix - 1 /\ f[a + 1] \in 0 .. Radix - 1 /\ f[a + 2] \in 0 .. Radix - 1 /\ f[a + 3] \in 0 .. Radix - 1
    BY <1>1, <1>2, <2>1
  <2>10. WordOf(f[a], f[a + 1], f[a + 2], f[a + 3]) \in 0 .. M - 1
    BY <2>9, WordRange
  <2>11. \A b0, b1, b2, b3 \in 0 .. Radix - 1 :
            (b2 + Radix * b3) * (Radix * Radix) + (b0 + Radix * b1) = WordOf(b0, b1, b2, b3)
    BY <2>7 DEF WordOf
  <2> QED
    BY <2>2, <2>3, <2>6, <2>8, <2>9, <2>10, <2>11, SmallWord DEF Made
<1> QED
  BY <1>3, <1>5, <1>6


\* What an input gives.
LEMMA InputIs ==
  ASSUME NEW i \in Inputs
  PROVE  /\ Assignments[i].memory \in [0 .. MemSize - 1 -> [1 .. MemSize -> 0 .. Radix - 1]]
         /\ Assignments[i].sensor \in [1 .. MaxReads -> 0 .. M - 1]
         /\ i \in Points /\ i # 0
<1> DEFINE X == [memory : [0 .. MemSize - 1 -> [1 .. MemSize -> 0 .. 2 ^ CHAR_BIT - 1]],
                 sensor : [1 .. MaxReads -> 0 .. 2 ^ XLEN - 1]]
<1>a. Assignments \in Seq(X)
  BY InputsAssumption
<1>1. Assignments[i] \in X
  <2> HIDE DEF X
  <2> QED
    BY <1>a DEF Inputs
<1>2. i \in Points /\ i # 0
  BY InputsAssumption DEF Inputs, Points
<1> QED
  BY <1>1, <1>2 DEF Radix, M

\* The part of a word that an aligned access sees.
LEMMA WordPart ==
  ASSUME NEW m \in Machines, NEW w \in WordAddresses, NEW a \in Nat, NEW n \in {1, 2, 4}, a % n = 0, a \in w .. w + 3
  PROVE  (RefWord(m, w, 4) \div 2 ^ (CHAR_BIT * (a - w))) % 2 ^ (n * CHAR_BIT) = RefWord(m, a, n)
<1> DEFINE f == m.mem
           u == RefWord(m, w, 4)
<1>1. w \in Nat /\ w % 4 = 0 /\ w \in Cells /\ w + 1 \in Cells /\ w + 2 \in Cells /\ w + 3 \in Cells
  BY WordCells
<1>2. f \in [Cells -> 0 .. Radix - 1]
  BY DEF Machines
<1>3. u = WordOf(f[w], f[w + 1], f[w + 2], f[w + 3])
  BY <1>1, <1>2, RefWordIs
<1>4. f[w] \in 0 .. Radix - 1 /\ f[w + 1] \in 0 .. Radix - 1 /\ f[w + 2] \in 0 .. Radix - 1 /\ f[w + 3] \in 0 .. Radix - 1
  BY <1>1, <1>2
<1>5. /\ u % Radix = f[w] /\ (u \div Radix) % Radix = f[w + 1] /\ (u \div (Radix * Radix)) % Radix = f[w + 2]
      /\ (u \div (Radix * Radix * Radix)) % Radix = f[w + 3]
      /\ u % (Radix * Radix) = f[w] + Radix * f[w + 1]
      /\ (u \div (Radix * Radix)) % (Radix * Radix) = f[w + 2] + Radix * f[w + 3]
      /\ u % M = u
  BY <1>3, <1>4, PartOf
<1>6. u \div 1 = u
  BY <1>3, <1>4, Upper
<1>7. /\ 2 ^ (CHAR_BIT * 0) = 1 /\ 2 ^ (CHAR_BIT * 1) = Radix /\ 2 ^ (CHAR_BIT * 2) = Radix * Radix
      /\ 2 ^ (CHAR_BIT * 3) = Radix * Radix * Radix
      /\ 2 ^ (1 * CHAR_BIT) = Radix /\ 2 ^ (2 * CHAR_BIT) = Radix * Radix /\ 2 ^ (4 * CHAR_BIT) = M
  BY Units, WidthTypes, 1 * CHAR_BIT = CHAR_BIT, 2 * CHAR_BIT = CHAR_BIT * 2 DEF M, Radix
<1> HIDE DEF u, f
<1>8. CASE n = 1 /\ a = w
  <2>1. a - w = 0 /\ RefWord(m, a, n) = f[w]
    BY <1>1, <1>2, <1>8, RefWordIs DEF f
  <2> QED
    BY <1>5, <1>6, <1>7, <1>8, <2>1 DEF u
<1>9. CASE n = 1 /\ a = w + 1
  <2>1. a - w = 1 /\ RefWord(m, a, n) = f[w + 1]
    BY <1>1, <1>2, <1>9, RefWordIs DEF f
  <2> QED
    BY <1>5, <1>7, <1>9, <2>1 DEF u
<1>10. CASE n = 1 /\ a = w + 2
  <2>1. a - w = 2 /\ RefWord(m, a, n) = f[w + 2]
    BY <1>1, <1>2, <1>10, RefWordIs DEF f
  <2> QED
    BY <1>5, <1>7, <1>10, <2>1 DEF u
<1>11. CASE n = 1 /\ a = w + 3
  <2>1. a - w = 3 /\ RefWord(m, a, n) = f[w + 3]
    BY <1>1, <1>2, <1>11, RefWordIs DEF f
  <2> QED
    BY <1>5, <1>7, <1>11, <2>1 DEF u
<1>12. CASE n = 2 /\ a = w
  <2>1. a - w = 0 /\ RefWord(m, a, n) = f[w] + Radix * f[w + 1]
    BY <1>1, <1>2, <1>12, RefWordIs DEF f
  <2> QED
    BY <1>5, <1>6, <1>7, <1>12, <2>1 DEF u
<1>13. CASE n = 2 /\ a = w + 2
  <2>1. a - w = 2 /\ a + 1 = w + 3
    BY <1>1, <1>13
  <2>2. RefWord(m, a, n) = f[w + 2] + Radix * f[w + 3]
    BY <1>1, <1>2, <1>13, <2>1, RefWordIs DEF f
  <2> QED
    BY <1>5, <1>7, <1>13, <2>1, <2>2 DEF u
<1>14. CASE n = 4 /\ a = w
  <2>1. a - w = 0
    BY <1>1, <1>14
  <2> QED
    BY <1>5, <1>6, <1>7, <1>14, <2>1 DEF u
<1> QED
  BY <1>1, <1>8, <1>9, <1>10, <1>11, <1>12, <1>13, <1>14, Aligned

\* The remainder of what is not negative.
LEMMA RemainderIs ==
  ASSUME NEW x \in Nat, NEW y \in Nat \ {0}
  PROVE  Remainder(x, y) = x % y
<1>1. Quotient(x, y) = x \div y
  BY DEF Quotient, Abs
<1>2. PICK q \in Int : q = x \div y
  BY Division
<1>3. PICK r \in Int : r = x % y
  BY Division
<1>4. x = y * q + r
  BY <1>2, <1>3, Division
<1> QED
  BY <1>1, <1>2, <1>3, <1>4 DEF Remainder

\* The value that the sensor returns.
LEMMA SensorReadIs ==
  ASSUME NEW p, NEW i, NEW m, Mirrors(p, i, m), sensor.nread < MaxReads, sensor.upper > sensor.lower,
         NEW r, r = SensorRead(8, 4)
  PROVE  /\ r.result = "ok" /\ r.sensor = [sensor EXCEPT !.nread = @ + 1]
         /\ r.value \in Val(XLEN)
         /\ r.value.at[p] = sensor.lower + (Assignments[i].sensor[sensor.nread + 1] % (sensor.upper - sensor.lower))
<1> DEFINE span == sensor.upper - sensor.lower
           Name(j) == Assignments[j].sensor[sensor.nread + 1]
           sym == Symbolic(XLEN, Name)
           s == Assignments[i].sensor[sensor.nread + 1]
           rem == urem(sym, BVC(span))
           sval == add(rem, BVC(sensor.lower))
<1>1. /\ sensor.lower \in 0 .. M - 1 /\ sensor.upper \in 0 .. M - 1 /\ sensor.nread \in Nat /\ current \in Inputs
      /\ i \in Inputs /\ p \in Points /\ Shows(p, i)
  BY DEF Mirrors, StateOK
<1>2. span \in 1 .. M - 1 /\ span \in Int /\ sensor.lower \in Int
  BY <1>1, Powers
<1>3. sensor.nread + 1 \in 1 .. MaxReads
  BY <1>1, InputsAssumption
<1>4. \A j \in Inputs : Name(j) \in 0 .. M - 1
  BY <1>3, InputIs
<1>5. ASSUME NEW q \in Points PROVE (IF q = 0 THEN current ELSE q) \in Inputs
  BY <1>1, InputsAssumption DEF Points, Inputs
<1> DEFINE f == [q \in Points |-> Name(IF q = 0 THEN current ELSE q)]
<1>6. f \in [Points -> Int]
  <2>1. \A q \in Points : f[q] \in 0 .. M - 1
    BY <1>4, <1>5
  <2> QED
    BY <2>1, Powers
<1>7. sym = [width |-> XLEN, at |-> [q \in Points |-> f[q] % 2 ^ XLEN]]
  BY DEF Symbolic, Value
<1>8. f[p] = s /\ s \in 0 .. M - 1
  BY <1>1, <1>4, InputIs DEF Shows
<1>9. r.result = "ok" /\ r.sensor = [sensor EXCEPT !.nread = @ + 1] /\ r.value = sval
  BY <1>1, <1>2 DEF SensorRead
<1> HIDE DEF sym, f, s, span
<1>10. sym \in Val(XLEN) /\ sym.at[p] = s
  <2>1. Made(sym, XLEN, f)
    BY <1>6, <1>7, ValueMade, SomeWidths
  <2> QED
    BY <1>1, <1>8, <2>1, SmallWord DEF Made, M
<1>11. BVC(span) \in Val(XLEN) /\ BVC(span).at[p] = span
  <2>1. span % M = span
    BY <1>2, Powers
  <2> QED
    BY <1>1, <1>2, <2>1, WordConst
<1>12. rem \in Val(XLEN) /\ rem.at[p] = Remainder(s, span) % M
  <2>1. Made(rem, XLEN, [q \in Points |-> Remainder(sym.at[q], BVC(span).at[q])])
    BY <1>10, <1>11, SomeWidths, QuotientsMade
  <2> QED
    BY <1>1, <1>10, <1>11, <2>1 DEF Made, M
<1>13. Remainder(s, span) = s % span /\ s % span \in 0 .. span - 1
  <2>1. s \in Nat /\ s \in Int /\ span \in Nat \ {0}
    BY <1>2, <1>8, Powers
  <2>2. Remainder(s, span) = s % span
    BY <2>1, RemainderIs
  <2>3. s % span \in 0 .. span - 1
    BY <2>1, Division
  <2> QED
    BY <2>2, <2>3
<1>14. rem.at[p] = s % span
  <2>1. s % span \in 0 .. M - 1
    <3>1. PICK t \in 0 .. span - 1 : t = s % span
      BY <1>13
    <3> QED
      BY <1>2, <3>1, Powers
  <2> QED
    BY <1>12, <1>13, <2>1, SmallWord
<1> HIDE DEF rem
<1>15. BVC(sensor.lower) \in Val(XLEN) /\ BVC(sensor.lower).at[p] = sensor.lower
  BY <1>1, <1>2, WordConst, SmallWord
<1>16. sval \in Val(XLEN) /\ sval.at[p] = ((s % span) + sensor.lower) % M
  <2>1. Made(sval, XLEN, [q \in Points |-> rem.at[q] + BVC(sensor.lower).at[q]])
    BY <1>12, <1>15, SomeWidths, SumsMade
  <2> QED
    BY <1>1, <1>14, <1>15, <2>1 DEF Made, M
<1>17. (s % span) + sensor.lower \in 0 .. M - 1 /\ (s % span) + sensor.lower = sensor.lower + (s % span)
  <2>1. PICK t \in 0 .. span - 1 : t = s % span
    BY <1>13
  <2>2. PICK lo \in 0 .. M - 1 : lo = sensor.lower
    BY <1>1
  <2>3. PICK hi \in 0 .. M - 1 : hi = sensor.upper
    BY <1>1
  <2>4. span = hi - lo
    BY <2>2, <2>3 DEF span
  <2>5. t + lo \in 0 .. M - 1 /\ t + lo = lo + t
    BY <2>1, <2>4, Powers
  <2> QED
    BY <2>1, <2>2, <2>5
<1> QED
  BY <1>9, <1>16, <1>17, SmallWord DEF s, span

\* A read, against the reference: it throws where there is no register, fails where
\* the reference cannot read, and returns what the reference loads.
LEMMA ReadIs ==
  ASSUME NEW p, NEW i, NEW m, Mirrors(p, i, m), sensor.nread < MaxReads,
         NEW a \in 0 .. M - 1, NEW n \in {1, 2, 4}, a % n = 0, NEW r, r = Read(a, n)
  PROVE  \/ r.result = "throw" /\ r.sensor = sensor /\ RefAborts(a, n)
         \/ r.result = "fault" /\ r.sensor = sensor /\ ~ RefAborts(a, n) /\ ~ RefReadable(m, a, n)
         \/ /\ r.result = "ok" /\ ~ RefAborts(a, n) /\ RefReadable(m, a, n)
            /\ r.sensor = (IF a = SensorStart + 8 THEN [sensor EXCEPT !.nread = @ + 1] ELSE sensor)
            /\ r.value \in Val(n * CHAR_BIT) /\ r.value.at[p] = RefLoad(m, a, n, i)
<1>1. /\ m \in Machines /\ p \in Points /\ DevicesAre(p, m, mem, ctrl, sensor)
      /\ m.nread = sensor.nread /\ sensor.lower = RefWord(m, SensorStart, 4) /\ sensor.upper = RefWord(m, SensorStart + 4, 4)
  BY MirrorsDevices DEF Mirrors, Common
<1>2. a \in Nat /\ \A b \in a .. a + n - 1 : b \in Nat
  OBVIOUS
<1>3. CASE a < MemSize /\ a + n > MemSize
  <2>a. ~ InDevice(a, SensorStart) /\ ~ InDevice(a, CtrlStart)
    BY <1>2, <1>3, Layout DEF InDevice
  <2>1. r.result = "fault" /\ r.sensor = sensor
    BY <1>3, <2>a DEF Read
  <2>2. MemSize \in a .. a + n - 1 /\ MemSize \notin Memory \cup Control
    BY <1>2, <1>3, Layout DEF Memory, Control
  <2>3. a # SensorStart + 8 /\ a \notin Reserved
    BY <1>2, <1>3, Layout DEF Reserved
  <2> QED
    BY <2>1, <2>2, <2>3 DEF RefAborts, RefReadable
<1>4. CASE a < MemSize /\ a + n <= MemSize
  <2>a. ~ InDevice(a, SensorStart) /\ ~ InDevice(a, CtrlStart) /\ ~ (a + n > MemSize)
    BY <1>2, <1>4, Layout DEF InDevice
  <2>1. r.result = "ok" /\ r.sensor = sensor /\ r.value = LoadBytes(a, n)
    BY <1>4, <2>a DEF Read
  <2>2. a .. a + n - 1 \subseteq Memory \cup Control /\ a # SensorStart + 8 /\ a \notin Reserved
    BY <1>2, <1>4, Layout DEF Memory, Reserved
  <2>3. LoadBytes(a, n) \in Val(n * CHAR_BIT) /\ LoadBytes(a, n).at[p] = RefWord(m, a, n)
    BY <1>1, <1>2, <1>4, LoadBytesIs
  <2> QED
    BY <2>1, <2>2, <2>3 DEF RefAborts, RefReadable, RefLoad
<1>5. CASE InDevice(a, SensorStart)
  <2>1. r = SensorRead(a - SensorStart, n)
    BY <1>2, <1>5, Layout DEF Read, InDevice
  <2>2. a \notin Reserved /\ a \notin Memory \cup Control /\ a \in a .. a + n - 1 /\ a >= MemSize
    BY <1>2, <1>5, Layout DEF Reserved, Memory, Control, InDevice
  <2>3. (a - SensorStart = 8) <=> (a = SensorStart + 8)
    BY <1>2, Layout
  <2>4. sensor.lower \in Int /\ sensor.upper \in Int
    BY Powers DEF Mirrors, StateOK
  <2>5. CASE n # 4 \/ a # SensorStart + 8 \/ ~ (sensor.upper > sensor.lower)
    <3>1. r.result = "fault" /\ r.sensor = sensor
      BY <2>1, <2>3, <2>4, <2>5 DEF SensorRead
    <3> QED
      BY <1>1, <2>2, <2>5, <3>1 DEF RefAborts, RefReadable
  <2>6. CASE n = 4 /\ a = SensorStart + 8 /\ sensor.upper > sensor.lower
    <3>1. r = SensorRead(8, 4)
      BY <2>1, <2>3, <2>6
    <3>2. /\ r.result = "ok" /\ r.sensor = [sensor EXCEPT !.nread = @ + 1]
          /\ r.value \in Val(XLEN)
          /\ r.value.at[p] = sensor.lower + (Assignments[i].sensor[sensor.nread + 1] % (sensor.upper - sensor.lower))
      BY <2>6, <3>1, SensorReadIs
    <3>3. r.value.at[p] = RefLoad(m, a, n, i)
      BY <1>1, <2>6, <3>2 DEF RefLoad
    <3>4. RefReadable(m, a, n) /\ ~ RefAborts(a, n) /\ n * CHAR_BIT = XLEN
      BY <1>1, <2>2, <2>6, WidthTypes DEF RefReadable, RefAborts
    <3> QED
      BY <2>6, <3>2, <3>3, <3>4
  <2> QED
    BY <2>5, <2>6
<1>6. CASE InDevice(a, CtrlStart) /\ a - CtrlStart >= 12
  <2>1. r.result = "throw" /\ r.sensor = sensor
    BY <1>2, <1>6, Layout DEF Read, InDevice
  <2>2. a \in Reserved
    BY <1>2, <1>6, Layout DEF Reserved, InDevice
  <2> QED
    BY <2>1, <2>2 DEF RefAborts
<1>7. CASE InDevice(a, CtrlStart) /\ a - CtrlStart < 12
  <2> DEFINE k == (a - CtrlStart) \div 4
             o == (a - CtrlStart) % 4
             w == CtrlStart + 4 * k
  <2>1. a - CtrlStart \in 0 .. 11 /\ a >= MemSize
    BY <1>2, <1>7, Layout DEF InDevice
  <2>2. o \in 0 .. 3 /\ k \in 0 .. 2 /\ o = a - w /\ a \in w .. w + 3 /\ w \in WordAddresses
    <3>1. k \in 0 .. 2 /\ a - CtrlStart = 4 * k + o /\ o \in 0 .. 3
      BY <2>1
    <3>2. w \in WordAddresses
      BY <3>1, Layout DEF WordAddresses
    <3> HIDE DEF k, o
    <3> QED
      BY <1>2, <3>1, <3>2, Layout
  <2>3. r.result = "ok" /\ r.sensor = sensor /\ r.value = Const(n * CHAR_BIT, ctrl[k] \div 2 ^ (CHAR_BIT * o))
    BY <1>2, <1>7, <2>1, Layout DEF Read, InDevice
  <2> HIDE DEF k, o
  <2>4. a .. a + n - 1 \subseteq Memory \cup Control /\ a # SensorStart + 8 /\ a \notin Reserved
    <3>1. a .. a + n - 1 \subseteq Control
      <4>1. CASE n = 1
        BY <1>2, <2>1, <4>1, Layout DEF Control
      <4>2. CASE n = 2
        BY <1>2, <2>1, <4>2, Layout DEF Control
      <4>3. CASE n = 4
        BY <1>2, <2>1, <4>3, Layout DEF Control
      <4> QED
        BY <4>1, <4>2, <4>3
    <3> QED
      BY <1>2, <2>1, <3>1, Layout DEF Reserved
  <2>5. ctrl[k] = RefWord(m, w, 4) /\ ctrl[k] \in 0 .. M - 1
    BY <1>1, <2>2 DEF DevicesAre
  <2>6. (ctrl[k] \div 2 ^ (CHAR_BIT * (a - w))) % 2 ^ (n * CHAR_BIT) = RefWord(m, a, n)
    BY <1>1, <1>2, <2>2, <2>5, WordPart
  <2>7. n * CHAR_BIT \in Widths
    BY WidthTypes DEF Widths
  <2>8. ctrl[k] \div 2 ^ (CHAR_BIT * o) \in Int
    <3>1. CHAR_BIT * o \in 0 .. 2 * XLEN
      <4>1. o \in 0 .. 3
        BY <2>2, <1>2
      <4> QED
        BY <4>1, WidthTypes
    <3>2. 2 ^ (CHAR_BIT * o) \in Nat \ {0} /\ ctrl[k] \in Int
      BY <2>5, <3>1, PowerType, Powers
    <3> QED
      BY <3>2, Division
  <2>9. Made(r.value, n * CHAR_BIT, [q \in Points |-> ctrl[k] \div 2 ^ (CHAR_BIT * o)])
    BY <2>3, <2>7, <2>8, ConstMade
  <2>10. r.value \in Val(n * CHAR_BIT) /\ r.value.at[p] = RefWord(m, a, n)
    BY <1>1, <2>2, <2>6, <2>9 DEF Made
  <2> QED
    BY <2>3, <2>4, <2>10 DEF RefAborts, RefReadable, RefLoad
<1>8. CASE ~ (a < MemSize) /\ ~ InDevice(a, SensorStart) /\ ~ InDevice(a, CtrlStart)
  <2>1. r.result = "fault" /\ r.sensor = sensor
    BY <1>8 DEF Read
  <2>2. a \notin Reserved /\ a \notin Memory \cup Control /\ a \in a .. a + n - 1 /\ a # SensorStart + 8
    BY <1>2, <1>8, Layout DEF Reserved, Memory, Control, InDevice
  <2> QED
    BY <2>1, <2>2 DEF RefAborts, RefReadable
<1> QED
  <2>1. a < MemSize => (a + n > MemSize \/ a + n <= MemSize)
    BY <1>2, Layout
  <2>2. InDevice(a, CtrlStart) => (a - CtrlStart >= 12 \/ a - CtrlStart < 12)
    BY <1>2, Layout
  <2> QED
    BY <2>1, <2>2, <1>3, <1>4, <1>5, <1>6, <1>7, <1>8

-----------------------------------------------------------------------------
(* Writes. *)

\* A word of the reference machine is a word, and depends on its own bytes alone.
LEMMA WordType ==
  ASSUME NEW m \in Machines, NEW w \in WordAddresses
  PROVE  RefWord(m, w, 4) \in 0 .. M - 1
<1> DEFINE f == m.mem
<1>1. f \in [Cells -> 0 .. Radix - 1]
  BY DEF Machines
<1>2. w \in Nat /\ w \in Cells /\ w + 1 \in Cells /\ w + 2 \in Cells /\ w + 3 \in Cells
  BY WordCells
<1>3. RefWord(m, w, 4) = WordOf(f[w], f[w + 1], f[w + 2], f[w + 3])
  BY <1>1, <1>2, RefWordIs
<1> QED
  BY <1>1, <1>2, <1>3, WordRange

\* Equal bytes make equal words.
LEMMA SameBytes ==
  ASSUME NEW m \in Machines, NEW z \in Machines, NEW w \in WordAddresses, \A b \in w .. w + 3 : z.mem[b] = m.mem[b]
  PROVE  RefWord(z, w, 4) = RefWord(m, w, 4)
<1>1. m.mem \in [Cells -> 0 .. Radix - 1] /\ z.mem \in [Cells -> 0 .. Radix - 1]
  BY DEF Machines
<1>2. w \in Nat /\ w \in Cells /\ w + 1 \in Cells /\ w + 2 \in Cells /\ w + 3 \in Cells
  BY WordCells
<1>3. RefWord(m, w, 4) = WordOf(m.mem[w], m.mem[w + 1], m.mem[w + 2], m.mem[w + 3])
  BY <1>1, <1>2, RefWordIs
<1>4. RefWord(z, w, 4) = WordOf(z.mem[w], z.mem[w + 1], z.mem[w + 2], z.mem[w + 3])
  BY <1>1, <1>2, RefWordIs
<1>5. z.mem[w] = m.mem[w] /\ z.mem[w + 1] = m.mem[w + 1] /\ z.mem[w + 2] = m.mem[w + 2] /\ z.mem[w + 3] = m.mem[w + 3]
  BY <1>2
<1> QED
  BY <1>3, <1>4, <1>5

\* Zero bytes make a zero word.
LEMMA ZeroBytes ==
  ASSUME NEW z \in Machines, NEW w \in WordAddresses, \A b \in w .. w + 3 : z.mem[b] = 0
  PROVE  RefWord(z, w, 4) = 0
<1>1. z.mem \in [Cells -> 0 .. Radix - 1]
  BY DEF Machines
<1>2. w \in Nat /\ w \in Cells /\ w + 1 \in Cells /\ w + 2 \in Cells /\ w + 3 \in Cells
  BY WordCells
<1>4. RefWord(z, w, 4) = WordOf(z.mem[w], z.mem[w + 1], z.mem[w + 2], z.mem[w + 3])
  BY <1>1, <1>2, RefWordIs
<1>5. z.mem[w] = 0 /\ z.mem[w + 1] = 0 /\ z.mem[w + 2] = 0 /\ z.mem[w + 3] = 0
  BY <1>2
<1>6. WordOf(0, 0, 0, 0) = 0
  <2>1. Radix * 0 = 0
    BY Powers
  <2> QED
    BY <2>1 DEF WordOf
<1> QED
  BY <1>4, <1>5, <1>6

\* A store of the whole word.
LEMMA PatchedWhole ==
  ASSUME NEW m \in Machines, NEW w \in WordAddresses, NEW x \in 0 .. M - 1
  PROVE  Patched(RefWord(m, w, 4), 0, x, 4) = x
<1> DEFINE f == m.mem
<1>1. f \in [Cells -> 0 .. Radix - 1]
  BY DEF Machines
<1>2. w \in Nat /\ w \in Cells /\ w + 1 \in Cells /\ w + 2 \in Cells /\ w + 3 \in Cells
  BY WordCells
<1>3. RefWord(m, w, 4) = WordOf(f[w], f[w + 1], f[w + 2], f[w + 3])
  BY <1>1, <1>2, RefWordIs
<1>4. f[w] \in 0 .. Radix - 1 /\ f[w + 1] \in 0 .. Radix - 1 /\ f[w + 2] \in 0 .. Radix - 1 /\ f[w + 3] \in 0 .. Radix - 1
  BY <1>1, <1>2
<1>5. x \in Int
  BY Powers
<1>6. Patched(WordOf(f[w], f[w + 1], f[w + 2], f[w + 3]), 0, x, 4) = WordOf(Digit(x, 0), Digit(x, 1), Digit(x, 2), Digit(x, 3))
  <2>1. PICK b0 \in 0 .. Radix - 1, b1 \in 0 .. Radix - 1, b2 \in 0 .. Radix - 1, b3 \in 0 .. Radix - 1 :
          b0 = f[w] /\ b1 = f[w + 1] /\ b2 = f[w + 2] /\ b3 = f[w + 3]
    BY <1>4
  <2>2. Patched(WordOf(b0, b1, b2, b3), 0, x, 4) = WordOf(Digit(x, 0), Digit(x, 1), Digit(x, 2), Digit(x, 3))
    BY ONLY <1>5, PatchedIs, b0 \in 0 .. Radix - 1, b1 \in 0 .. Radix - 1, b2 \in 0 .. Radix - 1, b3 \in 0 .. Radix - 1
  <2> QED
    BY ONLY <2>1, <2>2
<1> QED
  BY <1>3, <1>5, <1>6, LowDigits, SmallWord

\* The two highest bits of the control word.
LEMMA HighBits ==
  ASSUME NEW u \in 0 .. M - 1
  PROVE  /\ Bit(u, XLEN - 1) = (IF u >= Half THEN 1 ELSE 0)
         /\ u < Half => Bit(u, XLEN - 2) = (IF u >= 2 ^ (XLEN - 2) THEN 1 ELSE 0)
<1>1. PICK h \in Nat \ {0} : h = 2 ^ (XLEN - 2)
  BY Powers
<1>2. Half = 2 * h /\ M = 4 * h /\ 2 ^ (XLEN - 1) = 2 * h
  BY <1>1, Powers DEF Half
<1>3. u \in Int /\ 0 <= u /\ u < 4 * h
  BY <1>2
<1>4. CASE u >= 2 * h
  <2>1. u \div (2 * h) = 1
    <3>1. u = (2 * h) * 1 + (u - 2 * h) /\ u - 2 * h \in 0 .. (2 * h) - 1 /\ 2 * h \in Nat \ {0}
      BY <1>3, <1>4
    <3> HIDE <1>1, <1>2
    <3> QED
      BY <1>3, <3>1, DivMod
  <2> QED
    BY <1>2, <1>3, <1>4, <2>1 DEF Bit
<1>5. CASE u < 2 * h
  <2>1. u \div (2 * h) = 0
    <3>1. u = (2 * h) * 0 + u /\ u \in 0 .. (2 * h) - 1 /\ 2 * h \in Nat \ {0}
      BY <1>3, <1>5
    <3> QED
      BY <1>3, <3>1, DivMod
  <2>2. u \div h = IF u >= h THEN 1 ELSE 0
    <3>1. CASE u >= h
      <4>1. u = h * 1 + (u - h) /\ u - h \in 0 .. h - 1
        BY <1>3, <1>5, <3>1
      <4> QED
        BY <1>3, <3>1, <4>1, DivMod
    <3>2. CASE u < h
      <4>1. u = h * 0 + u /\ u \in 0 .. h - 1
        BY <1>3, <1>5, <3>2
      <4> QED
        BY <1>3, <3>2, <4>1, DivMod
    <3> QED
      BY <1>3, <3>1, <3>2
  <2>3. Bit(u, XLEN - 1) = 0
    BY <1>2, <2>1 DEF Bit
  <2>4. Bit(u, XLEN - 2) = IF u >= h THEN 1 ELSE 0
    BY <1>1, <2>2 DEF Bit
  <2> QED
    BY <1>1, <1>2, <1>3, <1>5, <2>3, <2>4
<1> QED
  BY <1>3, <1>4, <1>5

\* A store leaves the rest of the machine alone.
LEMMA PutFields ==
  ASSUME NEW m \in Machines, NEW a, NEW v, NEW n, NEW z, z = RefPut(m, a, v, n)
  PROVE  z.regs = m.regs /\ z.pc = m.pc /\ z.csr = m.csr /\ z.nread = m.nread /\ z.status = m.status
BY DEF RefPut, Machines

\* The outcome of a write e of x at a, against the reference: z is the machine when
\* the devices have done their part.
Wrote(p, i, m, e, a, x, n, z) ==
  /\ SameCore(m, z) /\ z.nread = m.nread
  /\ DevicesAre(p, z, e.mem, e.ctrl, e.sensor)
  /\ \/ e.result = "throw" /\ z = m /\ \A rd, y : RefStore(m, a, x, n, i, rd, y) = RefAbort(m)
     \/ e.result = "fault" /\ e.status = z.status /\ \A rd, y : RefStore(m, a, x, n, i, rd, y) = RefTrap(z)
     \/ e.result = "ok" /\ e.status = z.status /\ \A rd, y : RefStore(m, a, x, n, i, rd, y) = RefSet(z, rd, y)

\* A write that fails at once.
LEMMA WriteFails ==
  ASSUME NEW p, NEW i, NEW m, Mirrors(p, i, m), NEW a, NEW x, NEW n, NEW e, e = [Same EXCEPT !.result = "fault"],
         ~ RefAborts(a, n), ~ RefWritable(a, n)
  PROVE  Wrote(p, i, m, e, a, x, n, m)
<1>1. m \in Machines /\ m.status = status /\ DevicesAre(p, m, mem, ctrl, sensor)
  BY MirrorsDevices DEF Mirrors, Common
<1>2. e.result = "fault" /\ e.mem = mem /\ e.ctrl = ctrl /\ e.sensor = sensor /\ e.status = status
  BY DEF Same
<1>3. \A rd, y : RefStore(m, a, x, n, i, rd, y) = RefTrap(m)
  BY DEF RefStore
<1> QED
  BY <1>1, <1>2, <1>3 DEF Wrote, SameCore

\* A store to memory.
LEMMA StoreIs ==
  ASSUME NEW p, NEW i, NEW m, Mirrors(p, i, m), NEW a \in Nat, NEW n \in {1, 2, 4}, a % n = 0, a + n <= MemSize,
         NEW v \in Val(XLEN), NEW x, x = v.at[p], NEW e, e = [Same EXCEPT !.mem = StoreBytes(a, v, n)]
  PROVE  Wrote(p, i, m, e, a, x, n, RefPut(m, a, x, n))
<1> DEFINE z == RefPut(m, a, x, n)
<1>1. m \in Machines /\ m.status = status /\ DevicesAre(p, m, mem, ctrl, sensor) /\ p \in Points /\ x \in Int
  BY MirrorsDevices, ValueParts, SomeWidths DEF Mirrors, Common
<1>2. e.result = "ok" /\ e.mem = StoreBytes(a, v, n) /\ e.ctrl = ctrl /\ e.sensor = sensor /\ e.status = status
  BY DEF Same
<1>3. z \in Machines
  BY <1>1, PutIs
<1>4. z.regs = m.regs /\ z.pc = m.pc /\ z.csr = m.csr /\ z.nread = m.nread /\ z.status = m.status
  BY <1>1, PutFields
<1>5. ASSUME NEW w \in WordAddresses PROVE RefWord(z, w, 4) = RefWord(m, w, 4)
  <2>1. a \notin w .. w + 3
    BY WordCells, Layout
  <2> QED
    BY <1>1, <2>1, PutWord
<1>6. ASSUME NEW b \in Memory
      PROVE  StoreBytes(a, v, n)[b] \in Val(CHAR_BIT) /\ StoreBytes(a, v, n)[b].at[p] = z.mem[b]
  <2>1. mem \in [Memory -> Val(CHAR_BIT)] /\ mem[b].at[p] = m.mem[b] /\ b \in Cells /\ b \in Int
    BY <1>1 DEF DevicesAre, Cells, Memory
  <2>2. z.mem[b] = IF b \in a .. a + n - 1 THEN Digit(x, b - a) ELSE m.mem[b]
    BY <1>1, <2>1, PutByte
  <2>3. StoreBytes(a, v, n)[b] = IF b \in a .. a + n - 1 THEN extract(v, (b - a) * CHAR_BIT, CHAR_BIT) ELSE mem[b]
    BY <2>1 DEF StoreBytes
  <2> HIDE DEF z
  <2>4. CASE b \in a .. a + n - 1
    <3>1. (b - a) * CHAR_BIT \in 0 .. 2 * XLEN /\ (b - a) * CHAR_BIT = CHAR_BIT * (b - a)
      <4>1. PICK j \in 0 .. 3 : j = b - a
        BY <2>1, <2>4
      <4> QED
        BY <4>1, WidthTypes
    <3>2. Made(extract(v, (b - a) * CHAR_BIT, CHAR_BIT), CHAR_BIT, [q \in Points |-> v.at[q] \div 2 ^ ((b - a) * CHAR_BIT)])
      BY <3>1, WidthsMade, SomeWidths
    <3> QED
      BY <1>1, <2>2, <2>3, <2>4, <3>1, <3>2 DEF Made, Digit, Radix
  <2>5. CASE b \notin a .. a + n - 1
    BY <2>1, <2>2, <2>3, <2>5
  <2> QED
    BY <2>4, <2>5
<1>7. StoreBytes(a, v, n) \in [Memory -> Val(CHAR_BIT)]
  <2>1. DOMAIN mem = Memory
    BY <1>1 DEF DevicesAre
  <2>2. StoreBytes(a, v, n) = [b \in Memory |-> StoreBytes(a, v, n)[b]]
    BY <2>1 DEF StoreBytes
  <2> QED
    BY <1>6, <2>2
<1> HIDE DEF z
<1>8. DevicesAre(p, z, e.mem, e.ctrl, e.sensor)
  <2>1. /\ CtrlStart \in WordAddresses /\ CtrlStart + 4 \in WordAddresses /\ CtrlStart + 8 \in WordAddresses
        /\ SensorStart \in WordAddresses /\ SensorStart + 4 \in WordAddresses
    BY DEF WordAddresses
  <2>2. \A k \in 0 .. 2 : CtrlStart + 4 * k \in WordAddresses
    BY <2>1, Layout
  <2> QED
    BY <1>1, <1>2, <1>4, <1>5, <1>6, <1>7, <2>1, <2>2 DEF DevicesAre
<1>9. ~ RefAborts(a, n) /\ RefWritable(a, n) /\ a \notin CtrlStart + 4 .. CtrlStart + 7 /\ a \notin CtrlStart + 8 .. CtrlStart + 11
  BY Layout DEF RefAborts, RefWritable, Reserved, Memory
<1>10. \A rd, y : RefStore(m, a, x, n, i, rd, y) = RefSet(z, rd, y)
  BY <1>9 DEF RefStore, z
<1> QED
  BY <1>1, <1>2, <1>3, <1>4, <1>8, <1>10 DEF Wrote, SameCore, z

\* A store to a word of a device, before the device acts on it.
LEMMA DevicePut ==
  ASSUME NEW p, NEW m \in Machines, DevicesAre(p, m, mem, ctrl, sensor), NEW w \in WordAddresses,
         NEW a \in Nat, NEW n \in {1, 2, 4}, a % n = 0, a \in w .. w + 3, NEW x \in Int, NEW z, z = RefPut(m, a, x, n)
  PROVE  /\ z \in Machines /\ SameCore(m, z) /\ z.nread = m.nread /\ z.status = m.status
         /\ \A b \in Memory : mem[b].at[p] = z.mem[b]
         /\ RefWord(z, w, 4) = Patched(RefWord(m, w, 4), a - w, x, n)
         /\ \A u \in WordAddresses \ {w} : RefWord(z, u, 4) = RefWord(m, u, 4)
<1>1. z \in Machines
  BY PutIs
<1>2. z.regs = m.regs /\ z.pc = m.pc /\ z.csr = m.csr /\ z.nread = m.nread /\ z.status = m.status
  BY PutFields
<1>3. a >= CtrlStart
  BY WordCells, Layout
<1>4. ASSUME NEW b \in Memory PROVE mem[b].at[p] = z.mem[b]
  <2>1. b \in Cells /\ b \notin a .. a + n - 1
    BY <1>3, Layout DEF Memory, Cells
  <2> QED
    BY <2>1, PutByte DEF DevicesAre
<1>5. ASSUME NEW u \in WordAddresses \ {w} PROVE RefWord(z, u, 4) = RefWord(m, u, 4)
  <2>1. a \notin u .. u + 3
    BY Layout, WordCells DEF WordAddresses
  <2> QED
    BY <2>1, PutWord
<1>6. RefWord(z, w, 4) = Patched(RefWord(m, w, 4), a - w, x, n)
  BY PutWord
<1> QED
  BY <1>1, <1>2, <1>4, <1>5, <1>6 DEF SameCore

\* The five words are different.
LEMMA WordsDiffer ==
  /\ CtrlStart \in WordAddresses /\ CtrlStart + 4 \in WordAddresses /\ CtrlStart + 8 \in WordAddresses
  /\ SensorStart \in WordAddresses /\ SensorStart + 4 \in WordAddresses
  /\ CtrlStart # CtrlStart + 4 /\ CtrlStart # CtrlStart + 8 /\ CtrlStart + 4 # CtrlStart + 8
  /\ SensorStart # SensorStart + 4
  /\ \A k \in 0 .. 2 : /\ CtrlStart + 4 * k \in WordAddresses
                       /\ CtrlStart + 4 * k # SensorStart /\ CtrlStart + 4 * k # SensorStart + 4
                       /\ \A j \in 0 .. 2 : j # k => CtrlStart + 4 * j # CtrlStart + 4 * k
BY Layout DEF WordAddresses

\* A write to the sensor.
LEMMA SensorWriteIs ==
  ASSUME NEW p, NEW i, NEW m, Mirrors(p, i, m), NEW a \in Nat, NEW n \in {1, 2, 4}, a % n = 0, InDevice(a, SensorStart),
         NEW v \in Val(XLEN), NEW x, x = v.at[p], NEW e, e = SensorWrite(a - SensorStart, v, n), p = 0 \/ p \in e.agreeing
  PROVE  \E z : Wrote(p, i, m, e, a, x, n, z)
<1>1. m \in Machines /\ m.status = status /\ DevicesAre(p, m, mem, ctrl, sensor) /\ p \in Points /\ x \in 0 .. M - 1
  BY MirrorsDevices, ValueParts, SomeWidths DEF Mirrors, Common, M
<1>2. a \notin Reserved /\ a \notin Memory \cup Control /\ a \in a .. a + n - 1
  BY Layout DEF Reserved, Memory, Control, InDevice
<1>3. a \notin CtrlStart + 4 .. CtrlStart + 7 /\ a \notin CtrlStart + 8 .. CtrlStart + 11
  BY Layout DEF InDevice
<1>4. ASSUME NEW w \in {SensorStart, SensorStart + 4}, a = w, n = 4, concrete(v) = x,
             NEW s, s \in [lower : 0 .. M - 1, upper : 0 .. M - 1, nread : Nat], s.nread = sensor.nread,
             w = SensorStart => s.lower = x /\ s.upper = sensor.upper,
             w = SensorStart + 4 => s.upper = x /\ s.lower = sensor.lower,
             e.result = "ok", e.mem = mem, e.ctrl = ctrl, e.sensor = s, e.status = status
      PROVE  \E z : Wrote(p, i, m, e, a, x, n, z)
  <2> DEFINE z == RefPut(m, a, x, n)
  <2>1. w \in WordAddresses /\ a \in w .. w + 3 /\ a - w = 0 /\ x \in Int
    BY <1>1, <1>4, Layout, WordsDiffer, Powers
  <2>2. /\ z \in Machines /\ SameCore(m, z) /\ z.nread = m.nread /\ z.status = m.status
        /\ \A b \in Memory : mem[b].at[p] = z.mem[b]
        /\ RefWord(z, w, 4) = Patched(RefWord(m, w, 4), a - w, x, n)
        /\ \A u \in WordAddresses \ {w} : RefWord(z, u, 4) = RefWord(m, u, 4)
    BY <1>1, <2>1, DevicePut
  <2>3. RefWord(z, w, 4) = x
    BY <1>1, <1>4, <2>1, <2>2, PatchedWhole
  <2>4. ~ RefAborts(a, n) /\ RefWritable(a, n)
    BY <1>2, <1>4 DEF RefAborts, RefWritable
  <2>5. \A rd, y : RefStore(m, a, x, n, i, rd, y) = RefSet(z, rd, y)
    BY <1>3, <2>4 DEF RefStore
  <2> HIDE DEF z
  <2>6. \A k \in 0 .. 2 : ctrl[k] = RefWord(z, CtrlStart + 4 * k, 4)
    BY <1>1, <1>4, <2>2, WordsDiffer DEF DevicesAre
  <2>7. s.lower = RefWord(z, SensorStart, 4) /\ s.upper = RefWord(z, SensorStart + 4, 4)
    BY <1>1, <1>4, <2>2, <2>3, WordsDiffer DEF DevicesAre
  <2>8. DevicesAre(p, z, e.mem, e.ctrl, e.sensor)
    BY <1>1, <1>4, <2>2, <2>6, <2>7 DEF DevicesAre
  <2>9. Wrote(p, i, m, e, a, x, n, z)
    BY <1>1, <1>4, <2>2, <2>5, <2>8 DEF Wrote
  <2> QED
    BY <2>9
<1>5. sensor \in [lower : 0 .. M - 1, upper : 0 .. M - 1, nread : Nat]
  BY <1>1 DEF DevicesAre
<1>6. concrete(v) \in 0 .. M - 1 /\ (e.agreeing = Agreeing(v) => concrete(v) = x)
  BY ZeroReg, ValueParts, SomeWidths DEF concrete, Agreeing, M
<1>7. CASE n = 4 /\ a = SensorStart
  <2>1. e = [Same EXCEPT !.sensor.lower = concrete(v), !.agreeing = Agreeing(v)]
    BY <1>7, Layout DEF SensorWrite
  <2> DEFINE s == [sensor EXCEPT !.lower = concrete(v)]
  <2>2. /\ e.result = "ok" /\ e.mem = mem /\ e.ctrl = ctrl /\ e.sensor = s /\ e.status = status
        /\ e.agreeing = Agreeing(v)
    BY <2>1 DEF Same
  <2>3. s \in [lower : 0 .. M - 1, upper : 0 .. M - 1, nread : Nat] /\ s.nread = sensor.nread /\ s.upper = sensor.upper
        /\ s.lower = concrete(v)
    BY <1>5, <1>6
  <2>4. SensorStart # SensorStart + 4
    BY Layout
  <2> HIDE DEF s
  <2> QED
    BY <1>4, <1>6, <1>7, <2>2, <2>3, <2>4
<1>8. CASE n = 4 /\ a = SensorStart + 4
  <2>a. a - SensorStart = 4
    BY <1>8, Layout
  <2>1. e = [Same EXCEPT !.sensor.upper = concrete(v), !.agreeing = Agreeing(v)]
    BY <1>8, <2>a DEF SensorWrite
  <2> DEFINE s == [sensor EXCEPT !.upper = concrete(v)]
  <2>2. /\ e.result = "ok" /\ e.mem = mem /\ e.ctrl = ctrl /\ e.sensor = s /\ e.status = status
        /\ e.agreeing = Agreeing(v)
    BY <2>1 DEF Same
  <2>3. s \in [lower : 0 .. M - 1, upper : 0 .. M - 1, nread : Nat] /\ s.nread = sensor.nread /\ s.lower = sensor.lower
        /\ s.upper = concrete(v)
    BY <1>5, <1>6
  <2>4. SensorStart # SensorStart + 4
    BY Layout
  <2> HIDE DEF s
  <2> QED
    BY <1>4, <1>6, <1>8, <2>2, <2>3, <2>4
<1>9. CASE ~ (n = 4 /\ (a = SensorStart \/ a = SensorStart + 4))
  <2>1. ~ (n = 4 /\ a - SensorStart = 0) /\ ~ (n = 4 /\ a - SensorStart = 4)
    BY <1>9, Layout
  <2>2. e = [Same EXCEPT !.result = "fault"]
    BY <2>1 DEF SensorWrite
  <2>3. ~ RefAborts(a, n) /\ ~ RefWritable(a, n)
    BY <1>2, <1>9 DEF RefAborts, RefWritable
  <2> QED
    BY <2>2, <2>3, WriteFails
<1> QED
  BY <1>7, <1>8, <1>9

\* A write to a register of the control peripheral, before its callback.
LEMMA CtrlDevices ==
  ASSUME NEW p, NEW i, NEW m, Mirrors(p, i, m), NEW a \in Nat, NEW n \in {1, 2, 4}, a % n = 0,
         NEW k \in 0 .. 2, NEW w, w = CtrlStart + 4 * k, a \in w .. w + 3, NEW x \in Int,
         NEW word, word = Patched(ctrl[k], a - w, x, n), NEW z, z = RefPut(m, a, x, n),
         NEW c \in [0 .. 2 -> 0 .. M - 1], c[k] = word, \A j \in 0 .. 2 : j # k => c[j] = ctrl[j]
  PROVE  DevicesAre(p, z, mem, c, sensor)
<1>1. m \in Machines /\ m.status = status /\ DevicesAre(p, m, mem, ctrl, sensor) /\ p \in Points
  BY MirrorsDevices DEF Mirrors, Common
<1>2. k \in 0 .. 2 /\ a - CtrlStart \in 0 .. 11
  <2>1. k = 0 \/ k = 1 \/ k = 2
    OBVIOUS
  <2>2. CtrlStart \in Nat
    BY Layout
  <2> QED
    BY <2>1, <2>2
<1>3. w \in WordAddresses
  BY <1>2, Layout, WordsDiffer
<1>4. /\ z \in Machines /\ SameCore(m, z) /\ z.nread = m.nread /\ z.status = m.status
      /\ \A b \in Memory : mem[b].at[p] = z.mem[b]
      /\ RefWord(z, w, 4) = Patched(RefWord(m, w, 4), a - w, x, n)
      /\ \A u \in WordAddresses \ {w} : RefWord(z, u, 4) = RefWord(m, u, 4)
  BY <1>1, <1>3, DevicePut
<1>5. ctrl[k] = RefWord(m, w, 4)
  BY <1>1, <1>2 DEF DevicesAre
<1>6. word = RefWord(z, w, 4)
  BY <1>3, <1>4, <1>5
<1>7. ASSUME NEW j \in 0 .. 2 PROVE c[j] = RefWord(z, CtrlStart + 4 * j, 4)
  <2>1. CASE j = k
    BY <1>6, <2>1
  <2>2. CASE j # k
    BY <1>1, <1>2, <1>4, <2>2, WordsDiffer DEF DevicesAre
  <2> QED
    BY <2>1, <2>2
<1>8. sensor.lower = RefWord(z, SensorStart, 4) /\ sensor.upper = RefWord(z, SensorStart + 4, 4)
  BY <1>1, <1>2, <1>4, WordsDiffer DEF DevicesAre
<1> QED
  BY <1>1, <1>4, <1>7, <1>8 DEF DevicesAre

\* The byte that make_symbolic stores: the k-th of the name that starts at a.
Drawn(a, k) == LET Name(j) == Assignments[j].memory[a][k] IN Symbolic(CHAR_BIT, Name)

\* A byte of input has at every point what the input of that point gives.
LEMMA SymbolicIs ==
  ASSUME NEW p, NEW i, NEW m, Mirrors(p, i, m), NEW a \in 0 .. MemSize - 1, NEW k \in 1 .. MemSize, NEW b, b = Drawn(a, k)
  PROVE  b \in Val(CHAR_BIT) /\ b.at[p] = Assignments[i].memory[a][k] /\ Assignments[i].memory[a][k] \in 0 .. Radix - 1
<1> DEFINE Name(j) == Assignments[j].memory[a][k]
           f == [q \in Points |-> Name(IF q = 0 THEN current ELSE q)]
<1>1. current \in Inputs /\ i \in Inputs /\ p \in Points /\ Shows(p, i)
  BY DEF Mirrors, StateOK
<1>2. ASSUME NEW j \in Inputs PROVE Name(j) \in 0 .. Radix - 1
  <2>1. Assignments[j].memory \in [0 .. MemSize - 1 -> [1 .. MemSize -> 0 .. Radix - 1]]
    BY InputIs
  <2>2. Assignments[j].memory[a] \in [1 .. MemSize -> 0 .. Radix - 1]
    BY <2>1
  <2> QED
    BY <2>2
<1>3. ASSUME NEW q \in Points PROVE (IF q = 0 THEN current ELSE q) \in Inputs
  BY <1>1, InputsAssumption DEF Points, Inputs
<1>4. f \in [Points -> Int]
  <2>1. \A q \in Points : f[q] \in 0 .. Radix - 1
    BY <1>2, <1>3
  <2> QED
    BY <2>1, Powers
<1>5. b = [width |-> CHAR_BIT, at |-> [q \in Points |-> f[q] % 2 ^ CHAR_BIT]]
  BY DEF Drawn, Symbolic, Value
<1>6. f[p] = Name(i)
  BY <1>1, InputIs DEF Shows
<1>7. Name(i) \in 0 .. Radix - 1
  BY <1>1, <1>2
<1> HIDE DEF f, Name
<1>8. Made(b, CHAR_BIT, f)
  BY <1>4, <1>5, ValueMade, SomeWidths
<1>9. Name(i) % Radix = Name(i)
  BY <1>7, Powers
<1>10. b \in Val(CHAR_BIT) /\ b.at[p] = Name(i)
  BY <1>1, <1>6, <1>8, <1>9 DEF Made, Radix
<1> QED
  BY <1>7, <1>10 DEF Name

\* The size register: make_symbolic.
LEMMA MakeSymbolicIs ==
  ASSUME NEW p, NEW i, NEW m, Mirrors(p, i, m), NEW a \in Nat, NEW n \in {1, 2, 4}, a % n = 0,
         a \in CtrlStart + 4 .. CtrlStart + 7, NEW x \in Int,
         NEW z, z = RefPut(m, a, x, n), SameCore(m, z), z.nread = m.nread, z.status = status,
         NEW word, word = RefWord(z, CtrlStart + 4, 4), word \in 0 .. M - 1,
         NEW c, DevicesAre(p, z, mem, c, sensor), ctrl[0] = RefWord(z, CtrlStart, 4), ctrl[0] \in 0 .. M - 1,
         ~ RefAborts(a, n), RefWritable(a, n), NEW g,
         NEW e, e = make_symbolic([Same EXCEPT !.ctrl = c, !.agreeing = g], ctrl[0], word)
  PROVE  \E y : Wrote(p, i, m, e, a, x, n, y)
<1> DEFINE first == ctrl[0]
<1>1. m \in Machines /\ z \in Machines /\ first \in Nat /\ word \in Nat /\ z.mem \in [Cells -> 0 .. Radix - 1]
  BY Powers DEF Mirrors, SameCore, Machines
<1>2. CASE first + word > MemSize
  <2>1. e.result = "fault" /\ e.mem = mem /\ e.ctrl = c /\ e.sensor = sensor /\ e.status = status
    BY <1>2 DEF make_symbolic, Same
  <2>2. \A rd, y : RefStore(m, a, x, n, i, rd, y) = RefTrap(z)
    BY <1>2 DEF RefStore
  <2>3. Wrote(p, i, m, e, a, x, n, z)
    BY <2>1, <2>2 DEF Wrote
  <2> QED
    BY <2>3
<1>3. CASE first + word <= MemSize
  <2> DEFINE in(b) == b \in first .. first + word - 1
             mm == e.mem
             f == RefSymbolic(z, i)
             y == [z EXCEPT !.mem = f]
  <2>1. /\ e.result = "ok" /\ e.ctrl = c /\ e.sensor = sensor /\ e.status = status
        /\ mm = [b \in DOMAIN mem |-> IF in(b) THEN Drawn(first, b - first + 1) ELSE mem[b]]
    BY <1>1, <1>3, Layout DEF make_symbolic, Same, Drawn
  <2>2. f = [b \in Cells |-> IF in(b) THEN Assignments[i].memory[first][b - first + 1] ELSE z.mem[b]]
    BY <1>1 DEF RefSymbolic
  <2>3. mem \in [Memory -> Val(CHAR_BIT)] /\ DOMAIN mem = Memory /\ \A b \in Memory : mem[b].at[p] = z.mem[b]
    BY DEF DevicesAre
  <2>4. ASSUME NEW b, in(b)
        PROVE  first \in 0 .. MemSize - 1 /\ b - first + 1 \in 1 .. MemSize /\ b \in Memory
    BY <1>1, <1>3, <2>4, Layout DEF Memory
  <2>5. ASSUME NEW b, in(b)
        PROVE  /\ Drawn(first, b - first + 1) \in Val(CHAR_BIT) /\ Drawn(first, b - first + 1).at[p] = Assignments[i].memory[first][b - first + 1]
               /\ Assignments[i].memory[first][b - first + 1] \in 0 .. Radix - 1
    BY <2>4, <2>5, SymbolicIs
  <2>6. f \in [Cells -> 0 .. Radix - 1]
    BY <1>1, <2>2, <2>5
  <2>7. mm \in [Memory -> Val(CHAR_BIT)]
    BY <2>1, <2>3, <2>5
  <2>8. ASSUME NEW b \in Memory PROVE mm[b].at[p] = f[b]
    <3>1. b \in Cells
      BY DEF Cells
    <3>2. CASE in(b)
      BY <2>1, <2>2, <2>3, <2>5, <3>1, <3>2
    <3>3. CASE ~ in(b)
      BY <2>1, <2>2, <2>3, <3>1, <3>3
    <3> QED
      BY <3>2, <3>3
  <2>9. \A b \in Cells \ Memory : f[b] = z.mem[b]
    BY <2>2, <2>4
  <2> HIDE DEF f, mm
  <2>10. SameCore(m, y) /\ y.mem = f /\ y.nread = m.nread /\ y.status = z.status
    BY <1>1, <2>6 DEF SameCore, Machines
  <2>11. \A rd, v : RefStore(m, a, x, n, i, rd, v) = RefSet(y, rd, v)
    <3>1. \A rd, v : RefStore(m, a, x, n, i, rd, v) = [RefSet(z, rd, v) EXCEPT !.mem = f]
      BY <1>1, <1>3, Layout DEF RefStore, f
    <3>2. ASSUME NEW rd, NEW v PROVE [RefSet(z, rd, v) EXCEPT !.mem = f] = RefSet(y, rd, v)
      BY <1>1 DEF RefSet, Machines
    <3> QED
      BY <3>1, <3>2
  <2> HIDE DEF y
  <2>12. ASSUME NEW w \in WordAddresses PROVE RefWord(y, w, 4) = RefWord(z, w, 4)
    <3>1. \A b \in w .. w + 3 : b \in Cells \ Memory
      BY WordCells, Layout DEF Memory, Cells
    <3>2. \A b \in w .. w + 3 : y.mem[b] = z.mem[b]
      BY <2>9, <2>10, <3>1
    <3>3. y \in Machines
      BY <2>10 DEF SameCore
    <3> QED
      BY <1>1, <3>2, <3>3, SameBytes
  <2>13. DevicesAre(p, y, mm, c, sensor)
    BY <2>7, <2>8, <2>10, <2>12, WordsDiffer DEF DevicesAre
  <2>14. Wrote(p, i, m, e, a, x, n, y)
    BY <2>1, <2>10, <2>11, <2>13 DEF Wrote, mm
  <2> QED
    BY <2>14
<1> QED
  BY <1>1, <1>2, <1>3, Layout

\* The control register: the end of the execution.
EndOf(word, s) == CASE word >= 2 ^ (XLEN - 1) -> "error"
                    [] word \in 2 ^ (XLEN - 2) .. 2 ^ (XLEN - 1) - 1 -> "exited"
                    [] OTHER -> s

\* A write to the word ctrl of the control peripheral ends the simulation as the
\* flags of the reference say, and clears the word.
LEMMA CtrlEndIs ==
  ASSUME NEW p, NEW i, NEW m, Mirrors(p, i, m), NEW a \in Nat, NEW n \in {1, 2, 4}, a % n = 0,
         a \in CtrlStart + 8 .. CtrlStart + 11, NEW x \in Int,
         NEW z, z = RefPut(m, a, x, n), SameCore(m, z), z.nread = m.nread, z.status = status,
         NEW word, word = RefWord(z, CtrlStart + 8, 4), word \in 0 .. M - 1,
         NEW c, c \in [0 .. 2 -> 0 .. M - 1], DevicesAre(p, z, mem, c, sensor),
         ~ RefAborts(a, n), RefWritable(a, n),
         NEW d \in [0 .. 2 -> 0 .. M - 1], d[0] = c[0], d[1] = c[1], d[2] = 0,
         NEW e, e.result = "ok", e.mem = mem, e.ctrl = d, e.sensor = sensor,
         e.status = EndOf(word, status)
  PROVE  \E y : Wrote(p, i, m, e, a, x, n, y)
<1> DEFINE f == [b \in Cells |-> IF b \in CtrlStart + 8 .. CtrlStart + 11 THEN 0 ELSE z.mem[b]]
           s == e.status
           y == [z EXCEPT !.mem = f, !.status = s]
<1>1. m \in Machines /\ z \in Machines /\ z.mem \in [Cells -> 0 .. Radix - 1] /\ DOMAIN z.mem = Cells /\ word \in Int
  BY Powers DEF Mirrors, SameCore, Machines
<1>2. s = RefEnd(z) /\ s \in Statuses
  <2>1. /\ Bit(word, XLEN - 1) = (IF word >= Half THEN 1 ELSE 0)
        /\ word < Half => Bit(word, XLEN - 2) = (IF word >= 2 ^ (XLEN - 2) THEN 1 ELSE 0)
    BY HighBits
  <2>2. status \in Statuses
    BY DEF Mirrors, StateOK
  <2>3. PICK q \in Nat \ {0} : q = 2 ^ (XLEN - 2) /\ Half = 2 * q
    BY Powers
  <2>4. CASE word >= Half
    BY <2>1, <2>3, <2>4, <1>1 DEF RefEnd, Half, Statuses, EndOf
  <2>5. CASE word < Half /\ word >= q
    <3>1. s = "exited"
      BY <2>3, <2>5, <1>1 DEF Half, EndOf
    <3>2. Bit(word, XLEN - 1) = 0 /\ Bit(word, XLEN - 2) = 1
      BY <1>1, <2>1, <2>3, <2>5
    <3> QED
      BY <3>1, <3>2 DEF RefEnd, Statuses
  <2>6. CASE word < Half /\ word < q
    <3>1. s = status
      BY <2>3, <2>6, <1>1 DEF Half, EndOf
    <3>2. Bit(word, XLEN - 1) = 0 /\ Bit(word, XLEN - 2) = 0
      BY <1>1, <2>1, <2>3, <2>6
    <3> QED
      BY <2>2, <3>1, <3>2 DEF RefEnd
  <2> QED
    BY <1>1, <2>3, <2>4, <2>5, <2>6
<1> HIDE DEF s
<1>3. f \in [Cells -> 0 .. Radix - 1]
  BY <1>1, Powers
<1>4. \A rd, v : RefStore(m, a, x, n, i, rd, v) = RefSet(y, rd, v)
  <2>1. a \notin CtrlStart + 4 .. CtrlStart + 7
    BY Layout
  <2>2. ASSUME NEW rd, NEW v PROVE RefStore(m, a, x, n, i, rd, v) = RefSet(y, rd, v)
    <3> DEFINE t == RefSet(z, rd, v)
               u == [t EXCEPT !.mem = f, !.status = s]
    <3>1. RefStore(m, a, x, n, i, rd, v) =
            [t EXCEPT !.mem = [b \in DOMAIN @ |-> IF b \in CtrlStart + 8 .. CtrlStart + 11 THEN 0 ELSE @[b]],
                      !.status = RefEnd(z)]
      BY <2>1 DEF RefStore
    <3>2. t.mem = z.mem
      BY <1>1 DEF RefSet, Machines
    <3>3. RefStore(m, a, x, n, i, rd, v) = u
      <4> HIDE DEF t
      <4> QED
        BY <1>1, <1>2, <3>1, <3>2
    <3> HIDE DEF f
    <3>4. u = RefSet(y, rd, v)
      BY <1>1 DEF RefSet, Machines
    <3> HIDE DEF u, y
    <3> QED
      BY <3>3, <3>4
  <2> QED
    BY <2>2
<1>5. \A b \in Cells : b \notin CtrlStart + 8 .. CtrlStart + 11 => f[b] = z.mem[b]
  OBVIOUS
<1>6. \A b \in Cells : b \in CtrlStart + 8 .. CtrlStart + 11 => f[b] = 0
  OBVIOUS
<1> HIDE DEF f
<1>7. SameCore(z, y) /\ y.mem = f /\ y.status = s /\ y.nread = z.nread
  BY <1>1, <1>2, <1>3 DEF SameCore, Machines
<1> HIDE DEF y
<1>8. SameCore(m, y) /\ y \in Machines
  BY <1>7 DEF SameCore
<1>9. RefWord(y, CtrlStart + 8, 4) = 0
  <2>1. \A b \in CtrlStart + 8 .. (CtrlStart + 8) + 3 : y.mem[b] = 0
    BY <1>6, <1>7, Layout DEF Cells, Control
  <2> QED
    BY <1>8, <2>1, ZeroBytes, WordsDiffer
<1>10. ASSUME NEW w \in WordAddresses \ {CtrlStart + 8} PROVE RefWord(y, w, 4) = RefWord(z, w, 4)
  <2>1. \A b \in w .. w + 3 : b \in Cells /\ b \notin CtrlStart + 8 .. CtrlStart + 11
    BY Layout DEF WordAddresses, Cells, Control, Bounds
  <2>2. \A b \in w .. w + 3 : y.mem[b] = z.mem[b]
    BY <1>5, <1>7, <2>1
  <2> QED
    BY <1>1, <1>8, <2>2, SameBytes
<1>11. ASSUME NEW b \in Memory PROVE mem[b].at[p] = y.mem[b]
  <2>1. b \in Cells /\ b \notin CtrlStart + 8 .. CtrlStart + 11
    BY Layout DEF Memory, Cells
  <2> QED
    BY <1>5, <1>7, <2>1 DEF DevicesAre
<1>12. DevicesAre(p, y, mem, d, sensor)
  <2>2. ASSUME NEW k \in 0 .. 2 PROVE d[k] = RefWord(y, CtrlStart + 4 * k, 4)
    <3>1. CASE k = 2
      BY <1>9, <3>1
    <3>2. CASE k # 2
      <4>1. CtrlStart + 4 * k \in WordAddresses \ {CtrlStart + 8}
        <5>1. CASE k = 0
          <6>1. CtrlStart + 4 * k = CtrlStart
            BY <5>1, Layout
          <6> QED
            BY <6>1, WordsDiffer
        <5>2. CASE k = 1
          <6>1. CtrlStart + 4 * k = CtrlStart + 4
            BY <5>2, Layout
          <6> QED
            BY <6>1, WordsDiffer
        <5> QED
          BY <3>2, <5>1, <5>2
      <4>2. c[k] = RefWord(z, CtrlStart + 4 * k, 4) /\ d[k] = c[k]
        BY <3>2 DEF DevicesAre
      <4> QED
        BY <1>10, <4>1, <4>2
    <3> QED
      BY <3>1, <3>2
  <2>3. sensor.lower = RefWord(y, SensorStart, 4) /\ sensor.upper = RefWord(y, SensorStart + 4, 4)
    <3>1. SensorStart \in WordAddresses \ {CtrlStart + 8} /\ SensorStart + 4 \in WordAddresses \ {CtrlStart + 8}
      BY Layout, WordsDiffer
    <3> QED
      BY <1>10, <3>1 DEF DevicesAre
  <2> QED
    BY <1>7, <1>11, <2>2, <2>3 DEF DevicesAre
<1>13. Wrote(p, i, m, e, a, x, n, y)
  BY <1>4, <1>7, <1>8, <1>12 DEF Wrote, s
<1> QED
  BY <1>13

\* A write to the control peripheral.
LEMMA CtrlWriteIs ==
  ASSUME NEW p, NEW i, NEW m, Mirrors(p, i, m), NEW a \in Nat, NEW n \in {1, 2, 4}, a % n = 0, InDevice(a, CtrlStart),
         NEW v \in Val(XLEN), NEW x, x = v.at[p], NEW e, e = CtrlWrite(a - CtrlStart, v, n), p = 0 \/ p \in e.agreeing
  PROVE  \E z : Wrote(p, i, m, e, a, x, n, z)
<1> DEFINE off == a - CtrlStart
           k == off \div 4
           o == off % 4
           w == CtrlStart + 4 * k
           word == Patched(ctrl[k], o, concrete(v), n)
           z == RefPut(m, a, x, n)
           c == [ctrl EXCEPT ![k] = word]
           e0 == [Same EXCEPT !.ctrl = c, !.agreeing = Agreeing(v)]
           s == EndOf(word, status)
<1>1. m \in Machines /\ m.status = status /\ DevicesAre(p, m, mem, ctrl, sensor) /\ p \in Points /\ x \in 0 .. M - 1
  BY MirrorsDevices, ValueParts, SomeWidths DEF Mirrors, Common, M
<1>2. x \in Int /\ off \in Int /\ 0 <= off
  BY <1>1, Layout, Powers DEF InDevice
<1>3. CASE off >= 12
  <2>1. e = [Same EXCEPT !.result = "throw"]
    <3>1. k >= 3
      BY <1>2, <1>3
    <3> QED
      BY <1>3, <3>1 DEF CtrlWrite
  <2>2. e.result = "throw" /\ e.mem = mem /\ e.ctrl = ctrl /\ e.sensor = sensor
    BY <2>1 DEF Same
  <2>3. RefAborts(a, n)
    BY <1>3, Layout DEF RefAborts, Reserved, InDevice
  <2>4. \A rd, y : RefStore(m, a, x, n, i, rd, y) = RefAbort(m)
    BY <2>3 DEF RefStore
  <2>5. Wrote(p, i, m, e, a, x, n, m)
    BY <1>1, <2>2, <2>4 DEF Wrote, SameCore
  <2> QED
    BY <2>5
<1>4. CASE off < 12
  <2>1. off \in 0 .. 11 /\ k \in 0 .. 2 /\ o \in 0 .. 3 /\ off = 4 * k + o
    <3>1. PICK t \in 0 .. 11 : t = off
      BY <1>2, <1>4
    <3>2. t \div 4 \in 0 .. 2 /\ t % 4 \in 0 .. 3 /\ t = 4 * (t \div 4) + (t % 4)
      OBVIOUS
    <3> QED
      BY <3>1, <3>2
  <2>0. ~ (off >= 12)
    BY <2>1
  <2>a. a = CtrlStart + 4 * k + o /\ a \in w .. w + 3 /\ a - w = o
    <3> HIDE DEF k, o
    <3> QED
      BY <2>1, Layout
  <2>2. e0 = [Same EXCEPT !.ctrl[k] = word, !.agreeing = Agreeing(v)]
    BY DEF Same
  <2>3. /\ k = 0 => e = e0
        /\ k = 1 => e = make_symbolic(e0, ctrl[0], word)
        /\ k = 2 => e = [e0 EXCEPT !.ctrl[2] = 0, !.status = s]
    <3> DEFINE e1 == [Same EXCEPT !.ctrl[k] = word, !.agreeing = Agreeing(v)]
    <3>1. e1.status = status
      BY DEF Same
    <3>2. e = CASE off >= 12 -> [Same EXCEPT !.result = "throw"]
                [] k = 0 -> e1
                [] k = 1 -> make_symbolic(e1, ctrl[0], word)
                [] k = 2 -> [e1 EXCEPT !.ctrl[2] = 0, !.status = EndOf(word, @)]
      BY DEF CtrlWrite, EndOf
    <3> HIDE DEF e1, word, k, e0
    <3>3. e0 = e1
      BY <2>2 DEF e1
    <3> QED
      BY <2>0, <3>1, <3>2, <3>3
  <2>4. e0.agreeing = Agreeing(v) /\ e0.result = "ok" /\ e0.mem = mem /\ e0.ctrl = c /\ e0.sensor = sensor /\ e0.status = status
    BY DEF Same
  <2>5. concrete(v) = x
    <3> HIDE DEF e0
    <3>1. e.agreeing = Agreeing(v)
      <4>1. CASE k = 0
        BY <2>3, <2>4, <4>1
      <4>2. CASE k = 1
        BY <2>3, <2>4, <4>2 DEF make_symbolic, e0, Same
      <4>3. CASE k = 2
        BY <2>3, <2>4, <4>3 DEF e0, Same
      <4> QED
        BY <2>1, <4>1, <4>2, <4>3
    <3> QED
      BY <3>1 DEF Agreeing, concrete
  <2>6. /\ SameCore(m, z) /\ z.nread = m.nread /\ z.status = status
        /\ word = RefWord(z, w, 4) /\ word \in 0 .. M - 1
        /\ ~ RefAborts(a, n) /\ RefWritable(a, n)
    <3> HIDE DEF z, k, word, o
    <3>1. word = Patched(ctrl[k], a - w, x, n) /\ z = RefPut(m, a, x, n)
      BY <2>5, <2>a DEF word, z
    <3>2. k \in 0 .. 2 /\ a \in w .. w + 3 /\ w = CtrlStart + 4 * k
      BY <2>1, <2>a
    <3>3. w \in WordAddresses /\ ctrl[k] = RefWord(m, w, 4)
      BY <1>1, <3>2, WordsDiffer DEF DevicesAre
    <3> HIDE DEF off, c, w
    <3>4. /\ z \in Machines /\ SameCore(m, z) /\ z.nread = m.nread /\ z.status = m.status
          /\ RefWord(z, w, 4) = Patched(RefWord(m, w, 4), a - w, x, n)
      BY <1>1, <1>2, <3>1, <3>2, <3>3, DevicePut
    <3>5. word = RefWord(z, w, 4) /\ word \in 0 .. M - 1
      BY <3>1, <3>3, <3>4, WordType
    <3>6. a - CtrlStart \in 0 .. 11
      BY <2>1 DEF off
    <3>7. a .. a + n - 1 \subseteq Control
      <4>1. CASE n = 1
        BY <3>6, <4>1, Layout DEF Control
      <4>2. CASE n = 2
        BY <3>6, <4>2, Layout DEF Control
      <4>3. CASE n = 4
        BY <3>6, <4>3, Layout DEF Control
      <4> QED
        BY <4>1, <4>2, <4>3
    <3>8. a \notin Reserved
      BY <3>6, Layout DEF Reserved
    <3>9. ~ RefAborts(a, n) /\ RefWritable(a, n)
      BY <3>7, <3>8 DEF RefAborts, RefWritable
    <3> QED
      BY <1>1, <3>4, <3>5, <3>9
  <2>7. DevicesAre(p, z, mem, c, sensor)
    <3> HIDE DEF k, word, z, o
    <3>1. word = Patched(ctrl[k], a - w, x, n) /\ z = RefPut(m, a, x, n)
      BY <2>5, <2>a DEF word, z
    <3>2. k \in 0 .. 2 /\ a \in w .. w + 3 /\ w = CtrlStart + 4 * k
      BY <2>1, <2>a
    <3>3. c \in [0 .. 2 -> 0 .. M - 1] /\ c[k] = word /\ \A j \in 0 .. 2 : j # k => c[j] = ctrl[j]
      BY <1>1, <2>6, <3>2 DEF DevicesAre
    <3> HIDE DEF off, c, w
    <3> QED
      BY <1>2, <3>1, <3>2, <3>3, CtrlDevices
  <2> HIDE DEF k, word, c, e0, s
  <2>8. CASE k = 0
    <3>1. a \notin CtrlStart + 4 .. CtrlStart + 7 /\ a \notin CtrlStart + 8 .. CtrlStart + 11
      <4> HIDE DEF o, z, off
      <4>1. PICK j \in 0 .. 3 : j = o
        BY <2>1
      <4>2. CtrlStart \in Nat /\ a = CtrlStart + 4 * 0 + j
        BY ONLY <2>8, <2>a, <4>1, Layout
      <4>3. a = CtrlStart + j
        BY ONLY <4>2, j \in 0 .. 3
      <4> QED
        BY ONLY <4>2, <4>3, j \in 0 .. 3
    <3>2. \A rd, y : RefStore(m, a, x, n, i, rd, y) = RefSet(z, rd, y)
      BY <2>6, <3>1 DEF RefStore
    <3> HIDE DEF z
    <3>3. Wrote(p, i, m, e, a, x, n, z)
      BY <2>3, <2>4, <2>6, <2>7, <2>8, <3>2 DEF Wrote
    <3> QED
      BY <3>3
  <2>9. CASE k = 1
    <3>1. w = CtrlStart + 4 /\ w + 3 = CtrlStart + 7
      BY <2>9, Layout
    <3>2. ctrl[0] \in 0 .. M - 1 /\ ctrl[0] = RefWord(z, CtrlStart, 4)
      <4>1. c[0] = RefWord(z, CtrlStart + 4 * 0, 4) /\ c \in [0 .. 2 -> 0 .. M - 1]
        BY <2>7 DEF DevicesAre
      <4>2. c[0] = ctrl[0] /\ ctrl[0] \in 0 .. M - 1
        BY <1>1, <2>9 DEF DevicesAre, c
      <4> QED
        BY <4>1, <4>2, Layout
    <3>3. e = make_symbolic([Same EXCEPT !.ctrl = c, !.agreeing = Agreeing(v)], ctrl[0], word)
      BY <2>3, <2>9 DEF e0
    <3> DEFINE g == Agreeing(v)
    <3> HIDE DEF z, g
    <3>4. z = RefPut(m, a, x, n)
      BY DEF z
    <3> QED
      BY <1>2, <2>6, <2>7, <2>a, <3>1, <3>2, <3>3, <3>4, MakeSymbolicIs DEF g
  <2>10. CASE k = 2
    <3>1. w = CtrlStart + 8 /\ w + 3 = CtrlStart + 11
      BY <2>10, Layout
    <3>2. /\ e.result = "ok" /\ e.mem = mem /\ e.ctrl = [c EXCEPT ![2] = 0] /\ e.sensor = sensor
          /\ e.status = EndOf(word, status)
      BY <2>3, <2>10 DEF e0, Same, s
    <3>3. c \in [0 .. 2 -> 0 .. M - 1]
      BY <2>7 DEF DevicesAre
    <3> HIDE DEF z
    <3>4. z = RefPut(m, a, x, n)
      BY DEF z
    <3>5. a \in CtrlStart + 8 .. CtrlStart + 11 /\ word = RefWord(z, CtrlStart + 8, 4)
      BY <2>6, <2>a, <3>1
    <3> DEFINE d == [c EXCEPT ![2] = 0]
    <3>6. d \in [0 .. 2 -> 0 .. M - 1] /\ d[2] = 0 /\ d[0] = c[0] /\ d[1] = c[1]
      BY <3>3, Powers
    <3>7. e.ctrl = d
      BY <3>2
    <3> HIDE DEF d
    <3> QED
      BY <1>2, <2>6, <2>7, <3>2, <3>3, <3>4, <3>5, <3>6, <3>7, CtrlEndIs
  <2> QED
    BY <2>1, <2>8, <2>9, <2>10
<1> QED
  BY <1>2, <1>3, <1>4

\* A write, against the reference.
LEMMA WriteIs ==
  ASSUME NEW p, NEW i, NEW m, Mirrors(p, i, m), NEW a \in 0 .. M - 1, NEW n \in {1, 2, 4}, a % n = 0,
         NEW v \in Val(XLEN), NEW x, x = v.at[p], NEW e, e = Write(a, v, n), p = 0 \/ p \in e.agreeing
  PROVE  \E z : Wrote(p, i, m, e, a, x, n, z)
<1>1. a \in Nat
  OBVIOUS
<1>2. CASE a < MemSize
  <2>1. ~ InDevice(a, SensorStart) /\ ~ InDevice(a, CtrlStart)
    BY <1>1, <1>2, Layout DEF InDevice
  <2>2. CASE a + n > MemSize
    <3>1. e = [Same EXCEPT !.result = "fault"]
      BY <1>2, <2>1, <2>2 DEF Write
    <3>2. MemSize \in a .. a + n - 1 /\ MemSize \notin Memory \cup Control
      BY <1>1, <1>2, <2>2, Layout DEF Memory, Control
    <3>3. a # SensorStart /\ a # SensorStart + 4 /\ a \notin Reserved
      BY <1>1, <1>2, Layout DEF Reserved
    <3>4. ~ RefAborts(a, n) /\ ~ RefWritable(a, n)
      BY <3>2, <3>3 DEF RefAborts, RefWritable
    <3> QED
      BY <3>1, <3>4, WriteFails
  <2>3. CASE ~ (a + n > MemSize)
    <3>1. e = [Same EXCEPT !.mem = StoreBytes(a, v, n)]
      BY <1>2, <2>1, <2>3 DEF Write
    <3>2. a + n <= MemSize
      BY <1>1, <2>3, Layout
    <3> QED
      BY <1>1, <3>1, <3>2, StoreIs
  <2> QED
    BY <2>2, <2>3
<1>3. CASE InDevice(a, SensorStart)
  <2>1. ~ (a < MemSize) /\ ~ InDevice(a, CtrlStart)
    BY <1>1, <1>3, Layout DEF InDevice
  <2>2. e = SensorWrite(a - SensorStart, v, n)
    BY <1>3, <2>1 DEF Write
  <2> QED
    BY <1>1, <1>3, <2>2, SensorWriteIs
<1>4. CASE InDevice(a, CtrlStart)
  <2>1. ~ (a < MemSize) /\ ~ InDevice(a, SensorStart)
    BY <1>1, <1>4, Layout DEF InDevice
  <2>2. e = CtrlWrite(a - CtrlStart, v, n)
    BY <1>4, <2>1 DEF Write
  <2> QED
    BY <1>1, <1>4, <2>2, CtrlWriteIs
<1>5. CASE ~ (a < MemSize) /\ ~ InDevice(a, SensorStart) /\ ~ InDevice(a, CtrlStart)
  <2>1. e = [Same EXCEPT !.result = "fault"]
    BY <1>5 DEF Write
  <2>2. a \notin Reserved /\ a \notin Memory \cup Control /\ a \in a .. a + n - 1 /\ a # SensorStart /\ a # SensorStart + 4
    BY <1>1, <1>5, Layout DEF Reserved, Memory, Control, InDevice
  <2>3. ~ RefAborts(a, n) /\ ~ RefWritable(a, n)
    BY <2>2 DEF RefAborts, RefWritable
  <2> QED
    BY <2>1, <2>3, WriteFails
<1> QED
  BY <1>2, <1>3, <1>4, <1>5

-----------------------------------------------------------------------------
(* Loads, stores and atomic operations. *)

\* The address of an access.
LEMMA AddressIs ==
  ASSUME NEW p, NEW i, NEW m, Mirrors(p, i, m), NEW r \in Regs, NEW imm \in Int, NEW addr, addr = add(regs[r], BVC(imm)),
         addr.at[p] = concrete(addr)
  PROVE  concrete(addr) = (m.regs[r] + imm) % M /\ concrete(addr) \in 0 .. M - 1
<1>1. regs[r] \in Val(XLEN) /\ regs[r].at[p] = m.regs[r] /\ m.regs[r] \in 0 .. M - 1 /\ p \in Points
  BY MirrorsRegs
<1>2. BVC(imm) \in Val(XLEN) /\ BVC(imm).at[p] = imm % M
  BY <1>1, WordConst
<1>3. Made(addr, XLEN, [q \in Points |-> regs[r].at[q] + BVC(imm).at[q]])
  BY <1>1, <1>2, SumsMade, SomeWidths
<1>4. addr.at[p] = (m.regs[r] + (imm % M)) % M
  BY <1>1, <1>2, <1>3 DEF Made, M
<1>5. PICK x \in 0 .. M - 1 : x = m.regs[r]
  BY <1>1
<1>6. M \in Nat \ {0} /\ x \in Int
  BY Powers
<1>7. PICK q \in Int : \E s \in 0 .. M - 1 : imm = M * q + s /\ imm % M = s
  BY <1>6, Quotients
<1>8. PICK s \in 0 .. M - 1 : imm = M * q + s /\ imm % M = s
  BY <1>7
<1>9. (x + s) % M = ((x + s) + M * q) % M /\ x + s \in Int /\ (x + s) + M * q = x + imm
  <2>1. x + s \in Int
    BY <1>6
  <2>2. (x + s) + M * q = x + imm
    BY <1>6, <1>8
  <2> QED
    BY <1>6, <2>1, <2>2, Shifted
<1>10. concrete(addr) = (x + s) % M
  BY <1>4, <1>5, <1>8
<1> QED
  BY <1>5, <1>9, <1>10, ModWord

\* The value of a load, extended.
LEMMA ExtendedGives ==
  ASSUME NEW op \in {"LB", "LH", "LW", "LBU", "LHU"}, NEW n, n = Width[op], NEW v \in Val(n * CHAR_BIT), NEW p \in Points
  PROVE  LET y == v.at[p]
         IN  Gives(Extended(op, v), p, IF op \in {"LB", "LH"} /\ y >= 2 ^ (n * CHAR_BIT - 1) THEN y - 2 ^ (n * CHAR_BIT) ELSE y)
<1> DEFINE w == n * CHAR_BIT
           y == v.at[p]
<1>1. n \in {1, 2, 4} /\ (op = "LW" <=> n = 4)
  BY DEF Width
<1>2. w \in Widths /\ (n = 4 => w = XLEN)
  BY <1>1, WidthTypes DEF Widths
<1> HIDE DEF w
<1>3. v.width = w /\ y \in 0 .. 2 ^ w - 1 /\ y \in Int /\ 2 ^ w \in Nat \ {0}
  BY <1>2, ValueParts DEF w
<1>4. 0 \in 0 .. 2 * XLEN /\ v \in Val(w)
  BY WidthTypes DEF w
<1>5. /\ Made(zext(v, XLEN), XLEN, [q \in Points |-> v.at[q]])
      /\ Made(sext(v, XLEN), XLEN, [q \in Points |-> ToInt(v.at[q], w)])
  BY <1>2, <1>4, WidthsMade, SomeWidths
<1>6. CASE op \in {"LBU", "LHU"}
  <2>1. Extended(op, v) = zext(v, XLEN)
    BY <1>6 DEF Extended
  <2>2. Gives(zext(v, XLEN), p, y)
    BY <1>3, <1>5, GivesWord
  <2> QED
    BY <1>6, <2>1, <2>2
<1>7. CASE op \notin {"LBU", "LHU"}
  <2>1. Extended(op, v) = sext(v, XLEN)
    BY <1>7 DEF Extended
  <2>2. ToInt(y, w) \in Int
    BY <1>2, <1>3, SignedType
  <2>3. Gives(sext(v, XLEN), p, ToInt(y, w))
    BY <1>5, <2>2, GivesWord
  <2>4. w - 1 \in 0 .. 2 * XLEN
    BY <1>2, WidthTypes DEF Widths
  <2>5. PICK h \in Nat \ {0} : h = 2 ^ (w - 1)
    BY <2>4, PowerType
  <2>6. ToInt(y, w) = IF y >= h THEN y - 2 ^ w ELSE y
    BY <1>3, <2>5 DEF ToInt
  <2>7. CASE op = "LW"
    <3>1. 2 ^ w = M /\ M \in Nat \ {0}
      BY <1>1, <1>2, <2>7, Powers DEF M
    <3>2. (y + M * (-1)) % M = y % M /\ y + M * (-1) = y - M
      BY <1>3, <3>1, Shifted
    <3>3. ToInt(y, w) % M = y % M
      BY <2>6, <3>1, <3>2
    <3>4. Gives(sext(v, XLEN), p, y)
      BY <1>3, <2>3, <3>3 DEF Gives
    <3> QED
      BY <2>1, <2>7, <3>4
  <2>8. CASE op # "LW"
    <3>1. op \in {"LB", "LH"}
      BY <1>7, <2>8
    <3> QED
      BY <2>1, <2>3, <2>5, <2>6, <3>1 DEF w
  <2> QED
    BY <2>7, <2>8
<1> QED
  BY <1>6, <1>7

\* What the sensor counts.
LEMMA SeenIs ==
  ASSUME NEW p, NEW i, NEW m, Mirrors(p, i, m), NEW a, NEW s,
         s = (IF a = SensorStart + 8 THEN [sensor EXCEPT !.nread = @ + 1] ELSE sensor)
  PROVE  /\ SameCore(m, RefSeen(m, a)) /\ RefSeen(m, a).status = status
         /\ DevicesAre(p, RefSeen(m, a), mem, ctrl, s)
<1>1. m \in Machines /\ m.status = status /\ DevicesAre(p, m, mem, ctrl, sensor) /\ m.nread = sensor.nread
  BY MirrorsDevices DEF Mirrors, Common
<1>2. CASE a # SensorStart + 8
  BY <1>1, <1>2 DEF RefSeen, SameCore
<1>3. CASE a = SensorStart + 8
  <2> DEFINE z == [m EXCEPT !.nread = @ + 1]
  <2>1. z \in Machines /\ z.regs = m.regs /\ z.pc = m.pc /\ z.csr = m.csr /\ z.mem = m.mem /\ z.status = m.status
        /\ z.nread = m.nread + 1
    BY <1>1 DEF Machines
  <2>2. RefSeen(m, a) = z
    BY <1>3 DEF RefSeen
  <2>3. sensor \in [lower : 0 .. M - 1, upper : 0 .. M - 1, nread : Nat]
    BY <1>1 DEF DevicesAre
  <2>4. /\ s \in [lower : 0 .. M - 1, upper : 0 .. M - 1, nread : Nat] /\ s.lower = sensor.lower /\ s.upper = sensor.upper
        /\ s.nread = sensor.nread + 1
    BY <1>3, <2>3
  <2> HIDE DEF z
  <2>5. \A w : RefWord(z, w, 4) = RefWord(m, w, 4)
    BY <2>1, WordIsOfMemory
  <2>6. DevicesAre(p, z, mem, ctrl, s)
    BY <1>1, <2>1, <2>4, <2>5 DEF DevicesAre
  <2> QED
    BY <1>1, <2>1, <2>2, <2>6 DEF SameCore
<1> QED
  BY <1>2, <1>3

\* The loads keep point and machine in step.
LEMMA LoadStep ==
  ASSUME NEW p, NEW i, NEW m, Mirrors(p, i, m), NEW ins \in Instructions, Load(ins), Followed(p), sensor.nread < MaxReads
  PROVE  Mirrors(p, i, RefStep(m, ins, i))'
<1> USE InstructionParts
<1>1. PICK addr : addr = add(regs[ins.rs1], BVC(ins.imm))
  OBVIOUS
<1>2. PICK n \in {1, 2, 4} : n = Width[ins.op]
  BY DEF Load, Width
<1>3. PICK r : r = Read(concrete(addr), n)
  OBVIOUS
<1>4. /\ ins.op \in {"LB", "LH", "LW", "LBU", "LHU"} /\ concretised' = concretised \cap Agreeing(addr)
      /\ IF concrete(addr) % n # 0 THEN Proceed("fault", status) /\ UNCHANGED <<regs, sensor>>
         ELSE /\ Proceed(r.result, status)
              /\ regs' = (IF r.result = "ok" THEN Written(ins.rd, Extended(ins.op, r.value)) ELSE regs)
              /\ sensor' = r.sensor
      /\ UNCHANGED <<mem, mscratch, ctrl, current, traced>>
  BY <1>1, <1>2, <1>3 DEF Load
<1>5. addr.at[p] = concrete(addr)
  BY <1>4, AgreeingAgrees
<1>6. PICK a \in 0 .. M - 1 : a = concrete(addr) /\ a = (m.regs[ins.rs1] + ins.imm) % M
  BY <1>1, <1>5, AddressIs
<1>7. m \in Machines /\ m.status = status /\ p \in Points /\ DevicesAre(p, m, mem, ctrl, sensor) /\ SameCore(m, m)
  BY MirrorsDevices DEF Mirrors, Common, SameCore
<1>8. RefStep(m, ins, i) = RefLoads(m, ins, i) /\ traced' \subseteq traced /\ concretised' \subseteq concretised
  BY <1>4, RefStepIs
<1>9. CASE a % n # 0
  <2>1. RefLoads(m, ins, i) = RefTrap(m)
    BY <1>2, <1>6, <1>9 DEF RefLoads, RefAborts, RefReadable
  <2>2. pc' = TrapVector /\ status' = status /\ regs' = regs /\ sensor' = sensor
    BY <1>4, <1>6, <1>9 DEF Proceed
  <2>3. DevicesAre(p, m, mem', ctrl', sensor')
    BY <1>4, <1>7, <2>2
  <2>4. Mirrors(p, i, RefTrap(m))'
    BY <1>4, <1>7, <1>8, <2>2, <2>3, TrapMirrors
  <2> QED
    BY <1>8, <2>1, <2>4
<1>10. CASE a % n = 0
  <2>1. /\ Proceed(r.result, status) /\ sensor' = r.sensor
        /\ regs' = (IF r.result = "ok" THEN Written(ins.rd, Extended(ins.op, r.value)) ELSE regs)
    BY <1>4, <1>6, <1>10
  <2>2. \/ r.result = "throw" /\ r.sensor = sensor /\ RefAborts(a, n)
        \/ r.result = "fault" /\ r.sensor = sensor /\ ~ RefAborts(a, n) /\ ~ RefReadable(m, a, n)
        \/ /\ r.result = "ok" /\ ~ RefAborts(a, n) /\ RefReadable(m, a, n)
           /\ r.sensor = (IF a = SensorStart + 8 THEN [sensor EXCEPT !.nread = @ + 1] ELSE sensor)
           /\ r.value \in Val(n * CHAR_BIT) /\ r.value.at[p] = RefLoad(m, a, n, i)
    BY <1>3, <1>6, <1>10, ReadIs
  <2>3. CASE r.result = "throw"
    <3>1. r.sensor = sensor /\ RefAborts(a, n)
      BY <2>2, <2>3
    <3>2. RefLoads(m, ins, i) = RefAbort(m)
      BY <1>2, <1>6, <3>1 DEF RefLoads
    <3>3. pc' = pc /\ status' = "aborted" /\ regs' = regs /\ sensor' = sensor
      BY <2>1, <2>3, <3>1 DEF Proceed
    <3>4. DevicesAre(p, m, mem', ctrl', sensor')
      BY <1>4, <1>7, <3>3
    <3>5. Mirrors(p, i, RefAbort(m))'
      BY <1>4, <1>8, <3>3, <3>4, AbortMirrors
    <3> QED
      BY <1>8, <3>2, <3>5
  <2>4. CASE r.result = "fault"
    <3>1. r.sensor = sensor /\ ~ RefAborts(a, n) /\ ~ RefReadable(m, a, n)
      BY <2>2, <2>4
    <3>2. RefLoads(m, ins, i) = RefTrap(m)
      BY <1>2, <1>6, <3>1 DEF RefLoads
    <3>3. pc' = TrapVector /\ status' = status /\ regs' = regs /\ sensor' = sensor
      BY <2>1, <2>4, <3>1 DEF Proceed
    <3>4. DevicesAre(p, m, mem', ctrl', sensor')
      BY <1>4, <1>7, <3>3
    <3>5. Mirrors(p, i, RefTrap(m))'
      BY <1>4, <1>7, <1>8, <3>3, <3>4, TrapMirrors
    <3> QED
      BY <1>8, <3>2, <3>5
  <2>5. CASE r.result = "ok"
    <3> DEFINE y == RefLoad(m, a, n, i)
               x == IF ins.op \in {"LB", "LH"} /\ y >= 2 ^ (n * CHAR_BIT - 1) THEN y - 2 ^ (n * CHAR_BIT) ELSE y
               z == RefSeen(m, a)
               v == Extended(ins.op, r.value)
    <3>1. /\ ~ RefAborts(a, n) /\ RefReadable(m, a, n) /\ r.value \in Val(n * CHAR_BIT) /\ r.value.at[p] = y
          /\ r.sensor = (IF a = SensorStart + 8 THEN [sensor EXCEPT !.nread = @ + 1] ELSE sensor)
      BY <2>2, <2>5
    <3>2. RefLoads(m, ins, i) = RefSet(z, ins.rd, x)
      BY <1>2, <1>6, <3>1 DEF RefLoads
    <3>3. pc' = NextPc /\ status' = status /\ regs' = Written(ins.rd, v) /\ sensor' = r.sensor
      BY <2>1, <2>5 DEF Proceed
    <3>4. Gives(v, p, x)
      BY <1>2, <1>4, <1>7, <3>1, ExtendedGives
    <3> HIDE DEF x, v, z
    <3>5. SameCore(m, z) /\ z.status = status /\ DevicesAre(p, z, mem, ctrl, r.sensor)
      BY <3>1, SeenIs DEF z
    <3>6. DevicesAre(p, z, mem', ctrl', sensor')
      BY <1>4, <3>3, <3>5
    <3>7. Mirrors(p, i, RefSet(z, ins.rd, x))'
      BY <1>4, <1>8, <3>3, <3>4, <3>5, <3>6, SucceedMirrors
    <3> QED
      BY <1>8, <3>2, <3>7
  <2> QED
    BY <2>2, <2>3, <2>4, <2>5
<1> QED
  BY <1>9, <1>10

\* A transaction succeeded that writes no register.
LEMMA NextMirrors ==
  ASSUME NEW p, NEW i, NEW m, Mirrors(p, i, m), NEW z, SameCore(m, z),
         DevicesAre(p, z, mem', ctrl', sensor'), regs' = regs,
         pc' = NextPc, status' = z.status, mscratch' = mscratch, current' = current,
         traced' \subseteq traced, concretised' \subseteq concretised
  PROVE  Mirrors(p, i, RefSet(z, 0, 0))'
<1> DEFINE y == RefSet(z, 0, 0)
<1>1. z \in Machines /\ 0 \in Regs
  BY ZeroReg DEF SameCore
<1>2. NextPc \in 0 .. M - 1 /\ NextPc = (z.pc + 4) % M
  <2>1. pc + 4 \in Int /\ z.pc = pc
    BY DEF SameCore, Mirrors, StateOK, Common
  <2> QED
    BY <2>1, ModWord DEF NextPc, M
<1>3. y.regs = z.regs /\ y.pc = NextPc /\ y.mem = z.mem /\ y.csr = z.csr /\ y.nread = z.nread /\ y.status = z.status
  <2>1. z.regs[0] = 0 /\ z.regs \in [Regs -> 0 .. M - 1]
    BY <1>1 DEF Machines
  <2>2. [z.regs EXCEPT ![0] = 0] = z.regs
    BY <1>1, <2>1
  <2>3. y = [z EXCEPT !.regs = [z.regs EXCEPT ![0] = 0], !.pc = (z.pc + 4) % M]
    BY <1>1 DEF RefSet, Machines
  <2>4. y = [z EXCEPT !.regs = z.regs, !.pc = NextPc]
    BY <1>2, <2>2, <2>3
  <2> HIDE DEF y
  <2> QED
    BY <1>1, <2>4 DEF Machines
<1>4. y = [z EXCEPT !.regs = y.regs, !.pc = y.pc]
  BY <1>1 DEF RefSet, Machines
<1> HIDE DEF y
<1>5. y \in Machines
  BY <1>1, <1>2, <1>3, <1>4 DEF Machines
<1>6. DevicesAre(p, y, mem', ctrl', sensor')
  BY <1>3, DevicesOf
<1>7. regs' \in [Regs -> Val(XLEN)] /\ \A r \in Regs : (regs'[r]).at[p] = y.regs[r]
  BY <1>3 DEF Mirrors, StateOK, Looks, SameCore
<1>8. y.csr = m.csr
  BY <1>3 DEF SameCore
<1> QED
  BY <1>3, <1>5, <1>6, <1>7, <1>8, AfterMirrors DEF y

\* The stores do.
LEMMA StoreStep ==
  ASSUME NEW p, NEW i, NEW m, Mirrors(p, i, m), NEW ins \in Instructions, Store(ins), Followed(p)
  PROVE  Mirrors(p, i, RefStep(m, ins, i))'
<1> USE InstructionParts
<1>1. PICK addr : addr = add(regs[ins.rs1], BVC(ins.imm))
  OBVIOUS
<1>2. PICK n \in {1, 2, 4} : n = Width[ins.op]
  BY DEF Store, Width
<1>3. PICK e : e = IF concrete(addr) % n # 0 THEN [Same EXCEPT !.result = "fault"]
                   ELSE Write(concrete(addr), regs[ins.rs2], n)
  OBVIOUS
<1>4. /\ ins.op \in {"SB", "SH", "SW"} /\ concretised' = concretised \cap Agreeing(addr) \cap e.agreeing
      /\ Proceed(e.result, e.status) /\ mem' = e.mem /\ ctrl' = e.ctrl /\ sensor' = e.sensor
      /\ UNCHANGED <<regs, mscratch, current, traced>>
  BY <1>1, <1>2, <1>3 DEF Store
<1>5. addr.at[p] = concrete(addr)
  BY <1>4, AgreeingAgrees
<1>6. PICK a \in 0 .. M - 1 : a = concrete(addr) /\ a = (m.regs[ins.rs1] + ins.imm) % M
  BY <1>1, <1>5, AddressIs
<1>7. regs[ins.rs2] \in Val(XLEN) /\ regs[ins.rs2].at[p] = m.regs[ins.rs2]
  BY MirrorsRegs
<1> DEFINE x == m.regs[ins.rs2]
<1>8. /\ RefStep(m, ins, i) = RefStore(m, a, x, n, i, 0, 0)
      /\ traced' \subseteq traced /\ concretised' \subseteq concretised /\ (p = 0 \/ p \in e.agreeing)
  BY <1>2, <1>4, <1>6, RefStepIs DEF Followed
<1> HIDE DEF x
<1>9. PICK z : Wrote(p, i, m, e, a, x, n, z)
  <2>1. CASE a % n # 0
    <3>1. ~ RefAborts(a, n) /\ ~ RefWritable(a, n) /\ e = [Same EXCEPT !.result = "fault"]
      BY <1>3, <1>6, <2>1 DEF RefAborts, RefWritable
    <3> QED
      BY <3>1, WriteFails
  <2>2. CASE a % n = 0
    <3>1. e = Write(a, regs[ins.rs2], n)
      BY <1>3, <1>6, <2>2
    <3> DEFINE v == regs[ins.rs2]
    <3>2. v \in Val(XLEN) /\ x = v.at[p] /\ e = Write(a, v, n)
      BY <1>7, <3>1 DEF x
    <3> HIDE DEF v
    <3> QED
      BY <1>8, <2>2, <3>2, WriteIs
  <2> QED
    BY <2>1, <2>2
<1>10. SameCore(m, z) /\ DevicesAre(p, z, mem', ctrl', sensor')
  BY <1>4, <1>9 DEF Wrote
<1>11. CASE e.result = "throw"
  <2>1. z = m /\ RefStore(m, a, x, n, i, 0, 0) = RefAbort(m)
    BY <1>9, <1>11 DEF Wrote
  <2>2. pc' = pc /\ status' = "aborted"
    BY <1>4, <1>11 DEF Proceed
  <2>3. Mirrors(p, i, RefAbort(m))'
    BY <1>4, <1>8, <1>10, <2>1, <2>2, AbortMirrors
  <2> QED
    BY <1>8, <2>1, <2>3
<1>12. CASE e.result = "fault"
  <2>1. e.status = z.status /\ RefStore(m, a, x, n, i, 0, 0) = RefTrap(z)
    BY <1>9, <1>12 DEF Wrote
  <2>2. pc' = TrapVector /\ status' = z.status
    BY <1>4, <1>12, <2>1 DEF Proceed
  <2>3. Mirrors(p, i, RefTrap(z))'
    BY <1>4, <1>8, <1>10, <2>1, <2>2, TrapMirrors
  <2> QED
    BY <1>8, <2>1, <2>3
<1>13. CASE e.result = "ok"
  <2>1. e.status = z.status /\ RefStore(m, a, x, n, i, 0, 0) = RefSet(z, 0, 0)
    BY <1>9, <1>13 DEF Wrote
  <2>2. pc' = NextPc /\ status' = z.status
    BY <1>4, <1>13, <2>1 DEF Proceed
  <2>3. Mirrors(p, i, RefSet(z, 0, 0))'
    BY <1>4, <1>8, <1>10, <2>1, <2>2, NextMirrors
  <2> QED
    BY <1>8, <2>1, <2>3
<1> QED
  BY <1>9, <1>11, <1>12, <1>13 DEF Wrote

\* The operation of an atomic instruction.
AmoGives(op, a, b, p) ==
  AmoOp(op, a, b) \in Val(XLEN) /\ AmoOp(op, a, b).at[p] = RefAlu(op, a.at[p], b.at[p]) % M

\* It is what the reference computes, at every point.
LEMMA AmoOpIs ==
  ASSUME NEW a \in Val(XLEN), NEW b \in Val(XLEN), NEW p \in Points, NEW op \in AmoOps
  PROVE  AmoGives(op, a, b, p)
<1>0. PICK v : v = AmoOp(op, a, b)
  OBVIOUS
<1> SUFFICES v \in Val(XLEN) /\ v.at[p] = RefAlu(op, a.at[p], b.at[p]) % M
  BY <1>0 DEF AmoGives
<1> DEFINE x == a.at[p]
           y == b.at[p]
<1>1. x \in 0 .. M - 1 /\ y \in 0 .. M - 1 /\ x \in Int /\ y \in Int /\ x % M = x /\ y % M = y
  BY ValueParts, SomeWidths, SmallWord DEF M
<1>2. S(x) = ToInt(x, XLEN) /\ S(y) = ToInt(y, XLEN) /\ S(x) \in Int /\ S(y) \in Int
  <2> HIDE DEF x, y
  <2>1. S(x) = ToInt(x, XLEN) /\ S(x) \in -Half .. Half - 1
    BY <1>1, SignedIs
  <2>2. S(y) = ToInt(y, XLEN) /\ S(y) \in -Half .. Half - 1
    BY <1>1, SignedIs
  <2> QED
    BY <2>1, <2>2, Powers
<1>3. /\ Made(add(a, b), XLEN, [q \in Points |-> a.at[q] + b.at[q]])
      /\ Made(bxor(a, b), XLEN, [q \in Points |-> BitXor(a.at[q], b.at[q])])
      /\ Made(bor(a, b), XLEN, [q \in Points |-> BitOr(a.at[q], b.at[q])])
      /\ Made(band(a, b), XLEN, [q \in Points |-> BitAnd(a.at[q], b.at[q])])
  BY SumsMade, BitsMade, SomeWidths
<1>4. /\ Made(uge(a, b), 1, [q \in Points |-> Bool(a.at[q] >= b.at[q])])
      /\ Made(sge(a, b), 1, [q \in Points |-> Bool(ToInt(a.at[q], XLEN) >= ToInt(b.at[q], XLEN))])
  BY ConditionsMade, SomeWidths
<1>5. uge(a, b).at[p] = Bool(x >= y) /\ sge(a, b).at[p] = Bool(S(x) >= S(y))
  <2>1. uge(a, b).at[p] = Bool(x >= y) % 2 ^ 1 /\ sge(a, b).at[p] = Bool(ToInt(x, XLEN) >= ToInt(y, XLEN)) % 2 ^ 1
    BY <1>4 DEF Made
  <2>2. 2 ^ 1 = 2
    OBVIOUS
  <2>3. \A t \in {0, 1} : t % 2 = t
    OBVIOUS
  <2>4. Bool(x >= y) \in {0, 1} /\ Bool(S(x) >= S(y)) \in {0, 1}
    BY DEF Bool
  <2> QED
    BY <1>2, <2>1, <2>2, <2>3, <2>4
<1>6. ASSUME NEW c, NEW d \in Val(XLEN), NEW g \in Val(XLEN)
      PROVE  select(c, d, g) \in Val(XLEN) /\ select(c, d, g).at[p] = (IF c.at[p] = 1 THEN d.at[p] ELSE g.at[p]) % M
  BY SelectMade, SomeWidths DEF Made, M
<1>7. CASE op = "AMOSWAP_W"
  <2>1. v = b
    BY <1>0, <1>7 DEF AmoOp
  <2>2. RefAlu(op, x, y) = y
    BY <1>7 DEF RefAlu
  <2> QED
    BY <1>1, <2>1, <2>2
<1>8. CASE op = "AMOADD_W"
  <2>1. v = add(a, b)
    BY <1>0, <1>8 DEF AmoOp
  <2>2. RefAlu(op, x, y) = x + y
    BY <1>8 DEF RefAlu
  <2> QED
    BY <1>3, <2>1, <2>2 DEF Made, M
<1>9. CASE op = "AMOXOR_W"
  <2>1. v = bxor(a, b)
    BY <1>0, <1>9 DEF AmoOp
  <2>2. RefAlu(op, x, y) = BitXor(x, y)
    BY <1>9 DEF RefAlu
  <2> QED
    BY <1>3, <2>1, <2>2 DEF Made, M
<1>10. CASE op = "AMOAND_W"
  <2>1. v = band(a, b)
    BY <1>0, <1>10 DEF AmoOp
  <2>2. RefAlu(op, x, y) = BitAnd(x, y)
    BY <1>10 DEF RefAlu
  <2> QED
    BY <1>3, <2>1, <2>2 DEF Made, M
<1>11. CASE op = "AMOOR_W"
  <2>1. v = bor(a, b)
    BY <1>0, <1>11 DEF AmoOp
  <2>2. RefAlu(op, x, y) = BitOr(x, y)
    BY <1>11 DEF RefAlu
  <2> QED
    BY <1>3, <2>1, <2>2 DEF Made, M
<1>12. CASE op = "AMOMIN_W"
  <2>1. v = select(sge(a, b), b, a)
    BY <1>0, <1>12 DEF AmoOp
  <2>2. RefAlu(op, x, y) = IF S(x) < S(y) THEN x ELSE y
    BY <1>12 DEF RefAlu
  <2> QED
    BY <1>2, <1>5, <1>6, <2>1, <2>2 DEF Bool
<1>13. CASE op = "AMOMINU_W"
  <2>1. v = select(uge(a, b), b, a)
    BY <1>0, <1>13 DEF AmoOp
  <2>2. RefAlu(op, x, y) = IF x < y THEN x ELSE y
    BY <1>13 DEF RefAlu
  <2>3. v \in Val(XLEN) /\ v.at[p] = (IF Bool(x >= y) = 1 THEN y ELSE x) % M
    BY <1>5, <1>6, <2>1
  <2>4. (IF Bool(x >= y) = 1 THEN y ELSE x) = IF x < y THEN x ELSE y
    <3> HIDE DEF x, y
    <3> QED
      BY <1>1 DEF Bool
  <2> QED
    BY <2>2, <2>3, <2>4
<1>14. CASE op = "AMOMAX_W"
  <2>1. v = select(sge(a, b), a, b)
    BY <1>0, <1>14 DEF AmoOp
  <2>2. RefAlu(op, x, y) = IF S(x) > S(y) THEN x ELSE y
    BY <1>14 DEF RefAlu
  <2>3. S(x) = S(y) => x = y
    <3> HIDE DEF x, y
    <3>1. S(x) = (IF x < Half THEN x ELSE x - M) /\ S(y) = IF y < Half THEN y ELSE y - M
      BY <1>2 DEF ToInt, Half, M
    <3>2. Half \in Nat /\ M = 2 * Half
      BY Powers
    <3> HIDE DEF Half, M
    <3> QED
      BY ONLY <1>1, <3>1, <3>2
  <2> QED
    BY <1>2, <1>5, <1>6, <2>1, <2>2, <2>3 DEF Bool
<1>15. CASE op = "AMOMAXU_W"
  <2>1. v = select(uge(a, b), a, b)
    BY <1>0, <1>15 DEF AmoOp
  <2>2. RefAlu(op, x, y) = IF x > y THEN x ELSE y
    BY <1>15 DEF RefAlu
  <2>3. v \in Val(XLEN) /\ v.at[p] = (IF Bool(x >= y) = 1 THEN x ELSE y) % M
    BY <1>5, <1>6, <2>1
  <2>4. (IF Bool(x >= y) = 1 THEN x ELSE y) = IF x > y THEN x ELSE y
    <3> HIDE DEF x, y
    <3> QED
      BY <1>1 DEF Bool
  <2> QED
    BY <2>2, <2>3, <2>4
<1> QED
  BY <1>7, <1>8, <1>9, <1>10, <1>11, <1>12, <1>13, <1>14, <1>15 DEF AmoOps

\* Only a write to the sensor changes it.
LEMMA SensorUntouched ==
  ASSUME NEW a \in Nat, NEW v, NEW n, ~ InDevice(a, SensorStart), NEW e, e = Write(a, v, n)
  PROVE  e.sensor = sensor
<1>1. ASSUME NEW off PROVE CtrlWrite(off, v, n).sensor = sensor \/ ~ (off >= 12 \/ off \div 4 = 0 \/ off \div 4 = 1 \/ off \div 4 = 2)
  BY DEF CtrlWrite, make_symbolic, Same
<1>2. CASE InDevice(a, CtrlStart)
  <2>1. ~ (a < MemSize) /\ a - CtrlStart \in Nat
    BY <1>2, Layout DEF InDevice
  <2>2. e = CtrlWrite(a - CtrlStart, v, n)
    BY <1>2, <2>1 DEF Write
  <2>3. PICK off \in Nat : off = a - CtrlStart
    BY <2>1
  <2>4. off >= 12 \/ off \div 4 = 0 \/ off \div 4 = 1 \/ off \div 4 = 2
    OBVIOUS
  <2> QED
    BY <1>1, <2>2, <2>3, <2>4
<1>3. CASE ~ InDevice(a, CtrlStart)
  BY <1>3 DEF Write, Same
<1> QED
  BY <1>2, <1>3

\* The atomic operations do.
LEMMA AmoStep ==
  ASSUME NEW p, NEW i, NEW m, Mirrors(p, i, m), NEW ins \in Instructions, Amo(ins), Followed(p), sensor.nread < MaxReads
  PROVE  Mirrors(p, i, RefStep(m, ins, i))'
<1> USE InstructionParts
<1>1. PICK addr : addr = regs[ins.rs1]
  OBVIOUS
<1>2. PICK n : n = 4
  OBVIOUS
<1>3. PICK r : r = IF concrete(addr) % n # 0 THEN [result |-> "fault", sensor |-> sensor] ELSE Read(concrete(addr), n)
  OBVIOUS
<1>4. PICK v : v = AmoOp(ins.op, r.value, regs[ins.rs2])
  OBVIOUS
<1>5. PICK e : e = IF r.result # "ok" THEN [Same EXCEPT !.result = r.result] ELSE Write(concrete(addr), v, n)
  OBVIOUS
<1>6. /\ ins.op \in AmoOps /\ concretised' = concretised \cap Agreeing(addr) \cap e.agreeing
      /\ Proceed(e.result, e.status) /\ mem' = e.mem /\ ctrl' = e.ctrl /\ sensor' = r.sensor
      /\ regs' = (IF e.result = "ok" THEN Written(ins.rd, r.value) ELSE regs)
      /\ UNCHANGED <<mscratch, current, traced>>
  BY <1>1, <1>2, <1>3, <1>4, <1>5 DEF Amo
<1>7. addr.at[p] = concrete(addr)
  BY <1>6, AgreeingAgrees
<1>8. PICK a \in 0 .. M - 1 : a = concrete(addr) /\ a = m.regs[ins.rs1]
  BY <1>1, <1>7, MirrorsRegs
<1>9. /\ m \in Machines /\ m.status = status /\ p \in Points /\ DevicesAre(p, m, mem, ctrl, sensor) /\ SameCore(m, m)
      /\ regs[ins.rs2] \in Val(XLEN) /\ regs[ins.rs2].at[p] = m.regs[ins.rs2]
  BY MirrorsDevices, MirrorsRegs DEF Mirrors, Common, SameCore
<1>10. /\ RefStep(m, ins, i) = RefAmo(m, ins, i) /\ traced' \subseteq traced /\ concretised' \subseteq concretised
       /\ (p = 0 \/ p \in e.agreeing) /\ n \in {1, 2, 4}
  BY <1>2, <1>6, RefStepIs DEF Followed
<1>11. ASSUME r.result = "fault", r.sensor = sensor, ~ RefAborts(a, 4), ~ RefReadable(m, a, 4)
       PROVE  Mirrors(p, i, RefStep(m, ins, i))'
  <2>1. RefAmo(m, ins, i) = RefTrap(m)
    BY <1>8, <1>11 DEF RefAmo
  <2>2. e.result = "fault" /\ e.mem = mem /\ e.ctrl = ctrl /\ e.status = status
    BY <1>5, <1>11 DEF Same
  <2>3. pc' = TrapVector /\ status' = status /\ regs' = regs
    BY <1>6, <2>2 DEF Proceed
  <2>4. DevicesAre(p, m, mem', ctrl', sensor')
    BY <1>6, <1>9, <1>11, <2>2
  <2>5. Mirrors(p, i, RefTrap(m))'
    BY <1>6, <1>9, <1>10, <2>3, <2>4, TrapMirrors
  <2> QED
    BY <1>10, <2>1, <2>5
<1>12. CASE a % n # 0
  BY <1>2, <1>3, <1>8, <1>11, <1>12 DEF RefAborts, RefReadable
<1>13. CASE a % n = 0
  <2>1. r = Read(a, n)
    BY <1>3, <1>8, <1>13
  <2>2. \/ r.result = "throw" /\ r.sensor = sensor /\ RefAborts(a, n)
        \/ r.result = "fault" /\ r.sensor = sensor /\ ~ RefAborts(a, n) /\ ~ RefReadable(m, a, n)
        \/ /\ r.result = "ok" /\ ~ RefAborts(a, n) /\ RefReadable(m, a, n)
           /\ r.sensor = (IF a = SensorStart + 8 THEN [sensor EXCEPT !.nread = @ + 1] ELSE sensor)
           /\ r.value \in Val(n * CHAR_BIT) /\ r.value.at[p] = RefLoad(m, a, n, i)
    BY <1>10, <1>13, <2>1, ReadIs
  <2>3. CASE r.result = "throw"
    <3>1. r.sensor = sensor /\ RefAborts(a, 4)
      BY <1>2, <2>2, <2>3
    <3>2. RefAmo(m, ins, i) = RefAbort(m)
      BY <1>8, <3>1 DEF RefAmo
    <3>3. e.result = "throw" /\ e.mem = mem /\ e.ctrl = ctrl /\ e.status = status
      BY <1>5, <2>3 DEF Same
    <3>4. pc' = pc /\ status' = "aborted" /\ regs' = regs
      BY <1>6, <3>3 DEF Proceed
    <3>5. DevicesAre(p, m, mem', ctrl', sensor')
      BY <1>6, <1>9, <3>1, <3>3
    <3>6. Mirrors(p, i, RefAbort(m))'
      BY <1>6, <1>10, <3>4, <3>5, AbortMirrors
    <3> QED
      BY <1>10, <3>2, <3>6
  <2>4. CASE r.result = "fault"
    BY <1>2, <1>11, <2>2, <2>4
  <2>5. CASE r.result = "ok"
    <3> DEFINE old == RefLoad(m, a, 4, i)
               x == RefAlu(ins.op, old, m.regs[ins.rs2]) % M
    <3>1. /\ ~ RefAborts(a, 4) /\ RefReadable(m, a, 4) /\ r.value \in Val(XLEN) /\ r.value.at[p] = old
          /\ r.sensor = (IF a = SensorStart + 8 THEN [sensor EXCEPT !.nread = @ + 1] ELSE sensor)
      BY <1>2, <2>2, <2>5, WidthTypes
    <3>2. e = Write(a, v, n)
      BY <1>5, <1>8, <2>5
    <3>3. v \in Val(XLEN) /\ v.at[p] = x
      <4>1. PICK b \in Val(XLEN) : b = regs[ins.rs2] /\ b.at[p] = m.regs[ins.rs2]
        BY <1>9
      <4>2. PICK g \in Val(XLEN) : g = r.value /\ g.at[p] = old
        BY <3>1
      <4> HIDE DEF old
      <4>3. PICK op \in AmoOps : op = ins.op
        BY <1>6
      <4>4. v = AmoOp(op, g, b) /\ p \in Points
        BY <1>4, <1>9, <4>1, <4>2, <4>3
      <4>5. v \in Val(XLEN) /\ v.at[p] = RefAlu(op, g.at[p], b.at[p]) % M
        <5>1. AmoGives(op, g, b, p)
          BY ONLY <4>4, AmoOpIs, g \in Val(XLEN), b \in Val(XLEN), op \in AmoOps
        <5> QED
          BY ONLY <4>4, <5>1 DEF AmoGives
      <4> QED
        BY <4>1, <4>2, <4>3, <4>5
    <3>4. PICK z : Wrote(p, i, m, e, a, x, n, z)
      <4> HIDE DEF x
      <4> QED
        BY <1>10, <1>13, <3>2, <3>3, WriteIs
    <3>5. CASE a = SensorStart + 8
      <4>1. RefAmo(m, ins, i) = RefTrap(RefSeen(m, a))
        BY <1>8, <3>1, <3>5 DEF RefAmo
      <4>2. InDevice(a, SensorStart) /\ ~ InDevice(a, CtrlStart) /\ ~ (a < MemSize) /\ a - SensorStart = 8
        BY <3>5, Layout DEF InDevice
      <4>3. e = [Same EXCEPT !.result = "fault"]
        BY <3>2, <4>2 DEF Write, SensorWrite
      <4>4. e.result = "fault" /\ e.mem = mem /\ e.ctrl = ctrl /\ e.status = status
        BY <4>3 DEF Same
      <4>5. pc' = TrapVector /\ status' = status /\ regs' = regs
        BY <1>6, <4>4 DEF Proceed
      <4> DEFINE y == RefSeen(m, a)
      <4> HIDE DEF y
      <4>6. SameCore(m, y) /\ y.status = status /\ DevicesAre(p, y, mem, ctrl, r.sensor)
        BY <3>1, SeenIs DEF y
      <4>7. DevicesAre(p, y, mem', ctrl', sensor')
        BY <1>6, <4>4, <4>6
      <4>8. Mirrors(p, i, RefTrap(y))'
        BY <1>6, <1>10, <4>5, <4>6, <4>7, TrapMirrors
      <4> QED
        BY <1>10, <4>1, <4>8 DEF y
    <3>6. CASE a # SensorStart + 8
      <4>1. RefAmo(m, ins, i) = RefStore(m, a, x, n, i, ins.rd, old)
        BY <1>2, <1>8, <3>1, <3>6 DEF RefAmo
      <4>2. ~ InDevice(a, SensorStart)
        <5>1. a \in Memory \cup Control
          <6>1. a \in a .. a + 4 - 1
            BY Powers
          <6> QED
            BY <3>1, <3>6, <6>1 DEF RefReadable
        <5> QED
          BY <5>1, Layout DEF Memory, Control, InDevice
      <4>3. sensor' = e.sensor
        BY <1>6, <3>1, <3>2, <3>6, <4>2, SensorUntouched
      <4>4. SameCore(m, z) /\ DevicesAre(p, z, mem', ctrl', sensor')
        BY <1>6, <3>4, <4>3 DEF Wrote
      <4> HIDE DEF x
      <4>5. CASE e.result = "throw"
        <5>1. z = m /\ RefStore(m, a, x, n, i, ins.rd, old) = RefAbort(m)
          BY <3>4, <4>5 DEF Wrote
        <5>2. pc' = pc /\ status' = "aborted" /\ regs' = regs
          BY <1>6, <4>5 DEF Proceed
        <5>3. Mirrors(p, i, RefAbort(m))'
          BY <1>6, <1>10, <4>4, <5>1, <5>2, AbortMirrors
        <5> QED
          BY <1>10, <4>1, <5>1, <5>3
      <4>6. CASE e.result = "fault"
        <5>1. e.status = z.status /\ RefStore(m, a, x, n, i, ins.rd, old) = RefTrap(z)
          BY <3>4, <4>6 DEF Wrote
        <5>2. pc' = TrapVector /\ status' = z.status /\ regs' = regs
          BY <1>6, <4>6, <5>1 DEF Proceed
        <5>3. Mirrors(p, i, RefTrap(z))'
          BY <1>6, <1>10, <4>4, <5>1, <5>2, TrapMirrors
        <5> QED
          BY <1>10, <4>1, <5>1, <5>3
      <4>7. CASE e.result = "ok"
        <5>1. e.status = z.status /\ RefStore(m, a, x, n, i, ins.rd, old) = RefSet(z, ins.rd, old)
          BY <3>4, <4>7 DEF Wrote
        <5>2. pc' = NextPc /\ status' = z.status /\ regs' = Written(ins.rd, r.value)
          BY <1>6, <4>7, <5>1 DEF Proceed
        <5> HIDE DEF old
        <5>3. Gives(r.value, p, old)
          BY <1>9, <3>1, WordIsItself
        <5>4. Mirrors(p, i, RefSet(z, ins.rd, old))'
          BY <1>6, <1>10, <4>4, <5>2, <5>3, SucceedMirrors
        <5> QED
          BY <1>10, <4>1, <5>1, <5>4
      <4> QED
        BY <3>4, <4>5, <4>6, <4>7 DEF Wrote
    <3> QED
      BY <3>5, <3>6
  <2> QED
    BY <2>2, <2>3, <2>4, <2>5
<1> QED
  BY <1>12, <1>13

-----------------------------------------------------------------------------
(* The input of the execution satisfies what the execution traced. *)

\* A write uses the concrete part of the value, or nothing of it.
LEMMA WriteAgreeing ==
  ASSUME NEW a \in Nat, NEW v, NEW n, NEW e, e = Write(a, v, n)
  PROVE  e.agreeing = Inputs \/ e.agreeing = Agreeing(v)
<1>1. ASSUME NEW off
      PROVE  \/ CtrlWrite(off, v, n).agreeing = Inputs \/ CtrlWrite(off, v, n).agreeing = Agreeing(v)
             \/ ~ (off >= 12 \/ off \div 4 = 0 \/ off \div 4 = 1 \/ off \div 4 = 2)
  BY DEF CtrlWrite, make_symbolic, Same
<1>2. CASE InDevice(a, CtrlStart)
  <2>1. ~ (a < MemSize) /\ ~ InDevice(a, SensorStart) /\ a - CtrlStart \in Nat
    BY <1>2, Layout DEF InDevice
  <2>2. e = CtrlWrite(a - CtrlStart, v, n)
    BY <1>2, <2>1 DEF Write
  <2>3. PICK off \in Nat : off = a - CtrlStart
    BY <2>1
  <2>4. off >= 12 \/ off \div 4 = 0 \/ off \div 4 = 1 \/ off \div 4 = 2
    OBVIOUS
  <2> QED
    BY <1>1, <2>2, <2>3, <2>4
<1>3. CASE InDevice(a, SensorStart)
  <2>1. ~ (a < MemSize) /\ ~ InDevice(a, CtrlStart)
    BY <1>3, Layout DEF InDevice
  <2>2. e = SensorWrite(a - SensorStart, v, n)
    BY <1>3, <2>1 DEF Write
  <2> QED
    BY <2>2 DEF SensorWrite, Same
<1>4. CASE ~ InDevice(a, CtrlStart) /\ ~ InDevice(a, SensorStart)
  BY <1>4 DEF Write, Same
<1> QED
  BY <1>2, <1>3, <1>4

\* The machine m of the current input c is shown by point 0 and by point c.
Twice(c, m) == c = current /\ Mirrors(0, c, m) /\ Mirrors(c, c, m)

\* The registers of the current input are the concrete parts.
LEMMA TwiceRegs ==
  ASSUME NEW c, NEW m, Twice(c, m), NEW r \in Regs
  PROVE  /\ regs[r] \in Val(XLEN) /\ regs[r].at[c] = regs[r].at[0] /\ regs[r].at[0] \in 0 .. M - 1
         /\ c \in Inputs /\ c \in Points /\ 0 \in Points
<1>1. regs[r] \in Val(XLEN) /\ regs[r].at[0] = m.regs[r] /\ m.regs[r] \in 0 .. M - 1 /\ 0 \in Points
  BY MirrorsRegs DEF Twice
<1>2. regs[r].at[c] = m.regs[r] /\ c \in Points
  BY MirrorsRegs DEF Twice
<1>3. c \in Inputs
  BY DEF Twice, Mirrors
<1> QED
  BY <1>1, <1>2, <1>3

\* Equal operands, equal address.
LEMMA TwiceAddress ==
  ASSUME NEW c, NEW m, Twice(c, m), NEW r \in Regs, NEW imm \in Int, NEW addr, addr = add(regs[r], BVC(imm))
  PROVE  c \in Agreeing(addr) /\ concrete(addr) \in 0 .. M - 1
<1>1. /\ regs[r] \in Val(XLEN) /\ regs[r].at[c] = regs[r].at[0] /\ regs[r].at[0] \in 0 .. M - 1
      /\ c \in Inputs /\ c \in Points /\ 0 \in Points
  BY TwiceRegs
<1>2. BVC(imm) \in Val(XLEN) /\ BVC(imm).at[c] = BVC(imm).at[0]
  BY <1>1, WordConst
<1>3. Made(addr, XLEN, [q \in Points |-> regs[r].at[q] + BVC(imm).at[q]])
  BY <1>1, <1>2, SumsMade, SomeWidths
<1>4. addr.at[c] = addr.at[0]
  BY <1>1, <1>2, <1>3 DEF Made
<1>5. addr.at[0] \in 0 .. M - 1
  BY <1>1, <1>3, ValueParts, SomeWidths DEF Made, M
<1> QED
  BY <1>1, <1>4, <1>5 DEF Agreeing, concrete

\* No instruction traces a condition, or concretises a value, that excludes the
\* input of the execution.
LEMMA CurrentStays ==
  ASSUME NEW c, NEW m, Twice(c, m), c \in traced \cap concretised, NEW ins \in Instructions, Execute(ins)
  PROVE  c \in traced' \cap concretised'
<1> USE InstructionParts
<1>1. c \in Inputs /\ c \in Points /\ 0 \in Points /\ sensor.nread < MaxReads
  BY ZeroReg DEF Twice, Mirrors, Execute
<1>2. CASE Arithmetic(ins)
  BY <1>2 DEF Arithmetic, WriteRd
<1>3. CASE Divide(ins)
  <2>1. PICK zero : zero = eq(regs[ins.rs2], BVC(0))
    OBVIOUS
  <2>2. traced' = Traced(zero) /\ concretised' = concretised
    BY <1>3, <2>1 DEF Divide
  <2>3. BVC(0) \in Val(XLEN) /\ BVC(0).at[c] = BVC(0).at[0]
    BY <1>1, WordConst
  <2>4. regs[ins.rs2] \in Val(XLEN) /\ regs[ins.rs2].at[c] = regs[ins.rs2].at[0]
    BY TwiceRegs
  <2>5. Made(zero, 1, [q \in Points |-> Bool(regs[ins.rs2].at[q] = BVC(0).at[q])])
    BY <2>1, <2>3, <2>4, ConditionsMade, SomeWidths
  <2>6. zero.at[c] = zero.at[0]
    BY <1>1, <2>3, <2>4, <2>5 DEF Made
  <2> QED
    BY <1>1, <2>2, <2>6 DEF Traced, concrete
<1>4. CASE Jump(ins)
  <2>1. PICK base : base = IF ins.op = "JAL" THEN BVC(pc) ELSE regs[ins.rs1]
    OBVIOUS
  <2>2. traced' = traced /\ concretised' = concretised \cap Agreeing(base)
    BY <1>4, <2>1 DEF Jump
  <2>3. pc \in Int
    BY Powers DEF Twice, Mirrors, StateOK
  <2>4. BVC(pc).at[c] = BVC(pc).at[0]
    BY <1>1, <2>3, WordConst
  <2>5. regs[ins.rs1].at[c] = regs[ins.rs1].at[0]
    BY TwiceRegs
  <2>6. base.at[c] = base.at[0]
    BY <2>1, <2>4, <2>5
  <2> QED
    BY <1>1, <2>2, <2>6 DEF Agreeing, concrete
<1>5. CASE Branch(ins)
  <2>1. PICK res : res = Condition(ins.op, regs[ins.rs1], regs[ins.rs2])
    OBVIOUS
  <2>2. traced' = Traced(res) /\ concretised' = concretised /\ ins.op \in BranchOps
    BY <1>5, <2>1 DEF Branch
  <2>3. PICK x \in Val(XLEN) : x = regs[ins.rs1] /\ x.at[c] = x.at[0]
    BY TwiceRegs
  <2>4. PICK y \in Val(XLEN) : y = regs[ins.rs2] /\ y.at[c] = y.at[0]
    BY TwiceRegs
  <2>5. Condition(ins.op, x, y).at[c] = Bool(RefTaken(ins.op, x.at[c], y.at[c]))
    BY <1>1, <2>2, ConditionIs
  <2>6. Condition(ins.op, x, y).at[0] = Bool(RefTaken(ins.op, x.at[0], y.at[0]))
    BY <1>1, <2>2, ConditionIs
  <2>7. res.at[c] = res.at[0]
    BY <2>1, <2>3, <2>4, <2>5, <2>6
  <2> QED
    BY <1>1, <2>2, <2>7 DEF Traced, concrete
<1>6. CASE Load(ins)
  <2>1. PICK addr : addr = add(regs[ins.rs1], BVC(ins.imm))
    OBVIOUS
  <2>2. traced' = traced /\ concretised' = concretised \cap Agreeing(addr)
    BY <1>6, <2>1 DEF Load
  <2> QED
    BY <2>1, <2>2, TwiceAddress
<1>7. CASE Store(ins)
  <2>1. PICK addr : addr = add(regs[ins.rs1], BVC(ins.imm))
    OBVIOUS
  <2>2. PICK e : e = IF concrete(addr) % Width[ins.op] # 0 THEN [Same EXCEPT !.result = "fault"]
                     ELSE Write(concrete(addr), regs[ins.rs2], Width[ins.op])
    OBVIOUS
  <2>3. traced' = traced /\ concretised' = concretised \cap Agreeing(addr) \cap e.agreeing
    BY <1>7, <2>1, <2>2 DEF Store
  <2>4. c \in Agreeing(addr) /\ concrete(addr) \in Nat
    BY <2>1, TwiceAddress
  <2>5. e.agreeing = Inputs \/ e.agreeing = Agreeing(regs[ins.rs2])
    <3>1. CASE concrete(addr) % Width[ins.op] # 0
      BY <2>2, <3>1 DEF Same
    <3>2. CASE concrete(addr) % Width[ins.op] = 0
      BY <2>2, <2>4, <3>2, WriteAgreeing
    <3> QED
      BY <3>1, <3>2
  <2>6. c \in Agreeing(regs[ins.rs2])
    BY TwiceRegs DEF Agreeing, concrete
  <2> QED
    BY <1>1, <2>3, <2>4, <2>5, <2>6
<1>8. CASE Amo(ins)
  <2>1. PICK addr : addr = regs[ins.rs1]
    OBVIOUS
  <2>2. PICK n \in {1, 2, 4} : n = 4
    OBVIOUS
  <2>3. PICK r : r = IF concrete(addr) % n # 0 THEN [result |-> "fault", sensor |-> sensor] ELSE Read(concrete(addr), n)
    OBVIOUS
  <2>4. PICK v : v = AmoOp(ins.op, r.value, regs[ins.rs2])
    OBVIOUS
  <2>5. PICK e : e = IF r.result # "ok" THEN [Same EXCEPT !.result = r.result] ELSE Write(concrete(addr), v, n)
    OBVIOUS
  <2>6. traced' = traced /\ concretised' = concretised \cap Agreeing(addr) \cap e.agreeing /\ ins.op \in AmoOps
    BY <1>8, <2>1, <2>2, <2>3, <2>4, <2>5 DEF Amo
  <2>7. c \in Agreeing(addr)
    BY <2>1, TwiceRegs DEF Agreeing, concrete
  <2>8. PICK a \in 0 .. M - 1 : a = concrete(addr)
    BY <2>1, TwiceRegs DEF concrete
  <2>9. CASE r.result # "ok"
    <3>1. e.agreeing = Inputs
      BY <2>5, <2>9 DEF Same
    <3> QED
      BY <1>1, <2>6, <2>7, <3>1
  <2>10. CASE r.result = "ok"
    <3>1. a % n = 0 /\ r = Read(a, n)
      <4>1. CASE a % n # 0
        BY <2>3, <2>8, <2>10, <4>1
      <4> QED
        BY <2>3, <2>8, <4>1
    <3>2. Mirrors(0, c, m) /\ Mirrors(c, c, m)
      BY DEF Twice
    <3>3. r.value \in Val(n * CHAR_BIT) /\ r.value.at[0] = RefLoad(m, a, n, c)
      BY <1>1, <2>10, <3>1, <3>2, ReadIs
    <3>4. r.value.at[c] = RefLoad(m, a, n, c)
      BY <1>1, <2>10, <3>1, <3>2, ReadIs
    <3>5. n * CHAR_BIT = XLEN
      BY <2>2, WidthTypes
    <3>6. PICK x \in Val(XLEN) : x = r.value /\ x.at[c] = x.at[0]
      BY <3>3, <3>4, <3>5
    <3>7. PICK y \in Val(XLEN) : y = regs[ins.rs2] /\ y.at[c] = y.at[0]
      BY TwiceRegs
    <3>8. PICK op \in AmoOps : op = ins.op
      BY <2>6
    <3>9. v = AmoOp(op, x, y)
      BY <2>4, <3>6, <3>7, <3>8
    <3>10. v.at[c] = RefAlu(op, x.at[c], y.at[c]) % M
      <4>1. AmoGives(op, x, y, c)
        BY ONLY <1>1, AmoOpIs, x \in Val(XLEN), y \in Val(XLEN), op \in AmoOps
      <4> QED
        BY ONLY <3>9, <4>1 DEF AmoGives
    <3>11. v.at[0] = RefAlu(op, x.at[0], y.at[0]) % M
      <4>1. AmoGives(op, x, y, 0)
        BY ONLY <1>1, AmoOpIs, x \in Val(XLEN), y \in Val(XLEN), op \in AmoOps
      <4> QED
        BY ONLY <3>9, <4>1 DEF AmoGives
    <3>12. c \in Agreeing(v)
      BY <1>1, <3>6, <3>7, <3>10, <3>11 DEF Agreeing, concrete
    <3>13. e.agreeing = Inputs \/ e.agreeing = Agreeing(v)
      BY <2>5, <2>8, <2>10, WriteAgreeing
    <3> QED
      BY <1>1, <2>6, <2>7, <3>12, <3>13
  <2> QED
    BY <2>9, <2>10
<1>9. CASE Csr(ins)
  <2> DEFINE immediate == ins.op \in {"CSRRWI", "CSRRSI", "CSRRCI"}
  <2>1. PICK operand : operand = IF immediate THEN BVC(ins.imm) ELSE regs[ins.rs1]
    OBVIOUS
  <2>2. traced' = traced /\ concretised' = concretised \cap Agreeing(operand)
    BY <1>9, <2>1 DEF Csr
  <2>3. BVC(ins.imm).at[c] = BVC(ins.imm).at[0]
    BY <1>1, WordConst
  <2>4. regs[ins.rs1].at[c] = regs[ins.rs1].at[0]
    BY TwiceRegs
  <2>5. operand.at[c] = operand.at[0]
    BY <2>1, <2>3, <2>4
  <2> QED
    BY <1>1, <2>2, <2>5 DEF Agreeing, concrete
<1> QED
  BY <1>2, <1>3, <1>4, <1>5, <1>6, <1>7, <1>8, <1>9 DEF Execute

-----------------------------------------------------------------------------
(* Whole executions. *)

\* No instruction changes the input, and each only narrows the followed inputs.
LEMMA Shrinks ==
  ASSUME NEW ins, Execute(ins)
  PROVE  traced' \subseteq traced /\ concretised' \subseteq concretised /\ current' = current
<1>1. CASE Arithmetic(ins)
  BY <1>1 DEF Arithmetic, WriteRd
<1>2. CASE Divide(ins)
  BY <1>2 DEF Divide, Traced
<1>3. CASE Jump(ins)
  BY <1>3 DEF Jump
<1>4. CASE Branch(ins)
  BY <1>4 DEF Branch, Traced
<1>5. CASE Load(ins)
  BY <1>5 DEF Load
<1>6. CASE Store(ins)
  BY <1>6 DEF Store
<1>7. CASE Amo(ins)
  BY <1>7 DEF Amo
<1>8. CASE Csr(ins)
  BY <1>8 DEF Csr
<1> QED
  BY <1>1, <1>2, <1>3, <1>4, <1>5, <1>6, <1>7, <1>8 DEF Execute

\* Every instruction keeps a point in step with the reference machine that it shows.
LEMMA StepMirrors ==
  ASSUME NEW p, NEW i, NEW m, Mirrors(p, i, m), NEW ins \in Instructions, Execute(ins), Followed(p)
  PROVE  Mirrors(p, i, RefStep(m, ins, i))'
<1>1. CASE Arithmetic(ins)
  BY <1>1, ArithmeticStep
<1>2. CASE Divide(ins)
  BY <1>2, DivideStep
<1>3. CASE Jump(ins)
  BY <1>3, JumpStep
<1>4. CASE Branch(ins)
  BY <1>4, BranchStep
<1>5. sensor.nread < MaxReads
  BY DEF Execute
<1>6. CASE Load(ins)
  BY <1>5, <1>6, LoadStep
<1>7. CASE Store(ins)
  BY <1>7, StoreStep
<1>8. CASE Amo(ins)
  BY <1>5, <1>8, AmoStep
<1>9. CASE Csr(ins)
  BY <1>9, CsrStep
<1> QED
  BY <1>1, <1>2, <1>3, <1>4, <1>6, <1>7, <1>8, <1>9 DEF Execute

\* The inductive invariant: the inputs that are followed are those that satisfy what
\* was traced and concretised, the input of the execution is one of them, the point
\* of each shows its machine, and the concrete parts show that of the current input.
Fetches == todo \in Seq(Instructions)
Domain == DOMAIN ref = traced \cap concretised /\ current \in DOMAIN ref
Tracks == \A i \in DOMAIN ref : \E m \in Machines : ref[i] = m /\ Mirrors(i, i, m)
TracksCurrent == \E c \in Inputs : \E m \in Machines : c = current /\ ref[c] = m /\ Mirrors(0, c, m)
FaithfulInv == Fetches /\ Domain /\ Tracks /\ TracksCurrent

\* An instruction keeps the followed inputs in step with their machines.
LEMMA FollowTracks ==
  ASSUME Domain, Tracks, TracksCurrent, NEW ins \in Instructions, Follow(ins)
  PROVE  Domain' /\ Tracks' /\ TracksCurrent'
<1>1. Execute(ins) /\ ref' = [i \in DOMAIN ref \cap traced' \cap concretised' |-> RefStep(ref[i], ins, i)]
  BY DEF Follow
<1>2. traced' \subseteq traced /\ concretised' \subseteq concretised /\ current' = current
  BY <1>1, Shrinks
<1>3. DOMAIN ref' = traced' \cap concretised' /\ DOMAIN ref' \subseteq DOMAIN ref
  BY <1>1, <1>2 DEF Domain
<1>4. \A i \in DOMAIN ref' : ref'[i] = RefStep(ref[i], ins, i)
  BY <1>1
<1>5. PICK c \in Inputs, m \in Machines : c = current /\ ref[c] = m /\ Mirrors(0, c, m)
  BY DEF TracksCurrent
<1>6. c \in DOMAIN ref /\ c \in traced \cap concretised
  BY <1>5 DEF Domain
<1>7. Mirrors(c, c, m)
  BY <1>5, <1>6 DEF Tracks
<1>8. c \in DOMAIN ref'
  <2>1. Twice(c, m)
    BY <1>5, <1>7 DEF Twice
  <2> QED
    BY <1>1, <1>3, <1>6, <2>1, CurrentStays
<1>9. Domain'
  BY <1>2, <1>3, <1>5, <1>8 DEF Domain
<1>10. Tracks'
  <2>1. SUFFICES ASSUME NEW i \in DOMAIN ref'
                 PROVE  (\E y \in Machines : ref[i] = y /\ Mirrors(i, i, y))'
    BY DEF Tracks
  <2>2. PICK y \in Machines : ref[i] = y /\ Mirrors(i, i, y)
    BY <1>3 DEF Tracks
  <2>3. Followed(i)
    BY <1>3 DEF Followed
  <2>4. PICK z : z = RefStep(y, ins, i)
    OBVIOUS
  <2>5. Mirrors(i, i, RefStep(y, ins, i))'
    BY <1>1, <2>2, <2>3, StepMirrors
  <2>6. Mirrors(i, i, z)'
    BY <2>4, <2>5
  <2>7. ref'[i] = z
    BY <1>4, <2>2, <2>4
  <2>8. z \in Machines
    BY <2>6 DEF Mirrors
  <2> QED
    BY <2>6, <2>7, <2>8
<1>11. TracksCurrent'
  <2>1. Followed(0)
    BY DEF Followed
  <2>2. PICK z : z = RefStep(m, ins, c)
    OBVIOUS
  <2>3. Mirrors(0, c, RefStep(m, ins, c))'
    BY <1>1, <1>5, <2>1, StepMirrors
  <2>4. Mirrors(0, c, z)'
    BY <2>2, <2>3
  <2>5. ref'[c] = z
    BY <1>4, <1>5, <1>8, <2>2
  <2>6. z \in Machines
    BY <2>4 DEF Mirrors
  <2>7. c = current'
    BY <1>2, <1>5
  <2> QED
    BY <2>4, <2>5, <2>6, <2>7 DEF TracksCurrent
<1> QED
  BY <1>9, <1>10, <1>11

\* Every step preserves the inductive invariant.
LEMMA FaithfulKept == FaithfulInv /\ [MCNext]_<<concolicVars, todo, free, ref>> => FaithfulInv'
<1> SUFFICES ASSUME FaithfulInv, [MCNext]_<<concolicVars, todo, free, ref>>
             PROVE  FaithfulInv'
  OBVIOUS
<1>1. Fetches /\ Domain /\ Tracks /\ TracksCurrent
  BY DEF FaithfulInv
<1>2. CASE todo # <<>> /\ Follow(Head(todo)) /\ todo' = Tail(todo)
  <2>1. PICK ins : ins = Head(todo)
    OBVIOUS
  <2>2. ins \in Instructions /\ Fetches'
    BY <1>1, <1>2, <2>1 DEF Fetches
  <2>3. Follow(ins)
    BY <1>2, <2>1
  <2> QED
    BY <1>1, <2>2, <2>3, FollowTracks DEF FaithfulInv
<1>3. CASE (\E ins \in Instrs : Follow(ins)) /\ todo' = todo
  <2>1. PICK ins \in Instrs : Follow(ins)
    BY <1>3
  <2>2. ins \in Instructions
    BY InstrsAssumption
  <2>3. Fetches'
    BY <1>1, <1>3 DEF Fetches
  <2> QED
    BY <1>1, <2>1, <2>2, <2>3, FollowTracks DEF FaithfulInv
<1>4. CASE UNCHANGED <<concolicVars, todo, free, ref>>
  <2>1. ASSUME NEW p, NEW i, NEW m, Mirrors(p, i, m)
        PROVE  Mirrors(p, i, m)'
    BY <1>4, <2>1 DEF concolicVars, Mirrors, StateOK, Shows, Common, Looks
  <2>2. Fetches' /\ Domain'
    BY <1>1, <1>4 DEF Fetches, Domain, concolicVars
  <2>3. Tracks'
    <3>1. SUFFICES ASSUME NEW i \in DOMAIN ref'
                   PROVE  (\E y \in Machines : ref[i] = y /\ Mirrors(i, i, y))'
      BY DEF Tracks
    <3>2. PICK y \in Machines : ref[i] = y /\ Mirrors(i, i, y)
      BY <1>1, <1>4 DEF Tracks
    <3> QED
      BY <1>4, <2>1, <3>2
  <2>4. TracksCurrent'
    <3>1. PICK c \in Inputs, m \in Machines : c = current /\ ref[c] = m /\ Mirrors(0, c, m)
      BY <1>1 DEF TracksCurrent
    <3>2. Mirrors(0, c, m)'
      BY <2>1, <3>1
    <3> QED
      BY <1>4, <3>1, <3>2 DEF TracksCurrent, concolicVars
  <2> QED
    BY <2>2, <2>3, <2>4 DEF FaithfulInv
<1> QED
  BY <1>2, <1>3, <1>4 DEF MCNext

\* It holds initially.
LEMMA FaithfulStart == MCInit => FaithfulInv
<1> SUFFICES ASSUME MCInit
             PROVE  FaithfulInv
  OBVIOUS
<1>1. /\ regs = [r \in Regs |-> BVC(0)] /\ mem = [b \in Memory |-> Const(CHAR_BIT, 0)]
      /\ pc = 0 /\ mscratch = 0 /\ ctrl = [r \in 0 .. 2 |-> 0]
      /\ sensor = [lower |-> 0, upper |-> 0, nread |-> 0]
      /\ status = "running" /\ current \in Inputs /\ traced = Inputs /\ concretised = Inputs
      /\ ref = [i \in Inputs |-> RefInit]
  BY DEF MCInit, ConcolicInit, Memory
<1>2. M \in Nat \ {0} /\ Radix \in Nat \ {0} /\ 0 % M = 0 /\ 0 % Radix = 0
  BY Powers
<1>3. Fetches
  BY PrefixesAssumption DEF MCInit, Fetches
<1>4. Domain
  BY <1>1 DEF Domain
<1>5. PICK m : m = RefInit
  OBVIOUS
<1>6. /\ m.regs = [r \in Regs |-> 0] /\ m.mem = [a \in Cells |-> 0] /\ m.pc = 0 /\ m.csr = 0
      /\ m.nread = 0 /\ m.status = "running" /\ m \in Machines
  BY <1>2, <1>5, ZeroReg DEF RefInit, Machines, Cells, Statuses
<1>7. BVC(0) \in Val(XLEN) /\ \A p \in Points : BVC(0).at[p] = 0
  BY <1>2, WordConst
<1>8. Const(CHAR_BIT, 0) \in Val(CHAR_BIT) /\ \A p \in Points : Const(CHAR_BIT, 0).at[p] = 0
  <2>1. PICK n \in Int : n = 0
    OBVIOUS
  <2>2. Made(Const(CHAR_BIT, n), CHAR_BIT, [p \in Points |-> n])
    BY SomeWidths, ConstMade
  <2> QED
    BY <1>2, <2>1, <2>2 DEF Made, Radix
<1>9. StateOK
  BY <1>1, <1>2, <1>7, <1>8 DEF StateOK, Statuses
<1>10. Common(m)
  <2>1. \A w \in WordAddresses : RefWord(m, w, 4) = 0
    <3>1. SUFFICES ASSUME NEW w \in WordAddresses PROVE RefWord(m, w, 4) = 0
      OBVIOUS
    <3>2. w \in Nat /\ w \in Cells /\ w + 1 \in Cells /\ w + 2 \in Cells /\ w + 3 \in Cells
      BY WordCells
    <3>3. \A b \in w .. w + 3 : b \in Cells
      BY <3>2
    <3>4. \A b \in w .. w + 3 : m.mem[b] = 0
      BY <1>6, <3>3
    <3> QED
      BY <1>6, <3>4, ZeroBytes
  <2>2. /\ \A k \in 0 .. 2 : CtrlStart + 4 * k \in WordAddresses
        /\ SensorStart \in WordAddresses /\ SensorStart + 4 \in WordAddresses
    <3>1. \A k \in 0 .. 2 : k = 0 \/ k = 1 \/ k = 2
      OBVIOUS
    <3>2. CtrlStart + 4 * 0 = CtrlStart /\ CtrlStart + 4 * 1 = CtrlStart + 4 /\ CtrlStart + 4 * 2 = CtrlStart + 8
      BY Layout
    <3> QED
      BY <3>1, <3>2 DEF WordAddresses
  <2> QED
    BY <1>1, <1>6, <2>1, <2>2 DEF Common
<1>11. ASSUME NEW p \in Points
       PROVE  Looks(p, m)
  BY <1>1, <1>6, <1>7, <1>8, ZeroReg DEF Looks, Cells
<1>12. ASSUME NEW i \in Inputs
       PROVE  Mirrors(i, i, m)
  BY <1>6, <1>9, <1>10, <1>11, ZeroReg DEF Mirrors, Shows
<1>13. Tracks
  BY <1>1, <1>5, <1>6, <1>12 DEF Tracks
<1>14. TracksCurrent
  <2>1. PICK c \in Inputs : c = current
    BY <1>1
  <2>2. Mirrors(0, c, m)
    BY <1>6, <1>9, <1>10, <1>11, <2>1, ZeroReg DEF Mirrors, Shows
  <2> QED
    BY <1>1, <1>5, <1>6, <2>1, <2>2 DEF TracksCurrent
<1> QED
  BY <1>3, <1>4, <1>13, <1>14 DEF FaithfulInv

\* FaithfulInv holds in every execution.
THEOREM FaithfulAlways == MCSpec => []FaithfulInv
BY FaithfulStart, FaithfulKept, PTL DEF MCSpec

\* The machine of each followed input, and the one of the current input.
LEMMA FollowedMachine ==
  ASSUME FaithfulInv, NEW i \in DOMAIN ref
  PROVE  /\ StateOK /\ Common(ref[i]) /\ Looks(i, ref[i]) /\ i \in Inputs
         /\ current \in DOMAIN ref /\ Looks(0, ref[current]) /\ Looks(current, ref[current])
<1>1. PICK m \in Machines : ref[i] = m /\ Mirrors(i, i, m)
  BY DEF FaithfulInv, Tracks
<1>2. PICK c \in Inputs, y \in Machines : c = current /\ ref[c] = y /\ Mirrors(0, c, y)
  BY DEF FaithfulInv, TracksCurrent
<1>3. c \in DOMAIN ref
  BY <1>2 DEF FaithfulInv, Domain
<1>4. Mirrors(c, c, y)
  BY <1>2, <1>3 DEF FaithfulInv, Tracks
<1> QED
  BY <1>1, <1>2, <1>3, <1>4 DEF Mirrors

\* For every instruction sequence, input and size of the machine, the registers of
\* the simulator hold, for each input that satisfies what was traced, what the
\* machine of the instruction set manual computes for that input.
THEOREM RegistersFaithful == MCSpec => []RegistersAreFaithful
<1>1. FaithfulInv => RegistersAreFaithful
  <2> SUFFICES ASSUME FaithfulInv, NEW r \in DOMAIN regs
               PROVE  /\ regs[r].at[0] = regs[r].at[current]
                      /\ \A i \in DOMAIN ref : regs[r].at[i] = ref[i].regs[r]
    BY DEF RegistersAreFaithful
  <2>1. current \in DOMAIN ref
    BY DEF FaithfulInv, Domain
  <2>2. r \in Regs
    BY <2>1, FollowedMachine DEF StateOK
  <2>3. \A i \in DOMAIN ref : Looks(i, ref[i])
    BY FollowedMachine
  <2>4. Looks(0, ref[current]) /\ Looks(current, ref[current])
    BY <2>1, FollowedMachine
  <2> QED
    BY <2>2, <2>3, <2>4 DEF Looks
<1> QED
  BY <1>1, FaithfulAlways, PTL

\* The same for every byte of memory, the words of the control peripheral and the
\* bounds of the sensor.
THEOREM MemoryFaithful == MCSpec => []MemoryIsFaithful
<1>1. FaithfulInv => MemoryIsFaithful
  <2> SUFFICES ASSUME FaithfulInv, NEW i \in DOMAIN ref
               PROVE  /\ \A b \in DOMAIN mem : mem[b].at[i] = ref[i].mem[b] /\ mem[b].at[0] = mem[b].at[current]
                      /\ \A k \in 0 .. 2 : ctrl[k] = RefWord(ref[i], CtrlStart + 4 * k, 4)
                      /\ sensor.lower = RefWord(ref[i], SensorStart, 4)
                      /\ sensor.upper = RefWord(ref[i], SensorStart + 4, 4)
    BY DEF MemoryIsFaithful
  <2>1. /\ StateOK /\ Common(ref[i]) /\ Looks(i, ref[i])
        /\ Looks(0, ref[current]) /\ Looks(current, ref[current])
    BY FollowedMachine
  <2>2. DOMAIN mem = Memory
    BY <2>1 DEF StateOK
  <2>3. \A b \in DOMAIN mem : mem[b].at[i] = ref[i].mem[b] /\ mem[b].at[0] = mem[b].at[current]
    BY <2>1, <2>2 DEF Looks
  <2> QED
    BY <2>1, <2>3 DEF Common
<1> QED
  BY <1>1, FaithfulAlways, PTL

\* An input that satisfies what was traced leaves the path of the execution only at a
\* concretised value: if it agrees on those, and so whenever nothing was concretised,
\* it has the same program counter, traps, end, CSR and sensor reads.  The input of
\* the execution never leaves it.
THEOREM PathDetermined == MCSpec => []PathIsDetermined
<1>1. FaithfulInv => PathIsDetermined
  <2> SUFFICES ASSUME FaithfulInv
               PROVE  PathIsDetermined
    OBVIOUS
  <2>1. DOMAIN ref = traced \cap concretised /\ current \in DOMAIN ref
    BY DEF FaithfulInv, Domain
  <2>2. \A i \in DOMAIN ref : Common(ref[i])
    BY FollowedMachine
  <2>3. \A i \in DOMAIN ref : Follows(i)
    BY <2>2 DEF Follows, Common
  <2> QED
    BY <2>1, <2>3 DEF PathIsDetermined
<1> QED
  BY <1>1, FaithfulAlways, PTL
=============================================================================
