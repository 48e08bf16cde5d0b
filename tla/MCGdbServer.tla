---------------------------- MODULE MCGdbServer ----------------------------
(***************************************************************************)
(* The stub and the packets that debuggers send it: continue, step, step   *)
(* one thread and continue the others, two actions for all threads, a      *)
(* thread that does not exist, and an action that is announced and not     *)
(* implemented.                                                            *)
(***************************************************************************)
EXTENDS GdbServer

Action(action, tid) == [action |-> action, tid |-> tid]

MCVConts == {<<Action("c", -1)>>, <<Action("s", 1), Action("c", -1)>>,
             <<Action("c", -1), Action("s", -1)>>, <<Action("s", 2)>>,
             <<Action("c", 1), Action("C", -1)>>}
=============================================================================
