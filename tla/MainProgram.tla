---------------------------- MODULE MainProgram ----------------------------
(***************************************************************************)
(* What a program may assume of the machine it runs on: its instructions   *)
(* are executed one after the other, each exactly once, in the mode and    *)
(* with the interrupt enable it was started with, as if there were no      *)
(* interrupts and no traps.                                                *)
(***************************************************************************)
EXTENDS Integers

CONSTANTS
  Start, Length,   \* 4-byte instructions, of which the last jumps to Start
  Mode, Enabled

VARIABLES at, mode, enabled

Successor(a) == IF a = Start + 4 * (Length - 1) THEN Start ELSE a + 4

Init ==
  /\ at = Start
  /\ mode = Mode
  /\ enabled = Enabled

Execute ==
  /\ at' = Successor(at)
  /\ UNCHANGED <<mode, enabled>>

Spec == Init /\ [][Execute]_<<at, mode, enabled>>
=============================================================================
