----------------------------- MODULE ByteChannel -----------------------------
(***************************************************************************)
(* A bounded channel: bytes, numbered as they enter, leave in the order in *)
(* which they entered, each at most once; none is lost or made up inside.  *)
(***************************************************************************)
EXTENDS Integers, Sequences

CONSTANT Capacity

VARIABLES
    queue,    \* the bytes inside
    in,       \* the last byte that entered
    out       \* the last byte that left

vars == <<queue, in, out>>

Init == queue = <<>> /\ in = 0 /\ out = 0

Enter ==
    /\ Len(queue) < Capacity
    /\ queue' = Append(queue, in + 1)
    /\ in' = in + 1
    /\ UNCHANGED out

Leave ==
    /\ queue # <<>>
    /\ out' = Head(queue)
    /\ queue' = Tail(queue)
    /\ UNCHANGED in

Next == Enter \/ Leave

Spec == Init /\ [][Next]_vars

=============================================================================
