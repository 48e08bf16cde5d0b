----------------------------- MODULE MCLrScLoop -----------------------------
(***************************************************************************)
(* Harts that run the constrained LR/SC loop of the RISC-V specification   *)
(* on one word: LR_W, an instruction, SC_W, and back if SC_W failed.       *)
(***************************************************************************)
EXTENDS LrSc

CONSTANT Recomputes    \* the loop rewrites its address register after LR_W

VARIABLE pc     \* hart -> next instruction of the loop

Goto(h, l) == pc' = [pc EXCEPT ![h] = l]

LoopInit == Init /\ ~ debug_mode /\ pc = [h \in Harts |-> "lr"]

LoopLr(h) == pc[h] = "lr" /\ (\E a \in Addrs : Lr(h, a)) /\ Goto(h, "calc")

\* The instruction in between recomputes the address register or leaves it alone.
LoopCalc(h) ==
    /\ pc[h] = "calc"
    /\ Plain(h)
    /\ kept'[h] = ~ Recomputes
    /\ Goto(h, "sc")

LoopSc(h) ==
    /\ pc[h] = "sc"
    /\ Sc(h, lr_addr[h])
    /\ Goto(h, IF result'[h] = "ok" THEN "done" ELSE "lr")

LoopStep(h) ==
    \/ LoopLr(h) \/ LoopCalc(h) \/ LoopSc(h)
    \/ pc[h] = "done" /\ Wfi(h) /\ UNCHANGED pc

LoopNext ==
    \/ \E h \in Harts : LoopStep(h)
    \/ \E p \in Processes : Dispatch(p) /\ UNCHANGED pc
    \/ \E a \in Addrs : DmaWrite(a) /\ UNCHANGED pc

\* A running hart goes on, and the kernel, which advances time quantum by
\* quantum, runs every hart again and again.
LoopSpec ==
    /\ LoopInit /\ [][LoopNext]_<<vars, pc>>
    /\ \A h \in Harts : WF_<<vars, pc>>(LoopStep(h))
    /\ \A h \in Harts : SF_<<vars, pc>>(Dispatch(h) /\ UNCHANGED pc)
    /\ WF_<<vars, pc>>(\E a \in Addrs : DmaWrite(a) /\ UNCHANGED pc)

\* The window exists "to cover the RISC-V forward progress property": every hart
\* leaves a constrained LR/SC loop.
ForwardProgress == \A h \in Harts : <>(pc[h] = "done")

=============================================================================
