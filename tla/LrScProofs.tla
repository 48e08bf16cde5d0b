----------------------------- MODULE LrScProofs -----------------------------
(***************************************************************************)
(* Proofs about LrSc, for any number of harts and addresses and any window *)
(* length.  The inductive invariant adds three facts to the types: the     *)
(* lock is held only inside an open window, the word reserved by the       *)
(* holder was written by nobody else, and a hart in a constrained sequence *)
(* holds the lock.                                                         *)
(***************************************************************************)
EXTENDS LrSc, TLAPS

HeldInWindow == locked => lr_sc_counter[owner] > 0

NotIntruded == locked => owner \notin intruded

ConstrainedHolds ==
    \A h \in Harts : constrained[h] =>
        /\ is_locked(h) /\ lr_sc_counter[h] > 0
        /\ result[h] # "fail"

Inv == TypeOK /\ HeldInWindow /\ NotIntruded /\ ConstrainedHolds

-----------------------------------------------------------------------------
\* The end of an instruction keeps the types of what it assigns.
LEMMA WindowTypes ==
    ASSUME TypeOK, NEW h \in Harts, NEW c \in 0..Window, NEW l \in BOOLEAN,
           NEW k \in BOOLEAN, UpdateWindow(h, c, l, k)
    PROVE  /\ lr_sc_counter' \in [Harts -> 0..Window]
           /\ locked' \in BOOLEAN
           /\ constrained' \in [Harts -> BOOLEAN]
           /\ UNCHANGED debug_mode
<1>1. CountDown(c) \in 0..Window
    BY LrScAssumption DEF CountDown
<1>2. lr_sc_counter' \in [Harts -> 0..Window]
    BY <1>1 DEF UpdateWindow, TypeOK
<1>3. constrained' \in [Harts -> BOOLEAN]
    <2>1. (k /\ CountDown(c) > 0) \in BOOLEAN
        OBVIOUS
    <2> QED BY <2>1 DEF UpdateWindow, TypeOK
<1> QED BY <1>2, <1>3 DEF UpdateWindow

\* The same for an instruction in a run that goes on.
LEMMA UpdateTypes ==
    ASSUME TypeOK, NEW h \in Harts, NEW c \in 0..Window, NEW l \in BOOLEAN,
           NEW k \in BOOLEAN, performance_and_sync_update(h, c, l, k)
    PROVE  /\ lr_sc_counter' \in [Harts -> 0..Window]
           /\ locked' \in BOOLEAN
           /\ constrained' \in [Harts -> BOOLEAN]
           /\ running' \in Processes \cup {Kernel, Ended}
           /\ UNCHANGED debug_mode
BY WindowTypes DEF performance_and_sync_update, Processes

\* The types are preserved by every step.
LEMMA TypeStep == TypeOK /\ [Next]_vars => TypeOK'
<1> SUFFICES ASSUME TypeOK, [Next]_vars PROVE TypeOK'
    OBVIOUS
<1> USE LrScAssumption DEF TypeOK, Processes
<1>1. ASSUME NEW p \in Processes, Dispatch(p) PROVE TypeOK'
    BY <1>1 DEF Dispatch, bus
<1>2. ASSUME NEW h \in Harts, Block(h) PROVE TypeOK'
    BY <1>2 DEF Block, WaitUntilUnlocked, bus
<1>3. ASSUME NEW h \in Harts, Plain(h) PROVE TypeOK'
    <2>1. constrained[h] \in BOOLEAN /\ kept' \in [Harts -> BOOLEAN]
        BY <1>3 DEF Plain
    <2> QED BY <1>3, <2>1, UpdateTypes DEF Plain
<1>4. ASSUME NEW h \in Harts, Trap(h) PROVE TypeOK'
    BY <1>4 DEF Trap, performance_and_sync_update, UpdateWindow, CountDown
<1>5. ASSUME NEW h \in Harts, Wfi(h) PROVE TypeOK'
    BY <1>5 DEF Wfi, release_lr_sc_reservation, unlock
<1>6. ASSUME NEW h \in Harts, NEW a \in Addrs, Lr(h, a) PROVE TypeOK'
    <2>1. OpenWindow(lr_sc_counter[h]) \in 1..Window
        BY <1>6 DEF OpenWindow
    <2> QED BY <1>6, <2>1 DEF Lr, performance_and_sync_update, UpdateWindow, CountDown
<1>7. ASSUME NEW h \in Harts, NEW a \in Addrs, Sc(h, a) PROVE TypeOK'
    BY <1>7 DEF Sc, Write, performance_and_sync_update, UpdateWindow,
       CountDown
<1>8. ASSUME NEW h \in Harts, NEW a \in Addrs, Amo(h, a) PROVE TypeOK'
    BY <1>8 DEF Amo, Write, performance_and_sync_update, UpdateWindow,
       CountDown
<1>9. ASSUME NEW h \in Harts, NEW a \in Addrs, Store(h, a) PROVE TypeOK'
    BY <1>9 DEF Store, Write, performance_and_sync_update, UpdateWindow,
       CountDown
<1>10. ASSUME NEW h \in Harts, Wake(h) \/ Breakpoint(h) \/ Resume(h) \/ Abort(h)
       PROVE  TypeOK'
    BY <1>10 DEF Wake, Breakpoint, Resume, Abort, bus
<1>11. ASSUME NEW a \in Addrs, DmaWrite(a) PROVE TypeOK'
    BY <1>11 DEF DmaWrite, Write, bus
<1>12. CASE DmaBlock
    BY <1>12 DEF DmaBlock, WaitUntilUnlocked, bus
<1>13. CASE UNCHANGED vars
    BY <1>13 DEF vars
<1>14. ASSUME NEW h \in Harts, Ebreak(h) PROVE TypeOK'
    <2>1. /\ lr_sc_counter[h] \in 0..Window /\ 0 \in 0..Window
          /\ locked \in BOOLEAN /\ release_lr_sc_reservation(h) \in BOOLEAN
        BY DEF release_lr_sc_reservation, unlock
    <2>2. /\ lr_sc_counter' \in [Harts -> 0..Window]
          /\ locked' \in BOOLEAN
          /\ constrained' \in [Harts -> BOOLEAN]
          /\ UNCHANGED debug_mode
        <3> HIDE DEF TypeOK
        <3> QED BY <1>14, <2>1, WindowTypes DEF Ebreak
    <2> QED BY <1>14, <2>2 DEF Ebreak
<1> QED
    BY <1>1, <1>2, <1>3, <1>4, <1>5, <1>6, <1>7, <1>8, <1>9, <1>10, <1>11, <1>12,
       <1>13, <1>14 DEF Next, Instruction, Halted

-----------------------------------------------------------------------------
\* What the end of an instruction does to the lock and the counter of hart h.
LEMMA WindowEffect ==
    ASSUME TypeOK, NEW h \in Harts, NEW c \in 0..Window, NEW l \in BOOLEAN,
           NEW k \in BOOLEAN, UpdateWindow(h, c, l, k)
    PROVE  /\ locked' = (l /\ ~ (c = 1 /\ owner' = h))
           /\ c > 1 => lr_sc_counter'[h] > 0
           /\ constrained'[h] => k /\ c > 1
           /\ \A g \in Harts \ {h} :
                 /\ lr_sc_counter'[g] = lr_sc_counter[g]
                 /\ constrained'[g] = constrained[g]
<1>1. /\ c > 1 => lr_sc_counter'[h] > 0
      /\ \A g \in Harts \ {h} : lr_sc_counter'[g] = lr_sc_counter[g]
    BY LrScAssumption DEF UpdateWindow, CountDown, TypeOK
<1>2. /\ constrained'[h] => k /\ c > 1
      /\ \A g \in Harts \ {h} : constrained'[g] = constrained[g]
    <2>1. CountDown(c) > 0 <=> c > 1
        BY LrScAssumption DEF CountDown
    <2>2. constrained' = [constrained EXCEPT ![h] = k /\ CountDown(c) > 0]
        BY DEF UpdateWindow
    <2>3. constrained'[h] = (k /\ CountDown(c) > 0)
        BY <2>2, Zenon DEF TypeOK
    <2>4. \A g \in Harts \ {h} : constrained'[g] = constrained[g]
        BY <2>2 DEF TypeOK
    <2> QED BY <2>1, <2>3, <2>4
<1>3. locked' = (l /\ ~ (c = 1 /\ owner' = h))
    BY DEF UpdateWindow, Expires
<1> QED BY <1>1, <1>2, <1>3

\* In a run that goes on the hart gives way only outside the window.
LEMMA UpdateEffect ==
    ASSUME TypeOK, NEW h \in Harts, NEW c \in 0..Window, NEW l \in BOOLEAN,
           NEW k \in BOOLEAN, performance_and_sync_update(h, c, l, k)
    PROVE  /\ locked' = (l /\ ~ (c = 1 /\ owner' = h))
           /\ c > 1 => lr_sc_counter'[h] > 0
           /\ constrained'[h] => k /\ c > 1
           /\ \A g \in Harts \ {h} :
                 /\ lr_sc_counter'[g] = lr_sc_counter[g]
                 /\ constrained'[g] = constrained[g]
           /\ running' # h => c < 2
<1>1. UpdateWindow(h, c, l, k)
    BY DEF performance_and_sync_update
<1>2. running' # h => c < 2
    BY DEF performance_and_sync_update, MaySync, CountDown
<1> QED BY <1>1, <1>2, WindowEffect

\* What EBREAK leaves of the lock: all of it, or nothing if an interrupt is taken.
LEMMA EbreakEffect ==
    ASSUME TypeOK, NEW h \in Harts, Ebreak(h)
    PROVE  /\ locked' => /\ locked /\ owner = h
                         /\ lr_sc_counter[h] # 1
                         /\ lr_sc_counter[h] > 1 => lr_sc_counter'[h] > 0
           /\ ~ constrained'[h]
           /\ \A g \in Harts \ {h} :
                 /\ lr_sc_counter'[g] = lr_sc_counter[g]
                 /\ constrained'[g] = constrained[g]
<1> DEFINE c == lr_sc_counter[h]
<1>1. /\ HasAccessRights(h) /\ owner' = owner
      /\ \/ UpdateWindow(h, c, locked, FALSE)
         \/ UpdateWindow(h, 0, unlock(h), FALSE)
    BY DEF Ebreak, release_lr_sc_reservation
<1>2. /\ c \in 0..Window /\ 0 \in 0..Window
      /\ locked \in BOOLEAN /\ unlock(h) \in BOOLEAN
    BY LrScAssumption DEF TypeOK, unlock
<1>3. CASE UpdateWindow(h, c, locked, FALSE)
    <2> HIDE DEF c
    <2>1. /\ locked' = (locked /\ ~ (c = 1 /\ owner' = h))
          /\ c > 1 => lr_sc_counter'[h] > 0
          /\ constrained'[h] => FALSE
          /\ \A g \in Harts \ {h} : /\ lr_sc_counter'[g] = lr_sc_counter[g]
                                    /\ constrained'[g] = constrained[g]
        BY <1>2, <1>3, WindowEffect
    <2> QED BY <1>1, <2>1 DEF HasAccessRights, c
<1>4. CASE UpdateWindow(h, 0, unlock(h), FALSE)
    <2>1. /\ locked' = (unlock(h) /\ ~ (0 = 1 /\ owner' = h))
          /\ constrained'[h] => FALSE
          /\ \A g \in Harts \ {h} : /\ lr_sc_counter'[g] = lr_sc_counter[g]
                                    /\ constrained'[g] = constrained[g]
        BY <1>2, <1>4, WindowEffect
    <2>2. ~ unlock(h)
        BY <1>1 DEF HasAccessRights, unlock
    <2> QED BY <2>1, <2>2
<1> QED BY <1>1, <1>3, <1>4

\* The inductive step.
LEMMA InvStep == Inv /\ [Next]_vars => Inv'
<1> SUFFICES ASSUME Inv, [Next]_vars PROVE Inv'
    OBVIOUS
<1>0. TypeOK /\ TypeOK'
    BY TypeStep DEF Inv
<1> DEFINE Rest == HeldInWindow /\ NotIntruded /\ ConstrainedHolds
<1> SUFFICES Rest'
    BY <1>0 DEF Inv
<1>1. Rest
    BY DEF Inv
<1> USE <1>0, <1>1, LrScAssumption
        DEF HeldInWindow, NotIntruded, ConstrainedHolds, is_locked
<1>2. ASSUME NEW p \in Processes, Dispatch(p) PROVE Rest'
    BY <1>2 DEF Dispatch, bus
<1>3. ASSUME NEW h \in Harts, Block(h) PROVE Rest'
    BY <1>3 DEF Block, WaitUntilUnlocked, bus
<1>4. ASSUME NEW h \in Harts, Plain(h) PROVE Rest'
    <2>1. lr_sc_counter[h] \in 0..Window /\ locked \in BOOLEAN
          /\ constrained[h] \in BOOLEAN
        BY DEF TypeOK
    <2>2. performance_and_sync_update(h, lr_sc_counter[h], locked, constrained[h])
        BY <1>4 DEF Plain
    <2>3. UNCHANGED <<owner, lr_addr, mode, result, intruded>> /\ HasAccessRights(h)
        BY <1>4 DEF Plain
    <2>5. /\ locked' = (locked /\ ~ (lr_sc_counter[h] = 1 /\ owner' = h))
          /\ lr_sc_counter[h] > 1 => lr_sc_counter'[h] > 0
          /\ constrained'[h] => constrained[h] /\ lr_sc_counter[h] > 1
          /\ \A g \in Harts \ {h} : /\ lr_sc_counter'[g] = lr_sc_counter[g]
                                    /\ constrained'[g] = constrained[g]
        BY <2>1, <2>2, UpdateEffect
    <2> QED BY <2>1, <2>3, <2>5 DEF HasAccessRights, TypeOK
<1>5. ASSUME NEW h \in Harts, Trap(h) PROVE Rest'
    <2>1. unlock(h) \in BOOLEAN
        BY DEF unlock
    <2>2. UNCHANGED <<owner, lr_addr, kept, mode, result, intruded>> /\ HasAccessRights(h)
        BY <1>5 DEF Trap
    <2>3. /\ locked' = unlock(h)
          /\ ~ constrained'[h]
          /\ \A g \in Harts \ {h} : /\ lr_sc_counter'[g] = lr_sc_counter[g]
                                    /\ constrained'[g] = constrained[g]
        <3>1. performance_and_sync_update(h, 0, unlock(h), FALSE)
            BY <1>5 DEF Trap, release_lr_sc_reservation
        <3>2. 0 \in 0..Window
            OBVIOUS
        <3>3. /\ locked' = (unlock(h) /\ ~ (0 = 1 /\ owner' = h))
              /\ constrained'[h] => FALSE /\ 0 > 1
              /\ \A g \in Harts \ {h} : /\ lr_sc_counter'[g] = lr_sc_counter[g]
                                        /\ constrained'[g] = constrained[g]
            BY <2>1, <3>1, <3>2, UpdateEffect
        <3> QED BY <2>1, <3>3
    <2> QED BY <2>2, <2>3 DEF HasAccessRights, unlock, TypeOK
<1>6. ASSUME NEW h \in Harts, Wfi(h) PROVE Rest'
    BY <1>6 DEF Wfi, release_lr_sc_reservation, unlock, HasAccessRights, TypeOK
<1>7. ASSUME NEW h \in Harts, NEW a \in Addrs, Lr(h, a) PROVE Rest'
    <2> DEFINE c == OpenWindow(lr_sc_counter[h])
    <2>1. c \in 1..Window
        BY DEF OpenWindow, TypeOK
    <2>2. /\ locked' = ~ (c = 1 /\ owner' = h)
          /\ c > 1 => lr_sc_counter'[h] > 0
          /\ constrained'[h] => c > 1
          /\ \A g \in Harts \ {h} : /\ lr_sc_counter'[g] = lr_sc_counter[g]
                                    /\ constrained'[g] = constrained[g]
        <3>1. performance_and_sync_update(h, c, TRUE, lr_sc_counter[h] = 0)
            BY <1>7 DEF Lr
        <3>2. c \in 0..Window /\ (lr_sc_counter[h] = 0) \in BOOLEAN
            BY <2>1
        <3> HIDE DEF c
        <3> QED BY <3>1, <3>2, UpdateEffect
    <2>3. /\ HasAccessRights(h) /\ owner' = h /\ intruded' = intruded \ {h}
          /\ result' = [result EXCEPT ![h] = "none"]
          /\ kept' = [kept EXCEPT ![h] = TRUE]
        BY <1>7 DEF Lr
    <2> HIDE DEF c
    <2> QED BY <2>1, <2>2, <2>3 DEF HasAccessRights, TypeOK
<1>8. ASSUME NEW h \in Harts, NEW a \in Addrs, Sc(h, a) PROVE Rest'
    <2>1. unlock(h) \in BOOLEAN
        BY DEF unlock
    <2>2. /\ locked' = unlock(h)
          /\ ~ constrained'[h]
          /\ \A g \in Harts \ {h} : /\ lr_sc_counter'[g] = lr_sc_counter[g]
                                    /\ constrained'[g] = constrained[g]
        <3>1. performance_and_sync_update(h, 0, unlock(h), FALSE)
            BY <1>8 DEF Sc
        <3>2. 0 \in 0..Window
            OBVIOUS
        <3>3. /\ locked' = (unlock(h) /\ ~ (0 = 1 /\ owner' = h))
              /\ constrained'[h] => FALSE /\ 0 > 1
              /\ \A g \in Harts \ {h} : /\ lr_sc_counter'[g] = lr_sc_counter[g]
                                        /\ constrained'[g] = constrained[g]
            BY <2>1, <3>1, <3>2, UpdateEffect
        <3> QED BY <2>1, <3>3
    <2>3. /\ HasAccessRights(h) /\ UNCHANGED <<owner, kept>>
          /\ \A g \in Harts \ {h} : result'[g] = result[g]
        BY <1>8 DEF Sc, TypeOK
    <2> QED BY <2>2, <2>3 DEF HasAccessRights, unlock, TypeOK
<1>9. ASSUME NEW h \in Harts, NEW a \in Addrs, Amo(h, a) PROVE Rest'
    <2>1. lr_sc_counter[h] \in 0..Window
        BY DEF TypeOK
    <2>2. /\ locked' = FALSE
          /\ ~ constrained'[h]
          /\ \A g \in Harts \ {h} : constrained'[g] = constrained[g]
        BY <1>9, <2>1, UpdateEffect DEF Amo
    <2> QED BY <1>9, <2>2 DEF Amo, HasAccessRights, TypeOK
<1>10. ASSUME NEW h \in Harts, NEW a \in Addrs, Store(h, a) PROVE Rest'
    <2>1. unlock(h) \in BOOLEAN /\ lr_sc_counter[h] \in 0..Window
        BY DEF unlock, TypeOK
    <2>2. /\ ~ constrained'[h]
          /\ locked' = (unlock(h) /\ ~ (lr_sc_counter[h] = 1 /\ owner' = h))
          /\ \A g \in Harts \ {h} : constrained'[g] = constrained[g]
        BY <1>10, <2>1, UpdateEffect DEF Store
    <2> QED BY <1>10, <2>2 DEF Store, HasAccessRights, unlock, TypeOK
<1>11. ASSUME NEW h \in Harts, Wake(h) \/ Breakpoint(h) \/ Resume(h) \/ Abort(h)
       PROVE  Rest'
    BY <1>11 DEF Wake, Breakpoint, Resume, Abort, bus
<1>12. ASSUME NEW a \in Addrs, DmaWrite(a) PROVE Rest'
    BY <1>12 DEF DmaWrite, DmaMayWrite, Write, bus
<1>13. CASE DmaBlock
    BY <1>13 DEF DmaBlock, WaitUntilUnlocked, bus
<1>14. CASE UNCHANGED vars
    BY <1>14 DEF vars
<1>15. ASSUME NEW h \in Harts, Ebreak(h) PROVE Rest'
    <2>1. UNCHANGED <<owner, result, intruded>> /\ HasAccessRights(h)
        BY <1>15 DEF Ebreak
    <2>2. lr_sc_counter[h] \in 0..Window
        BY DEF TypeOK
    <2> QED BY <1>15, <2>1, <2>2, EbreakEffect DEF HasAccessRights, TypeOK
<1> QED
    BY <1>2, <1>3, <1>4, <1>5, <1>6, <1>7, <1>8, <1>9, <1>10, <1>11, <1>12, <1>13,
       <1>14, <1>15 DEF Next, Instruction, Halted

\* Inv holds in every reachable state.
LEMMA Invariance == Spec => []Inv
<1>1. Init => Inv
    <2> SUFFICES ASSUME Init PROVE Inv
        OBVIOUS
    <2>1. TypeOK
        <3>1. kept \in [Harts -> BOOLEAN] /\ constrained \in [Harts -> BOOLEAN]
            BY Zenon DEF Init
        <3>2. mode \in [Processes -> {"ready", "blocked", "wfi", "stopped"}]
            BY Zenon DEF Init
        <3>3. result \in [Harts -> {"none", "ok", "fail", "mismatch"}]
            BY Zenon DEF Init
        <3>4. lr_sc_counter \in [Harts -> 0..Window]
            BY LrScAssumption DEF Init
        <3> QED BY <3>1, <3>2, <3>3, <3>4 DEF Init, TypeOK
    <2>2. ConstrainedHolds
        BY DEF Init, ConstrainedHolds
    <2> QED BY <2>1, <2>2 DEF Init, Inv, HeldInWindow, NotIntruded
<1> QED BY <1>1, InvStep, PTL DEF Spec

-----------------------------------------------------------------------------
\* The lock and the LR/SC state of every hart keep their types.
THEOREM LrScTypeCorrect == Spec => []TypeOK
BY Invariance, PTL DEF Inv

\* A successful SC_W is atomic with its LR_W, whoever else accesses the bus and
\* wherever a debugger stops the harts.
THEOREM Atomicity == Spec => ScIsAtomic
<1> DEFINE A == \A h \in Harts :
                   result'[h] = "ok" /\ result[h] # "ok" => h \notin intruded
<1>1. Inv /\ [Next]_vars => [A]_vars
    <2> SUFFICES ASSUME Inv, Next, NEW g \in Harts,
                        result'[g] = "ok", result[g] # "ok"
                 PROVE  g \notin intruded
        OBVIOUS
    <2>1. TypeOK /\ NotIntruded
        BY DEF Inv
    <2>2. PICK h \in Harts : \E a \in Addrs : Lr(h, a) \/ Sc(h, a)
        BY DEF Next, Instruction, Dispatch, Block, WaitUntilUnlocked, Plain, Trap,
               Wfi, Ebreak, Amo, Store, Wake, Breakpoint, Resume, Abort, DmaWrite,
               DmaBlock, Halted, vars
    <2>3. PICK a \in Addrs : Lr(h, a) \/ Sc(h, a)
        BY <2>2
    <2>4. CASE Lr(h, a)
        BY <2>1, <2>4 DEF Lr, TypeOK
    <2>5. CASE Sc(h, a)
        BY <2>1, <2>5 DEF Sc, is_locked, NotIntruded, TypeOK
    <2> QED BY <2>3, <2>4, <2>5
<1> QED BY <1>1, Invariance, PTL DEF Spec, ScIsAtomic

\* A constrained LR/SC sequence whose address register is left alone succeeds at
\* its first SC_W, for every length of the window.
THEOREM ConstrainedSuccess == Spec => ConstrainedScSucceeds
<1> DEFINE A == \A h \in Harts :
                   constrained[h] /\ kept[h] => result'[h] # "fail"
<1>1. Inv /\ [Next]_vars => [A]_vars
    <2> SUFFICES ASSUME Inv, Next, NEW g \in Harts, constrained[g], kept[g]
                 PROVE  result'[g] # "fail"
        OBVIOUS
    <2>1. TypeOK /\ is_locked(g) /\ kept[g] /\ result[g] # "fail"
        BY DEF Inv, ConstrainedHolds
    <2>2. CASE UNCHANGED result
        BY <2>1, <2>2
    <2>3. CASE ~ UNCHANGED result
        <3>1. PICK h \in Harts : \E a \in Addrs : Lr(h, a) \/ Sc(h, a)
            BY <2>3 DEF Next, Instruction, Dispatch, Block, WaitUntilUnlocked, Plain,
               Trap, Wfi, Ebreak, Amo, Store, Wake, Breakpoint, Resume, Abort,
               DmaWrite, DmaBlock, Halted, vars
        <3>2. PICK a \in Addrs : Lr(h, a) \/ Sc(h, a)
            BY <3>1
        <3>3. CASE Lr(h, a)
            BY <2>1, <3>3 DEF Lr, TypeOK
        <3>4. CASE Sc(h, a)
            BY <2>1, <3>4 DEF Sc, SameAddress, is_locked, TypeOK
        <3> QED BY <3>2, <3>3, <3>4
    <2> QED BY <2>2, <2>3
<1> QED BY <1>1, Invariance, PTL DEF Spec, ConstrainedScSucceeds

-----------------------------------------------------------------------------
\* Without a debugger the holder of the lock is running, or it executed EBREAK;
\* only then does anybody wait.  The running process is ready.
HolderRuns ==
    /\ locked => running = owner \/ mode[owner] = "stopped"
    /\ \A p \in Processes : mode[p] = "blocked" => locked /\ mode[owner] = "stopped"
    /\ running \in Processes => mode[running] = "ready"

\* Whoever may access the bus and runs finds nobody waiting.
LEMMA RunningHart ==
    ASSUME TypeOK, HolderRuns, NEW h \in Harts, running = h, HasAccessRights(h)
    PROVE  /\ mode[h] = "ready" /\ (locked => owner = h)
           /\ \A p \in Processes : mode[p] # "blocked"
BY DEF HolderRuns, HasAccessRights, Processes, TypeOK

\* The step of HolderRuns.
LEMMA HolderStep ==
    ASSUME ~ debug_mode, Inv, HolderRuns, [Next]_vars
    PROVE  HolderRuns'
<1>0. TypeOK /\ TypeOK' /\ HeldInWindow
    BY TypeStep DEF Inv
<1>a. Kernel \notin Processes /\ Ended \notin Processes
    BY LrScAssumption DEF Processes, Kernel, Ended, Dma
<1> USE <1>0, <1>a, LrScAssumption DEF HolderRuns, Processes
<1>1. ASSUME NEW p \in Processes, Dispatch(p) PROVE HolderRuns'
    <2>1. /\ running = Kernel /\ running' = p
          /\ mode' = [mode EXCEPT ![p] = "ready"]
          /\ mode[p] = "ready" \/ mode[p] = "blocked"
          /\ UNCHANGED <<locked, owner>>
        BY <1>1 DEF Dispatch, bus
    <2>2. owner \in Processes /\ owner # Kernel
        BY DEF TypeOK
    <2>3. locked => mode[owner] = "stopped" /\ owner # p
        BY <2>1, <2>2
    <2> QED BY <2>1, <2>2, <2>3 DEF TypeOK
<1>2. ASSUME NEW h \in Harts, Block(h) PROVE HolderRuns'
    <2>1. /\ running = h /\ locked /\ owner # h
          /\ mode' = [mode EXCEPT ![h] = "blocked"] /\ running' = Kernel
          /\ UNCHANGED <<locked, owner>>
        BY <1>2 DEF Block, HasAccessRights, WaitUntilUnlocked, bus
    <2> QED BY <2>1 DEF TypeOK
<1>3. ASSUME NEW h \in Harts, NEW c \in 0..Window, NEW l \in BOOLEAN,
             NEW k \in BOOLEAN, performance_and_sync_update(h, c, l, k),
             l /\ owner' = h => c > 0, l => owner' = h, UNCHANGED mode,
             running = h, HasAccessRights(h)
      PROVE  HolderRuns'
    <2>1. /\ locked' = (l /\ ~ (c = 1 /\ owner' = h))
          /\ running' # h => c < 2
        BY <1>3, UpdateEffect
    <2>2. ASSUME locked' PROVE running' = owner'
        <3>1. l /\ owner' = h /\ c # 1
            BY <1>3, <2>1, <2>2
        <3>2. c > 0 /\ c \in Nat
            BY <1>3, <3>1
        <3>3. ~ (c < 2)
            BY <3>1, <3>2
        <3> QED BY <2>1, <3>1, <3>3
    <2>3. mode' = mode /\ running' \in {h, Kernel}
        BY <1>3 DEF performance_and_sync_update
    <2>4. mode[h] = "ready" /\ \A p \in Processes : mode[p] # "blocked"
        BY <1>3, RunningHart
    <2> QED BY <2>2, <2>3, <2>4
<1>4. ASSUME NEW h \in Harts, Plain(h) PROVE HolderRuns'
    <2>1. lr_sc_counter[h] \in 0..Window /\ locked \in BOOLEAN
          /\ constrained[h] \in BOOLEAN
        BY DEF TypeOK
    <2>2. /\ performance_and_sync_update(h, lr_sc_counter[h], locked, constrained[h])
          /\ UNCHANGED <<owner, mode>> /\ running = h /\ HasAccessRights(h)
        BY <1>4 DEF Plain
    <2>3. locked => owner' = h /\ lr_sc_counter[h] > 0
        BY <2>2 DEF HeldInWindow, HasAccessRights
    <2> QED BY <1>3, <2>1, <2>2, <2>3
<1>5. ASSUME NEW h \in Harts, Trap(h) \/ \E a \in Addrs : Sc(h, a) PROVE HolderRuns'
    <2>1. /\ performance_and_sync_update(h, 0, unlock(h), FALSE)
          /\ UNCHANGED <<owner, mode>> /\ running = h /\ HasAccessRights(h)
        BY <1>5 DEF Trap, Sc, release_lr_sc_reservation
    <2>2. unlock(h) = FALSE
        BY <2>1 DEF unlock, HasAccessRights
    <2>3. performance_and_sync_update(h, 0, FALSE, FALSE)
        BY <2>1, <2>2, Zenon
    <2>4. 0 \in 0..Window
        OBVIOUS
    <2> QED BY <1>3, <2>1, <2>3, <2>4
<1>6. ASSUME NEW h \in Harts, Wfi(h) PROVE HolderRuns'
    <2>1. /\ running = h /\ HasAccessRights(h) /\ running' = Kernel
          /\ locked' = unlock(h) /\ mode' = [mode EXCEPT ![h] = "wfi"]
        BY <1>6 DEF Wfi, release_lr_sc_reservation
    <2>2. \A p \in Processes : mode[p] # "blocked"
        BY <2>1, RunningHart
    <2> QED BY <2>1, <2>2 DEF unlock, HasAccessRights, TypeOK
<1>7. ASSUME NEW h \in Harts, NEW a \in Addrs, Lr(h, a) PROVE HolderRuns'
    <2> DEFINE c == OpenWindow(lr_sc_counter[h])
    <2>1. c \in 1..Window
        BY DEF OpenWindow, TypeOK
    <2>2. /\ performance_and_sync_update(h, c, TRUE, lr_sc_counter[h] = 0)
          /\ owner' = h /\ UNCHANGED mode /\ running = h /\ HasAccessRights(h)
        BY <1>7 DEF Lr
    <2>3. c \in 0..Window /\ (lr_sc_counter[h] = 0) \in BOOLEAN /\ c > 0
        BY <2>1
    <2> HIDE DEF c
    <2> QED BY <1>3, <2>2, <2>3
<1>8. ASSUME NEW h \in Harts, NEW a \in Addrs, Amo(h, a) PROVE HolderRuns'
    <2>1. /\ performance_and_sync_update(h, lr_sc_counter[h], FALSE, FALSE)
          /\ UNCHANGED mode /\ lr_sc_counter[h] \in 0..Window
          /\ running = h /\ HasAccessRights(h)
        BY <1>8 DEF Amo, TypeOK
    <2> QED BY <1>3, <2>1
<1>9. ASSUME NEW h \in Harts, NEW a \in Addrs, Store(h, a) PROVE HolderRuns'
    <2>1. /\ performance_and_sync_update(h, lr_sc_counter[h], unlock(h), FALSE)
          /\ UNCHANGED mode /\ running = h /\ lr_sc_counter[h] \in 0..Window
          /\ HasAccessRights(h)
        BY <1>9 DEF Store, TypeOK
    <2>2. unlock(h) = FALSE
        BY <2>1 DEF unlock, HasAccessRights
    <2>3. performance_and_sync_update(h, lr_sc_counter[h], FALSE, FALSE)
        BY <2>1, <2>2
    <2> QED BY <1>3, <2>1, <2>3
<1>10. ASSUME NEW h \in Harts, Wake(h) PROVE HolderRuns'
    BY <1>10 DEF Wake, bus, TypeOK
<1>11. ASSUME NEW a \in Addrs, DmaWrite(a) PROVE HolderRuns'
    BY <1>11 DEF DmaWrite, DmaMayWrite, bus
<1>12. CASE DmaBlock
    <2>1. /\ running = Dma /\ locked /\ owner # Dma
          /\ mode' = [mode EXCEPT ![Dma] = "blocked"] /\ running' = Kernel
          /\ UNCHANGED <<locked, owner>>
        BY <1>12 DEF DmaBlock, WaitUntilUnlocked, bus, TypeOK
    <2> QED BY <2>1 DEF TypeOK
<1>13. CASE UNCHANGED vars
    BY <1>13 DEF vars
<1>14. ASSUME NEW h \in Harts, Ebreak(h) PROVE HolderRuns'
    <2>1. /\ running = h /\ HasAccessRights(h) /\ running' = Kernel
          /\ mode' = [mode EXCEPT ![h] = "stopped"] /\ owner' = owner
        BY <1>14 DEF Ebreak
    <2>2. \A p \in Processes : mode[p] # "blocked"
        BY <2>1, RunningHart
    <2>3. locked' => owner = h
        BY <1>14, EbreakEffect
    <2> QED BY <2>1, <2>2, <2>3 DEF TypeOK
<1>15. ASSUME NEW h \in Harts, Abort(h) PROVE HolderRuns'
    <2>1. /\ running = Kernel /\ running' = Ended
          /\ UNCHANGED <<locked, owner, mode>>
        BY <1>15 DEF Abort, bus
    <2> QED BY <2>1 DEF TypeOK
<1> QED
    BY <1>1, <1>2, <1>4, <1>5, <1>6, <1>7, <1>8, <1>9, <1>10, <1>11, <1>12, <1>13,
       <1>14, <1>15 DEF Next, Instruction, Breakpoint, Resume, Halted

\* Without a debugger a process waits for the bus lock only if its holder executed
\* EBREAK inside the window.
THEOREM WaitsForEbreakOnly == Spec => []WaitsOnlyForEbreak
<1> DEFINE J == ~ debug_mode => HolderRuns
<1>1. Init => J
    BY LrScAssumption DEF Init, HolderRuns, Processes, Kernel, Dma
<1>2. Inv /\ J /\ [Next]_vars => J'
    <2>1. ASSUME [Next]_vars PROVE UNCHANGED debug_mode
        BY <2>1 DEF Next, vars, Instruction, Dispatch, Block, WaitUntilUnlocked, Plain,
           Trap, Wfi, Ebreak, Lr, Sc, Amo, Store, performance_and_sync_update,
           UpdateWindow, Wake, Breakpoint, Resume, Abort, DmaWrite, DmaBlock, Halted
    <2> QED BY <2>1, HolderStep
<1>3. Inv /\ J => WaitsOnlyForEbreak
    BY DEF Inv, HeldInWindow, HolderRuns, WaitsOnlyForEbreak
<1> HIDE DEF J
<1> QED BY <1>1, <1>2, <1>3, Invariance, PTL DEF Spec

=============================================================================
