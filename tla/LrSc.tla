-------------------------------- MODULE LrSc --------------------------------
(***************************************************************************)
(* Atomic memory accesses: the bus lock (platform/common/bus.h), the       *)
(* atomic operations of CombinedMemoryInterface (core/rv32/mem.h) and the  *)
(* LR/SC window of the ISS (core/rv32/iss.cpp), for several harts and a    *)
(* peripheral with write access.                                           *)
(*                                                                         *)
(* SystemC runs one process at a time; a process gives up the processor    *)
(* where it waits: at a quantum synchronisation, in WFI, for the bus lock, *)
(* where run() ends.  An instruction is one step unless it has to wait.    *)
(***************************************************************************)
EXTENDS Integers, FiniteSets

CONSTANTS
    Harts,
    Addrs,          \* word addresses
    Window          \* lr_sc_counter after LR_W, 17 in the code

Kernel == "kernel"
Ended == "ended"
Dma == "dma"
Processes == Harts \cup {Dma}

ASSUME LrScAssumption ==
    /\ Harts # {} /\ Harts \cap {Kernel, Ended, Dma} = {}
    /\ Window \in Nat /\ Window > 1

VARIABLES
    debug_mode,       \* a debugger may stop a hart between two instructions
    locked, owner,    \* BusLock
    lr_sc_counter,
    lr_addr,          \* CombinedMemoryInterface::lr_addr, its concrete value
    kept,             \* SC's address register still holds the object LR stored
    mode,             \* ready, blocked (waits for the lock), wfi, stopped
    running,          \* the process that runs, the kernel, or Ended
    result,           \* outcome of the last SC_W since LR_W
    intruded,         \* harts whose reserved word was written by another process
    constrained       \* harts that executed only plain instructions since LR_W

bus == <<locked, owner>>
vars == <<debug_mode, locked, owner, lr_sc_counter, lr_addr, kept, mode, running, result,
          intruded, constrained>>

-----------------------------------------------------------------------------
(* BusLock *)

\* is_locked(hart_id)
is_locked(h) == locked /\ owner = h

\* The value of locked after unlock(hart_id), which only the owner may do.
unlock(h) == locked /\ owner # h

\* The test of wait_for_access_rights and of lock.
HasAccessRights(h) == locked => owner = h

\* wait_until_unlocked
WaitUntilUnlocked(p) ==
    /\ mode' = [mode EXCEPT ![p] = "blocked"]
    /\ running' = Kernel
    /\ UNCHANGED <<debug_mode, bus, lr_sc_counter, lr_addr, kept, result, intruded,
                   constrained>>

-----------------------------------------------------------------------------
(* performance_and_sync_update *)

\* Mutant: the hart synchronises whenever the quantum is used up.
SyncsAlways(n) == TRUE

\* The quantum may be used up, but is synchronised only outside the window.
MaySync(n) == n = 0

\* Mutant: the window closes one instruction early.
ExpiresEarly(c) == c \in {1, 2}

\* --lr_sc_counter reaches 0, which releases the reservation.
Expires(c) == c = 1

\* lr_sc_counter after an instruction that leaves it at c.
CountDown(c) == IF c = 0 THEN 0 ELSE c - 1

\* The window after an instruction of hart h that leaves lr_sc_counter = c,
\* locked = l and goes on with a constrained sequence if k.
UpdateWindow(h, c, l, k) ==
    /\ lr_sc_counter' = [lr_sc_counter EXCEPT ![h] = CountDown(c)]
    /\ locked' = (l /\ ~ (Expires(c) /\ owner' = h))
    /\ constrained' = [constrained EXCEPT ![h] = k /\ CountDown(c) > 0]
    /\ UNCHANGED debug_mode

\* The end of an instruction in a run that goes on.
performance_and_sync_update(h, c, l, k) ==
    /\ UpdateWindow(h, c, l, k)
    /\ running' \in IF MaySync(CountDown(c)) THEN {h, Kernel} ELSE {h}

\* A word is written by process p.
Write(p, a) == intruded' = intruded \cup {h \in Harts \ {p} : lr_addr[h] = a}

-----------------------------------------------------------------------------
Init ==
    /\ debug_mode \in BOOLEAN
    /\ locked = FALSE /\ owner \in Harts
    /\ lr_sc_counter = [h \in Harts |-> 0]
    /\ lr_addr \in [Harts -> Addrs]
    /\ kept = [h \in Harts |-> FALSE]
    /\ mode = [p \in Processes |-> "ready"]
    /\ running = Kernel
    /\ result = [h \in Harts |-> "none"]
    /\ intruded = {}
    /\ constrained = [h \in Harts |-> FALSE]

\* The kernel runs a process that waits for the next quantum or was woken up;
\* one that waited for the lock finds it free or waits on.
Dispatch(p) ==
    /\ running = Kernel
    /\ \/ mode[p] = "ready"
       \/ mode[p] = "blocked" /\ ~ locked
    /\ mode' = [mode EXCEPT ![p] = "ready"]
    /\ running' = p
    /\ UNCHANGED <<debug_mode, bus, lr_sc_counter, lr_addr, kept, result, intruded,
                   constrained>>

\* The fetch or the access of an instruction has to wait for the lock.
Block(h) ==
    /\ running = h
    /\ ~ HasAccessRights(h)
    /\ WaitUntilUnlocked(h)

\* Mutant: every LR_W opens a new window.
ReloadedWindow(c) == Window

\* LR_W does not extend a window that is open.
OpenWindow(c) == IF c = 0 THEN Window ELSE c

\* LR_W: atomic_load_reserved_word
Lr(h, a) ==
    /\ running = h /\ HasAccessRights(h)
    /\ owner' = h
    /\ lr_addr' = [lr_addr EXCEPT ![h] = a]
    /\ kept' = [kept EXCEPT ![h] = TRUE]
    /\ intruded' = intruded \ {h}
    /\ result' = [result EXCEPT ![h] = "none"]
    /\ performance_and_sync_update(h, OpenWindow(lr_sc_counter[h]), TRUE,
                                   lr_sc_counter[h] = 0)
    /\ UNCHANGED mode

\* addr == lr_addr compares the pointers of two shared_ptr.
SameAddress(h, a) == kept[h] /\ a = lr_addr[h]

\* SC_W: atomic_store_conditional_word; it ends the window.
Sc(h, a) ==
    /\ running = h /\ HasAccessRights(h)
    /\ IF is_locked(h) /\ SameAddress(h, a)
       THEN Write(h, a) /\ result' = [result EXCEPT ![h] = "ok"]
       ELSE /\ result' = [result EXCEPT ![h] = IF a = lr_addr[h] THEN "fail"
                                                               ELSE "mismatch"]
            /\ UNCHANGED intruded
    /\ UNCHANGED <<owner, lr_addr, kept, mode>>
    /\ performance_and_sync_update(h, 0, unlock(h), FALSE)

\* AMO*_W: lock, load, store, and the unlock of the store.
Amo(h, a) ==
    /\ running = h /\ HasAccessRights(h)
    /\ owner' = h
    /\ Write(h, a)
    /\ performance_and_sync_update(h, lr_sc_counter[h], FALSE, FALSE)
    /\ UNCHANGED <<lr_addr, kept, mode, result>>

\* A store: symbolic_store_data ends with atomic_unlock.
Store(h, a) ==
    /\ running = h /\ HasAccessRights(h)
    /\ Write(h, a)
    /\ UNCHANGED <<owner, lr_addr, kept, mode, result>>
    /\ performance_and_sync_update(h, lr_sc_counter[h], unlock(h), FALSE)

\* Any other instruction, loads included; it may rewrite the address register.
Plain(h) ==
    /\ running = h /\ HasAccessRights(h)
    /\ \/ UNCHANGED kept
       \/ kept' = [kept EXCEPT ![h] = FALSE]
    /\ UNCHANGED <<owner, lr_addr, mode, result, intruded>>
    /\ performance_and_sync_update(h, lr_sc_counter[h], locked, constrained[h])

\* release_lr_sc_reservation: the value of locked after it; the counter is 0.
release_lr_sc_reservation(h) == unlock(h)

\* A trap, or an interrupt after an instruction: switch_to_trap_handler.
Trap(h) ==
    /\ running = h /\ HasAccessRights(h)
    /\ UNCHANGED <<owner, lr_addr, kept, mode, result, intruded>>
    /\ performance_and_sync_update(h, 0, release_lr_sc_reservation(h), FALSE)

\* WFI without a pending interrupt; with one it is a Trap or does nothing more.
Wfi(h) ==
    /\ running = h /\ HasAccessRights(h)
    /\ lr_sc_counter' = [lr_sc_counter EXCEPT ![h] = 0]
    /\ locked' = release_lr_sc_reservation(h)
    /\ constrained' = [constrained EXCEPT ![h] = FALSE]
    /\ mode' = [mode EXCEPT ![h] = "wfi"]
    /\ running' = Kernel
    /\ UNCHANGED <<debug_mode, owner, lr_addr, kept, result, intruded>>

\* wfi_event
Wake(h) ==
    /\ mode[h] = "wfi" /\ running # Ended
    /\ mode' = [mode EXCEPT ![h] = "ready"]
    /\ UNCHANGED <<debug_mode, bus, lr_sc_counter, lr_addr, kept, running, result,
                   intruded, constrained>>

\* EBREAK, with or without a debugger: the instruction ends as any other, by an
\* interrupt perhaps, then run() synchronises and returns, inside the window too.
Ebreak(h) ==
    /\ running = h /\ HasAccessRights(h)
    /\ mode' = [mode EXCEPT ![h] = "stopped"]
    /\ running' = Kernel
    /\ UNCHANGED <<owner, lr_addr, kept, result, intruded>>
    /\ \/ UpdateWindow(h, lr_sc_counter[h], locked, FALSE)
       \/ UpdateWindow(h, 0, release_lr_sc_reservation(h), FALSE)

\* Without a debugger the runner throws once that synchronisation is over: the
\* simulation ends.
Abort(h) ==
    /\ ~ debug_mode
    /\ mode[h] = "stopped" /\ running = Kernel
    /\ running' = Ended
    /\ UNCHANGED <<debug_mode, bus, lr_sc_counter, lr_addr, kept, mode, result,
                   intruded, constrained>>

\* A breakpoint before the next instruction: run() synchronises and returns.
Breakpoint(h) ==
    /\ debug_mode
    /\ running = h
    /\ mode' = [mode EXCEPT ![h] = "stopped"]
    /\ running' = Kernel
    /\ UNCHANGED <<debug_mode, bus, lr_sc_counter, lr_addr, kept, result, intruded,
                   constrained>>

\* The debugger lets the hart go on.
Resume(h) ==
    /\ debug_mode
    /\ mode[h] = "stopped"
    /\ mode' = [mode EXCEPT ![h] = "ready"]
    /\ UNCHANGED <<debug_mode, bus, lr_sc_counter, lr_addr, kept, running, result,
                   intruded, constrained>>

\* Mutant: a peripheral writes whether the bus is locked or not.
DmaUnchecked == TRUE

\* bus_lock->wait_until_unlocked returns at once.
DmaMayWrite == ~ locked

\* PeripheralWriteConnector::transport
DmaWrite(a) ==
    /\ running = Dma /\ DmaMayWrite
    /\ Write(Dma, a)
    /\ running' = Kernel
    /\ UNCHANGED <<debug_mode, bus, lr_sc_counter, lr_addr, kept, mode, result,
                   constrained>>

DmaBlock == running = Dma /\ locked /\ WaitUntilUnlocked(Dma)

\* Nothing happens after the end of the simulation.
Halted == running = Ended /\ UNCHANGED vars

Instruction(h) ==
    \/ Block(h) \/ Plain(h) \/ Trap(h) \/ Wfi(h) \/ Ebreak(h)
    \/ \E a \in Addrs : Lr(h, a) \/ Sc(h, a) \/ Amo(h, a) \/ Store(h, a)

Next ==
    \/ \E p \in Processes : Dispatch(p)
    \/ \E h \in Harts :
          Instruction(h) \/ Wake(h) \/ Breakpoint(h) \/ Resume(h) \/ Abort(h)
    \/ \E a \in Addrs : DmaWrite(a)
    \/ DmaBlock
    \/ Halted

\* A hart that the kernel runs executes instructions.
Spec ==
    /\ Init /\ [][Next]_vars
    /\ \A h \in Harts : WF_vars(Instruction(h))

-----------------------------------------------------------------------------
(* Properties. *)

\* Types of the lock and of the per-hart state.
TypeOK ==
    /\ debug_mode \in BOOLEAN
    /\ locked \in BOOLEAN /\ owner \in Harts
    /\ lr_sc_counter \in [Harts -> 0..Window]
    /\ lr_addr \in [Harts -> Addrs]
    /\ kept \in [Harts -> BOOLEAN]
    /\ mode \in [Processes -> {"ready", "blocked", "wfi", "stopped"}]
    /\ running \in Processes \cup {Kernel, Ended}
    /\ result \in [Harts -> {"none", "ok", "fail", "mismatch"}]
    /\ intruded \subseteq Harts
    /\ constrained \in [Harts -> BOOLEAN]

\* "This ensures that those peripherals do not violate the RISC-V LR/SC atomic
\* semantic": an SC_W that succeeds follows an LR_W of the same hart since which
\* no other hart and no peripheral wrote the reserved word.
ScIsAtomic ==
    [][\A h \in Harts :
          result'[h] = "ok" /\ result[h] # "ok" => h \notin intruded]_vars

\* Without a debugger the lock is held only inside its owner's window, by the hart
\* that is running or that has executed EBREAK; a process waits for the lock only
\* in the latter case, in which run() has given up the processor with the lock held.
WaitsOnlyForEbreak ==
    ~ debug_mode =>
        /\ locked => /\ lr_sc_counter[owner] > 0
                     /\ running = owner \/ mode[owner] = "stopped"
        /\ \A p \in Processes :
              mode[p] = "blocked" => locked /\ mode[owner] = "stopped"

\* An SC_W that follows an LR_W within the window, with plain instructions only
\* in between, succeeds, if the address register was not rewritten.
ConstrainedScSucceeds ==
    [][\A h \in Harts :
          constrained[h] /\ kept[h] => result'[h] # "fail"]_vars

\* A hart that goes on executing releases the lock, even if it repeats LR_W.
LockIsReleased ==
    \A h \in Harts :
        (is_locked(h) /\ ~ debug_mode) ~> (~ is_locked(h) \/ mode[h] = "stopped")

=============================================================================
