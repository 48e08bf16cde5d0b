-------------------------------- MODULE Plic --------------------------------
(***************************************************************************)
(* The interrupt controller of hifive-vp (platform/common/fe310_plic.h)    *)
(* with its one hart, the machine external interrupt pending bit of the    *)
(* ISS that it drives, and the device driver that claims and completes     *)
(* interrupts through the memory-mapped registers.                         *)
(*                                                                         *)
(* SystemC runs one process at a time, so every access and every callback  *)
(* is atomic; the delay between gateway_trigger_interrupt and run (one     *)
(* clock cycle) is where accesses of the hart and further triggers fall.   *)
(***************************************************************************)
EXTENDS Integers, FiniteSets

CONSTANTS
    NumberInterrupts,   \* sources are 1 .. NumberInterrupts - 1
    MaxPriority,
    QuietConfig,        \* no reconfiguration that touches a pending source
    LoopingHandler      \* the handler may claim again before it returns

ASSUME PlicAssumption ==
    /\ NumberInterrupts \in Nat /\ NumberInterrupts > 1
    /\ MaxPriority \in Nat /\ MaxPriority > 0
    /\ QuietConfig \in BOOLEAN /\ LoopingHandler \in BOOLEAN

Sources == 1..(NumberInterrupts - 1)
Ids == 0..(NumberInterrupts - 1)
WrittenValues == 0..(MaxPriority + 1)   \* one value beyond the legal ones

VARIABLES
    interrupt_priorities,   \* source -> priority
    priority_threshold,
    hart_enabled,           \* set of enabled sources
    pending,                \* set of pending sources
    claim_response,
    hart_eip,
    e_run,                  \* a notification of e_run is scheduled
    meip,                   \* csrs.mip.meip of the hart
    driver,                 \* main, handler (trap taken), claimed
    aborted                 \* assert(hart_eip[idx]) failed

config == <<interrupt_priorities, priority_threshold, hart_enabled>>
vars == <<interrupt_priorities, priority_threshold, hart_enabled, pending,
          claim_response, hart_eip, e_run, meip, driver, aborted>>

-----------------------------------------------------------------------------
(* hart_get_next_pending_interrupt *)

Candidates(consider_threshold) ==
    {i \in hart_enabled \cap pending :
        /\ interrupt_priorities[i] > 0
        /\ consider_threshold => interrupt_priorities[i] > priority_threshold}

\* What the loop over the sources 1, 2, ... with its strict comparison leaves in min_id:
\* the candidate with the highest priority, the lowest id among equals.
hart_get_next_pending_interrupt(consider_threshold) ==
    LET C == Candidates(consider_threshold)
    IN  IF C = {} THEN 0
        ELSE CHOOSE i \in C : \A j \in C \ {i} :
                \/ interrupt_priorities[i] > interrupt_priorities[j]
                \/ interrupt_priorities[i] = interrupt_priorities[j] /\ i < j

hart_has_pending_enabled_interrupts == hart_get_next_pending_interrupt(TRUE) > 0

-----------------------------------------------------------------------------
\* Reset: every source has priority 1 and is disabled.
Init ==
    /\ interrupt_priorities = [i \in Sources |-> 1]
    /\ priority_threshold = 0
    /\ hart_enabled = {}
    /\ pending = {}
    /\ claim_response = 0
    /\ hart_eip = FALSE /\ meip = FALSE
    /\ e_run = FALSE
    /\ driver = "main"
    /\ aborted = FALSE

\* Mutant: run is scheduled for the first pending source only.
NotifyIfFirst == e_run \/ pending = {}

\* e_run.notify(clock_cycle), unconditionally
NotifyRun == TRUE

\* A device raises interrupt i: non-queued edge trigger.
gateway_trigger_interrupt(i) ==
    /\ ~ aborted
    /\ pending' = pending \cup {i}
    /\ e_run' = NotifyRun
    /\ UNCHANGED <<config, claim_response, hart_eip, meip, driver, aborted>>

\* Mutants: run signals whatever is pending; run does not record the signal.
SignalsAnything == ~ hart_eip
SignalUnrecorded == meip' = TRUE /\ UNCHANGED hart_eip

SignalsHart == ~ hart_eip /\ hart_has_pending_enabled_interrupts
Signal == hart_eip' = TRUE /\ meip' = TRUE

\* The PLIC's own thread, one clock cycle after the first trigger.
run ==
    /\ ~ aborted
    /\ e_run
    /\ e_run' = FALSE
    /\ IF SignalsHart THEN Signal ELSE UNCHANGED <<hart_eip, meip>>
    /\ UNCHANGED <<config, pending, claim_response, driver, aborted>>

\* Read of the claim register; it ignores the threshold.
pre_read_hart_config ==
    LET min_id == hart_get_next_pending_interrupt(FALSE)
    IN  /\ claim_response' = min_id
        /\ pending' = pending \ {min_id}

\* target_harts[idx]->clear_external_interrupt(irq_level)
clear_external_interrupt == meip' = FALSE

\* Mutant: interrupts that arrived during the handler are forgotten.
NothingRemains == FALSE

\* if (hart_has_pending_enabled_interrupts(idx))
InterruptRemains == hart_has_pending_enabled_interrupts

\* Write of the claim register, which completes an interrupt.
post_write_hart_config ==
    IF InterruptRemains
    THEN IF hart_eip
         THEN meip' = TRUE /\ UNCHANGED <<hart_eip, aborted>>
         ELSE aborted' = TRUE /\ UNCHANGED <<hart_eip, meip>>
    ELSE /\ hart_eip' = FALSE
         /\ clear_external_interrupt
         /\ UNCHANGED aborted

-----------------------------------------------------------------------------
(* Accesses of the software. *)

\* The configuration registers of the sources in S may be written now.
MayConfigure(S) == QuietConfig => S \cap pending = {}

\* post_write_interrupt_priorities: std::min(x, MaxPriority) for every priority.
Clamped(v) == IF v > MaxPriority THEN MaxPriority ELSE v

WritePriority(i, v) ==
    /\ ~ aborted
    /\ MayConfigure({i})
    /\ interrupt_priorities' = [interrupt_priorities EXCEPT ![i] = Clamped(v)]
    /\ UNCHANGED <<priority_threshold, hart_enabled, pending, claim_response,
                   hart_eip, e_run, meip, driver, aborted>>

WriteEnable(i, on) ==
    /\ ~ aborted
    /\ MayConfigure({i})
    /\ hart_enabled' = IF on THEN hart_enabled \cup {i} ELSE hart_enabled \ {i}
    /\ UNCHANGED <<interrupt_priorities, priority_threshold, pending,
                   claim_response, hart_eip, e_run, meip, driver, aborted>>

WriteThreshold(v) ==
    /\ ~ aborted
    /\ MayConfigure(Sources)
    /\ priority_threshold' = v
    /\ UNCHANGED <<interrupt_priorities, hart_enabled, pending, claim_response,
                   hart_eip, e_run, meip, driver, aborted>>

\* The hart takes the machine external interrupt.
TakeInterrupt ==
    /\ ~ aborted
    /\ driver = "main" /\ meip
    /\ driver' = "handler"
    /\ UNCHANGED <<config, pending, claim_response, hart_eip, e_run, meip, aborted>>

\* The handler reads the claim register; 0 means that there is nothing to do.
Claim ==
    /\ ~ aborted
    /\ driver = "handler"
    /\ pre_read_hart_config
    /\ driver' = IF claim_response' = 0 THEN "main" ELSE "claimed"
    /\ UNCHANGED <<config, hart_eip, e_run, meip, aborted>>

\* The handler writes the claimed id back, and returns or looks for more.
Complete ==
    /\ ~ aborted
    /\ driver = "claimed"
    /\ post_write_hart_config
    /\ \/ driver' = "main"
       \/ LoopingHandler /\ driver' = "handler"
    /\ UNCHANGED <<config, pending, claim_response, e_run>>

Devices == \E i \in Sources : gateway_trigger_interrupt(i)
Configure ==
    \/ \E i \in Sources, v \in WrittenValues : WritePriority(i, v)
    \/ \E i \in Sources, on \in BOOLEAN : WriteEnable(i, on)
    \/ \E v \in WrittenValues : WriteThreshold(v)
Handler == TakeInterrupt \/ Claim \/ Complete

Next == Devices \/ run \/ Configure \/ Handler

\* The kernel delivers the scheduled notification, and the hart takes a pending
\* interrupt and finishes its handler.
Spec == Init /\ [][Next]_vars /\ WF_vars(run) /\ WF_vars(Handler)

-----------------------------------------------------------------------------
(* Properties. *)

\* Types of the registers; priorities stay within MaxPriority.
TypeOK ==
    /\ interrupt_priorities \in [Sources -> 0..MaxPriority]
    /\ priority_threshold \in WrittenValues
    /\ hart_enabled \subseteq Sources /\ pending \subseteq Sources
    /\ claim_response \in Ids
    /\ hart_eip \in BOOLEAN /\ e_run \in BOOLEAN /\ meip \in BOOLEAN
    /\ driver \in {"main", "handler", "claimed"}
    /\ aborted \in BOOLEAN

\* hart_eip mirrors the interrupt line of the hart: run and the completion
\* handler never leave one up and the other down.
EipMirrored == hart_eip = meip

\* assert(hart_eip[idx]) in post_write_hart_config: a completion that finds a
\* further interrupt finds the line up.
CompleteFindsEip == ~ aborted

\* No wakeup is lost: an interrupt the hart should see is signalled, or run is
\* scheduled to signal it.
NoMissedSignal ==
    Candidates(TRUE) # {} => hart_eip \/ e_run

\* The handler's claim never comes back empty-handed.
NoSpuriousInterrupt ==
    driver = "handler" => Candidates(FALSE) # {}

\* An interrupt that passes enable, priority and threshold is followed by a
\* claim that returns an interrupt.
PendingIsServed ==
    (Candidates(TRUE) # {}) ~> (driver = "claimed")

=============================================================================
