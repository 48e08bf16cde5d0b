----------------------------- MODULE MCIssTrap -----------------------------
(***************************************************************************)
(* Software for IssTrap.  A behaviour is that of one kind of software,     *)
(* which writes some CSRs and some values: the interrupts and their        *)
(* delegation to supervisor mode, the delegation down to user mode, the    *)
(* trap vector and the return address, or the views of mstatus.            *)
(***************************************************************************)
EXTENDS IssTrap

\* Any interrupt enables, with the previous ones all set or all clear.
StatusOf(mpps, spps, tws) ==
  {[ie |-> ie, pie |-> [m \in Modes |-> pie], mpp |-> mpp, spp |-> spp, tw |-> tw] :
     ie \in [Modes -> BOOLEAN], pie \in BOOLEAN, mpp \in mpps, spp \in spps, tw \in tws}

\* Interrupts, their enables and their delegation to supervisor mode.
IrqCsrs == {<<"status", MachineMode>>, <<"ie", MachineMode>>,
            <<"ie", SupervisorMode>>, <<"ip", SupervisorMode>>,
            <<"ideleg", MachineMode>>}

IrqStatus == {v \in StatusOf(Modes, {0}, {FALSE}) : ~v.ie[UserMode]}

\* Interrupts and exceptions delegated down to user mode.
UserCsrs == {<<"status", MachineMode>>, <<"ie", MachineMode>>,
             <<"ideleg", MachineMode>>, <<"ideleg", SupervisorMode>>,
             <<"edeleg", MachineMode>>, <<"edeleg", SupervisorMode>>}

UserStatus == {v \in StatusOf(Modes, {0}, {FALSE}) : ~v.ie[SupervisorMode] /\ v.pie[UserMode]}

\* Trap vectors and return addresses.
AddrCsrs == {<<"status", MachineMode>>, <<"ie", MachineMode>>,
             <<"tvec", MachineMode>>, <<"epc", MachineMode>>}

AddrStatus == {v \in StatusOf(Modes, {0}, BOOLEAN) :
                 /\ v.pie[UserMode]
                 /\ \A m \in Modes : v.ie[m] = v.ie[UserMode]}

\* The views of mstatus that the lower modes have.
ViewCsrs == {"status"} \X Modes \cup {<<"ie", MachineMode>>}

ViewStatus == StatusOf({SupervisorMode, UserMode}, {0}, {FALSE})

CONSTANT Chosen    \* the kinds of software that are run

VARIABLE software

\* Kind of software -> the CSRs it writes, values of mstatus, interrupts.
Kinds ==
  [irq  |-> [csrs |-> IrqCsrs,  status |-> IrqStatus,  irqs |-> Irqs],
   user |-> [csrs |-> UserCsrs, status |-> UserStatus, irqs |-> {Timer(MachineMode)}],
   view |-> [csrs |-> ViewCsrs, status |-> ViewStatus, irqs |-> {Timer(MachineMode)}],
   addr |-> [csrs |-> AddrCsrs, status |-> AddrStatus, irqs |-> {Timer(MachineMode)}]]

ASSUME ChosenAssumption == Chosen \subseteq DOMAIN Kinds

AllCsrs == UNION {Kinds[k].csrs : k \in Chosen}
AllStatus == UNION {Kinds[k].status : k \in Chosen}

Written(csr) ==
  CASE csr[1] = "status"                 -> Kinds[software].status
    [] csr[1] \in {"ie", "ip", "ideleg"} -> SUBSET Kinds[software].irqs
    [] OTHER                             -> CsrValues(csr)

MCInit == Init /\ software \in Chosen

MCNext ==
  /\ \/ Instruction \/ Lines \/ DeltaCycle
     \/ \E csr \in Kinds[software].csrs : \E v \in Written(csr) : CsrAccess(csr, v)
  /\ UNCHANGED software

MCSpec == MCInit /\ [][MCNext]_<<vars, software>>
=============================================================================
