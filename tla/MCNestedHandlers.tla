-------------------------- MODULE MCNestedHandlers --------------------------
(***************************************************************************)
(* A hart that runs a main program and a trap handler which itself can be  *)
(* interrupted, the way embedded operating systems write it: the handler   *)
(* saves mepc and mstatus, enables interrupts, works, disables interrupts, *)
(* restores the two and returns.  Faults are restartable: after the        *)
(* handler the instruction is executed again.                              *)
(***************************************************************************)
EXTENDS IssTrap, Sequences

CONSTANTS
  MainMode,    \* the mode of the main program, which executes WFI
  MainEnabled, \* the interrupt enable of machine mode that it is started with
  MaxDepth     \* how deep the software lets traps nest

VARIABLE stack     \* the contexts that the handler has saved

Boot == 0
Table == 32        \* trap vectors, one jump each
Handler == 96
Main == 160

\* The software fits into the memory.
ASSUME MainAssumption ==
  /\ MainMode \in {SupervisorMode, MachineMode}
  /\ MainEnabled \in BOOLEAN
  /\ MaxDepth \in Nat \ {0}
  /\ AddrSpace >= Main + 12

Instr(a) == hart.pc = a /\ status = "Runnable"

Same == UNCHANGED stack

mstatus(h) == [ie |-> h.ie, pie |-> h.pie, mpp |-> h.mpp, spp |-> h.spp, tw |-> h.tw]

WriteMstatus(v) == CsrAccess(<<"status", MachineMode>>, v)

SetMie(b) == WriteMstatus([mstatus(hart) EXCEPT !.ie[MachineMode] = b])

Startup ==
  \/ Instr(Boot)      /\ \E vectored \in {0, 1} : CsrAccess(<<"tvec", MachineMode>>, Table + vectored)
  \/ Instr(Boot + 4)  /\ CsrAccess(<<"ie", MachineMode>>, Irqs)
  \/ Instr(Boot + 8)  /\ CsrAccess(<<"epc", MachineMode>>, Main)
  \/ Instr(Boot + 12) /\ WriteMstatus([mstatus(hart) EXCEPT !.mpp = MainMode,
                                                           !.pie[MachineMode] = MainEnabled])
  \/ Instr(Boot + 16) /\ MRET

MainStep ==
  \/ Instr(Main)     /\ (Plain(4) \/ \E exc \in Excs : Fault(exc))
  \/ Instr(Main + 4) /\ WFI
  \/ Instr(Main + 8) /\ Jump(Main)

Entry == \E code \in {0} \cup AllIrqs : Instr(Table + 4 * code) /\ Jump(Handler)

Save ==
  /\ Instr(Handler)
  /\ Plain(4)
  /\ stack' = <<[epc |-> hart.epc[MachineMode], mstatus |-> mstatus(hart)]>> \o stack

\* Interrupts stay disabled when the handler's stack is used up.
Work ==
  \/ Instr(Handler + 4) /\ SetMie(Len(stack) < MaxDepth)
  \/ Instr(Handler + 8) /\ (Plain(4) \/ (Len(stack) < MaxDepth /\ \E exc \in Excs : Fault(exc)))
  \/ Instr(Handler + 12) /\ SetMie(FALSE)

Restore ==
  \/ Instr(Handler + 16) /\ WriteMstatus(Head(stack).mstatus) /\ Same
  \/ /\ Instr(Handler + 20)
     /\ CsrAccess(<<"epc", MachineMode>>, Head(stack).epc)
     /\ stack' = Tail(stack)
  \/ Instr(Handler + 24) /\ MRET /\ Same

NestInit == Init /\ stack = <<>>

HartStep ==
  \/ (Startup \/ MainStep \/ Entry \/ Work) /\ Same
  \/ Save
  \/ Restore

NestNext == HartStep \/ (Lines /\ Same) \/ (DeltaCycle /\ Same)

nestVars == <<vars, stack>>

\* The SystemC kernel runs delta cycles and goes on with the hart's thread.
NestSpec ==
  /\ NestInit /\ [][NestNext]_nestVars
  /\ WF_nestVars(HartStep) /\ WF_nestVars(DeltaCycle /\ Same)

-----------------------------------------------------------------------------
(* Where the main program is, from the outermost context.                  *)

InMain == hart.pc \in Main .. Main + 11
InHandler == hart.pc \in Table .. Handler + 27

Outermost == stack[Len(stack)]

MainAt ==
  CASE stack # <<>>               -> Outermost.epc
    [] stack = <<>> /\ InHandler  -> hart.epc[MachineMode]
    [] stack = <<>> /\ InMain     -> hart.pc
    [] OTHER                      -> Main

MainPrv ==
  CASE stack # <<>>               -> Outermost.mstatus.mpp
    [] stack = <<>> /\ InHandler  -> hart.mpp
    [] stack = <<>> /\ InMain     -> hart.prv
    [] OTHER                      -> MainMode

MainIe ==
  CASE stack # <<>>               -> Outermost.mstatus.pie[MachineMode]
    [] stack = <<>> /\ InHandler  -> hart.pie[MachineMode]
    [] stack = <<>> /\ InMain     -> hart.ie[MachineMode]
    [] OTHER                      -> MainEnabled

MainView == INSTANCE MainProgram
              WITH Start <- Main, Length <- 3, Mode <- MainMode, Enabled <- MainEnabled,
                   at <- MainAt, mode <- MainPrv, enabled <- MainIe

\* Traps and interrupts, nested or not, are transparent to the main program:
\* run_step saves and return_from_trap_handler restores the right pc, mode
\* and interrupt enable, wherever in the program or in the handler they come.
TrapsAreTransparent == MainView!Spec
=============================================================================
