SPECIFICATION MCSpec
CONSTANTS
  AddrSpace = 4
  Irqs = {1, 7}
  Excs = {2}
  Csrs <- AllCsrs
  StatusValues <- AllStatus
  Chosen = {"irq", "user", "addr", "view"}
INVARIANTS
  NoLostWakeup
PROPERTIES
  MachineStateIsProtected
  PrivilegeRisesByTrap
