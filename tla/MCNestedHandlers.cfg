SPECIFICATION NestSpec
CONSTANTS
  AddrSpace = 256
  Irqs = {3, 7, 11}
  Excs = {5}
  Csrs = {}
  StatusValues = {}
  MainMode = 1
  MainEnabled = FALSE
  MaxDepth = 3
PROPERTIES
  TrapsAreTransparent
  MachineInterruptIsTaken
