SPECIFICATION CoreSpec
CONSTANTS
  Rs2s = {0, 1, 2, 3, 5}
  Times <- MCTimes
  Values <- MCValues
  Addresses <- MCAddresses
  FirmwareValues <- MCFirmware
  MaxInstrs = 1
INVARIANTS
  DecodeIsExact
  CompressedIsFaithful
PROPERTIES
  TrappedAccessHasNoEffect
  WriteIsConfined
CHECK_DEADLOCK FALSE
