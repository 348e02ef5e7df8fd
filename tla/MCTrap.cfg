SPECIFICATION Spec
CONSTANTS
  PROCS_MAX = 3
  NUSERS = 2
  Vals = {10, 11}
  UserPcs = {"u0", "u1"}
  USER_BASE = "u0"
  After <- MCAfter
  DEPTH = 4
INVARIANTS
  ScratchProtocol
  KernelAtHome
  AddressSpaceCurrent
  IInv
PROPERTIES
  ImplementsUserMachine
CHECK_DEADLOCK FALSE
