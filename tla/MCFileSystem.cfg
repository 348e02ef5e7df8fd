SPECIFICATION Spec
CONSTANTS
  FILES_MAX = 2
  DATA_SIZE = 1024
  DISK_SECTORS = 5
  Names = {"hello", "meow"}
  Lengths = {0, 512, 513, 1025}
  Values = {"x", "y"}
  MAX_WRITES = 3
  MAX_FAILURES = 1
INVARIANTS
  TornWriteKeepsShape
  DiskMatchesMemory
  PanicOnlyAfterMove
CHECK_DEADLOCK FALSE
