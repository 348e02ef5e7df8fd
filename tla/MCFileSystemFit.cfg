SPECIFICATION Spec
CONSTANTS
  FILES_MAX = 2
  DATA_SIZE = 1024
  DISK_SECTORS = 5
  Names = {"hello", "meow"}
  Lengths = {0, 512, 513, 1024, 1025}
  Values = {"x", "y"}
  MAX_WRITES = 2
  MAX_FAILURES = 0
INVARIANTS
  AllContentsFit
CHECK_DEADLOCK FALSE
