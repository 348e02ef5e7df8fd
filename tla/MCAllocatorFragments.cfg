CONSTANTS
  MAX_REGIONS = 4
  FREE_RAM = 2
  FREE_RAM_END = 7
  MAX_REQUEST = 2
SPECIFICATION Spec
INVARIANT FragmentsMerged
CHECK_DEADLOCK FALSE
