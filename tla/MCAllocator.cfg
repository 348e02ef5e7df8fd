CONSTANTS
  MAX_REGIONS = 5
  FREE_RAM = 2
  FREE_RAM_END = 7
  MAX_REQUEST = 2
SPECIFICATION Spec
INVARIANTS
  TypeOK
  Partitioned
  FragmentationBounded
PROPERTIES
  ImplementsPageAllocator
CHECK_DEADLOCK FALSE
