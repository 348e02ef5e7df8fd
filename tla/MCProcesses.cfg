CONSTANTS
  MAX_REGIONS = 16
  FREE_RAM = 2
  FREE_RAM_END = 18
  PROCS_MAX = 3
  PROC_SHM_MAX = 2
  SHM_MAX = 2
  NUSERS = 2
  BOOT_REGIONS = 1
  KERNEL_TABLES = 1
  IMAGE_PAGES = 1
  Keys = {0, 1, 2, 3}
  MAX_ID = 5
SPECIFICATION Spec
INVARIANTS
  RefCountExact
  NoDanglingMapping
  OwnershipExact
  LeakOnlySlotZero
  IInv
CHECK_DEADLOCK FALSE
