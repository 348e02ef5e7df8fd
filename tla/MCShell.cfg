CONSTANTS
  MAX_REGIONS = 18
  FREE_RAM = 2
  FREE_RAM_END = 20
  PROCS_MAX = 4
  PROC_SHM_MAX = 2
  SHM_MAX = 1
  NUSERS = 3
  BOOT_REGIONS = 1
  KERNEL_TABLES = 0
  IMAGE_PAGES = 1
  Keys = {100}
  MAX_ID = 6
  CMDLINE_SIZE = 3
  Chars = {"s", "x"}
  ExitCommand <- MCExit
  ShmTestCommand <- MCShmTest
  MAX_KEYS = 7
SPECIFICATION ShellSpec
INVARIANTS
  RunsWhatWasTyped
  ShmTestPasses
  PromptHoldsNothing
PROPERTIES
  EveryoneRuns
CHECK_DEADLOCK FALSE
