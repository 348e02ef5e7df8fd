SPECIFICATION FairSpec
CONSTANTS
  VIRTQ_ENTRY_NUM = 2
  INDEX_MOD = 4
  Sectors = {0, 1}
  BadSector = 2
  Values = {0, 1}
  MAX_NOISE = 1
INVARIANTS
  RequestPageExclusive
  DoneMeansServed
  IndexesAgree
  InterruptsRestored
PROPERTIES
  CallReturns
  ImplementsBlockStore
