SPECIFICATION TypingSpec
CONSTANTS
  VIRTQ_ENTRY_NUM = 2
  INDEX_MOD = 4
  NET_RX_CAPTURE_NUM = 1
  ARP_CACHE_SIZE = 2
  Ips <- MCIps
  Macs <- MCMacs
  LocalIp = "local"
  Frames <- ArpFrames
  MAX_EVENTS = 3
  MAX_SENDS = 0
  STARTS_IN_BOOT = FALSE
INVARIANTS
  BuffersConserved
  CacheCoherent
  TxBufferExclusive
PROPERTIES
  RequestAnswered
  ReceiveProgress
