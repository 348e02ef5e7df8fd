SPECIFICATION Spec
CONSTANTS
  VIRTQ_ENTRY_NUM = 2
  INDEX_MOD = 4
  NET_RX_CAPTURE_NUM = 2
  ARP_CACHE_SIZE = 1
  Ips <- OneIp
  Macs <- MCMacs
  LocalIp = "local"
  Frames <- OtherFrames
  MAX_EVENTS = 5
  MAX_SENDS = 2
  STARTS_IN_BOOT = TRUE
INVARIANTS
  FramesInOrder
  CaptureFifo
  TxDoneMeansSent
