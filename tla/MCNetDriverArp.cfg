SPECIFICATION FairSpec
CONSTANTS
  VIRTQ_ENTRY_NUM = 2
  INDEX_MOD = 4
  NET_RX_CAPTURE_NUM = 2
  ARP_CACHE_SIZE = 1
  Ips <- MCIps
  Macs <- MCMacs
  LocalIp = "local"
  Frames <- Requests
  MAX_EVENTS = 1
  MAX_SENDS = 0
  STARTS_IN_BOOT = FALSE
PROPERTIES
  RequestAnswered
