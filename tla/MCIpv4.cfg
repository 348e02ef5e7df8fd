SPECIFICATION Spec
CONSTANTS
  ARP_CACHE_SIZE = 2
  LocalIp <- Local
  Broadcast <- Everyone
  Ips <- MCIps
  Macs = {"m1", "m2"}
  Payloads = {0, 1, 1480, 1481}
  Texts <- MCTexts
  MAX_RX = 1
  MAX_TX = 2
  Incoming <- MCIncoming
INVARIANTS
  ReadsWithinFrame
  ReceiveExact
  SentIsAccepted
  ParseExact
CHECK_DEADLOCK FALSE
