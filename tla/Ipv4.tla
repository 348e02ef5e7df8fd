-------------------------------- MODULE Ipv4 --------------------------------
(***************************************************************************)
(* kernel/ipv4.c over the cache of kernel/arp.c, with the arp command of   *)
(* user/shell.c.  A packet is the number of bytes behind the Ethernet      *)
(* header and its first 16-bit words, the header among them; the payload   *)
(* has a length only.  read_be16 and write_be16 take and give the words.   *)
(* A packet from the network also says what header its sender wrote.       *)
(***************************************************************************)
EXTENDS Arp, DottedQuad, FiniteSets

CONSTANTS
  Broadcast,     \* IPV4_BROADCAST_ADDRESS
  Payloads,      \* payload lengths passed to ipv4_send
  Texts,         \* what may be typed behind "arp "
  MAX_RX, MAX_TX, \* bounds on packets received and on calls of ipv4_send
  Incoming       \* packets the network delivers

Word == {n \in Nat : n < 65536}   \* uint16_t
Address == Word \X Word           \* of a host, as its two halves

\* Frames that hold a header have its words.
ASSUME Ipv4Assumption ==
  /\ {MAX_RX, MAX_TX} \subseteq Nat
  /\ Payloads \subseteq Nat
  /\ Ips \cup {LocalIp, Broadcast} \subseteq Address
  /\ \A p \in Incoming : /\ p.capacity \in Nat
                         /\ p.words \in Seq(Nat)
                         /\ p.capacity >= 20 => Len(p.words) >= 10

VARIABLES
  cache,                \* arp_cache
  stats, next_identification,
  last                  \* the last thing that happened on the network

vars == <<cache, stats, next_identification, last>>

IPV4_HEADER_MIN_SIZE == 20
IPV4_MAX_PACKET_SIZE == 1500
Protocols == {1, 6, 17, 99}
Counters == {"rx_packets", "rx_dropped", "rx_icmp", "rx_udp", "rx_tcp", "rx_other",
             "tx_packets", "tx_dropped"}
Count(names) == stats' = [c \in Counters |-> IF c \in names THEN stats[c] + 1 ELSE stats[c]]

-----------------------------------------------------------------------------
(* The header checksum. *)

\* One turn of while (sum >> 16); a 32-bit sum takes at most two.
FoldOnce(sum) == IF sum \div 65536 > 0 THEN (sum % 65536) + (sum \div 65536) ELSE sum

\* Mutation: if in place of while.
FoldNotRepeated(sum) == FoldOnce(sum)
Fold(sum) == FoldOnce(FoldOnce(sum))

\* ~sum, returned as uint16_t.
Complement(sum) == 65535 - (sum % 65536)

Sum(words) ==
  LET sum[i \in 0 .. Len(words)] == IF i = 0 THEN 0 ELSE sum[i - 1] + words[i]
  IN  sum[Len(words)]

ipv4_checksum(words) == Complement(Fold(Sum(words)))

-----------------------------------------------------------------------------
(* ipv4_receive on a packet p.  Each test is made when the ones before it    *)
(* have passed.                                                              *)

Version(p) == p.words[1] \div 4096
HeaderLen(p) == 4 * ((p.words[1] \div 256) % 16)
TotalLength(p) == p.words[2]
DstIp(p) == <<p.words[9], p.words[10]>>
Protocol(p) == p.words[5] % 256

\* Mutation: without ETHERNET_HEADER_SIZE in the comparison.
ShortOfFrame(p) == p.capacity + 14 < IPV4_HEADER_MIN_SIZE
Short(p) == p.capacity < IPV4_HEADER_MIN_SIZE

Malformed(p) ==
  \/ Version(p) # 4
  \/ HeaderLen(p) < IPV4_HEADER_MIN_SIZE
  \/ HeaderLen(p) > p.capacity
BadLength(p) == TotalLength(p) < HeaderLen(p) \/ TotalLength(p) > p.capacity
BadChecksum(p) == ipv4_checksum(SubSeq(p.words, 1, HeaderLen(p) \div 2)) # 0

\* Mutation: without the offset mask.
FragmentFlagOnly(p) == (p.words[4] \div 8192) % 2 = 1
Fragment(p) == (p.words[4] \div 8192) % 2 = 1 \/ p.words[4] % 8192 # 0
ipv4_is_for_us(ip) == ip \in {LocalIp, Broadcast}

Accepted(p) ==
  ~ (Short(p) \/ Malformed(p) \/ BadLength(p) \/ BadChecksum(p) \/ Fragment(p)
     \/ ~ ipv4_is_for_us(DstIp(p)))

\* How far into the packet the function has looked.
BytesRead(p) ==
  IF Short(p) THEN 0
  ELSE IF Malformed(p) \/ BadLength(p) THEN IPV4_HEADER_MIN_SIZE
  ELSE HeaderLen(p)

ProtocolCounter(p) ==
  CASE Protocol(p) = 1 -> "rx_icmp" [] Protocol(p) = 17 -> "rx_udp"
    [] Protocol(p) = 6 -> "rx_tcp" [] OTHER -> "rx_other"

ipv4_receive(p) ==
  /\ Count(IF Accepted(p) THEN {"rx_packets", ProtocolCounter(p)} ELSE {"rx_dropped"})
  /\ last' = [kind |-> "received", packet |-> p]
  /\ UNCHANGED <<cache, next_identification>>

-----------------------------------------------------------------------------
(* ipv4_send *)

\* The request that goes out.
arp_request(ip) == [kind |-> "arp_request", ip |-> ip]

Header(total_length, id, protocol, src, dst) ==
  LET ws == <<4 * 4096 + 5 * 256, total_length, id, 0, 64 * 256 + protocol, 0,
              src[1], src[2], dst[1], dst[2]>>
  IN  [ws EXCEPT ![6] = ipv4_checksum(ws)]

\* What virtio_net_send_ethernet makes of a payload: at least 60 bytes in all.
Packet(words, total_length) ==
  [capacity |-> IF total_length < 46 THEN 46 ELSE total_length, words |-> words]

Refused(null, len) ==
  (null /\ len > 0) \/ len > IPV4_MAX_PACKET_SIZE - IPV4_HEADER_MIN_SIZE

\* The paths without a packet, then the one with; the driver refuses none of
\* at most IPV4_MAX_PACKET_SIZE bytes.
ipv4_send(dst, protocol, null, len) ==
  LET total_length == IPV4_HEADER_MIN_SIZE + len
      hit == arp_lookup(cache, dst)
  IN  /\ \/ /\ Refused(null, len)
            /\ Count({"tx_dropped"})
            /\ last' = [kind |-> "refused"]
            /\ UNCHANGED next_identification
         \/ /\ ~ Refused(null, len)
            /\ dst # Broadcast /\ ~ hit.found
            /\ Count({"tx_dropped"})
            /\ last' = arp_request(dst)
            /\ UNCHANGED next_identification
         \/ /\ ~ Refused(null, len)
            /\ dst = Broadcast \/ hit.found
            /\ next_identification' = (next_identification + 1) % 65536
            /\ Count({"tx_packets"})
            /\ last' = [kind |-> "sent", mac |-> IF dst = Broadcast THEN "broadcast" ELSE hit.mac,
                        ip |-> dst, protocol |-> protocol, len |-> len,
                        packet |-> Packet(Header(total_length, next_identification, protocol,
                                                 LocalIp, dst), total_length)]
      /\ UNCHANGED cache

-----------------------------------------------------------------------------
(* The arp command, and the answers to it. *)

ArpCommand(text) ==
  LET p == parse_ipv4(text)
  IN  /\ \/ p.ok /\ last' = [kind |-> "asked", text |-> text, request |-> arp_request(p.ip)]
         \/ ~ p.ok /\ last' = [kind |-> "usage", text |-> text]
      /\ UNCHANGED <<cache, stats, next_identification>>

ArpReceive(ip, mac) ==
  /\ cache' = arp_cache_update(cache, ip, mac)
  /\ UNCHANGED <<stats, next_identification, last>>

\* ipv4_init and arp_init.
Init ==
  /\ cache = arp_init.cache
  /\ stats = [c \in Counters |-> 0]
  /\ next_identification = 1
  /\ last = [kind |-> "boot"]

Received == stats.rx_packets + stats.rx_dropped
Sends == stats.tx_packets + stats.tx_dropped

\* Bounds: a command touches nothing of the rest, so it comes before all
\* traffic, and traffic only follows requests for addresses in use.
Quiet == Received = 0 /\ Sends = 0 /\ cache = arp_init.cache /\ last.kind = "boot"
Settled ==
  /\ last.kind # "usage"
  /\ last.kind = "asked" => last.request.ip \in Ips

Next ==
  \/ Settled /\ Received < MAX_RX /\ \E p \in Incoming : ipv4_receive(p)
  \/ /\ Settled /\ Sends < MAX_TX
     /\ \E dst \in Ips \cup {Broadcast}, protocol \in Protocols, null \in BOOLEAN,
           len \in Payloads : ipv4_send(dst, protocol, null, len)
  \/ Settled /\ \E ip \in Ips, mac \in Macs : ArpReceive(ip, mac)
  \/ Quiet /\ \E text \in Texts : ArpCommand(text)

Spec == Init /\ [][Next]_vars

-----------------------------------------------------------------------------
\* ipv4_receive looks at no byte behind the frame, whatever lengths a header
\* or a truncated frame claims.
ReadsWithinFrame == last.kind = "received" => BytesRead(last.packet) <= last.packet.capacity

\* The words of the header that are not as the sender wrote them.
Changed(p) == {i \in DOMAIN p.written \cap DOMAIN p.words : p.words[i] # p.written[i]}

\* A header as senders write it, behind it at most options of 40 bytes.
WrittenHeader(w) ==
  /\ w \in Seq(Word)
  /\ \E ihl \in 5 .. 15 : Len(w) = 2 * ihl /\ w[1] \div 256 = 64 + ihl
  /\ w[2] >= 2 * Len(w)
  /\ w[4] < 32768
  /\ ipv4_checksum(w) = 0

\* The packet arrives cut to some length or whole, and at most one byte of its
\* header has changed; not the header length, which says what is summed.
OneFault(p) ==
  LET w == p.written
  IN  /\ WrittenHeader(w)
      /\ p.words \in Seq(Word)
      /\ Len(p.words) \in Min({p.capacity \div 2, Len(w)}) .. p.capacity \div 2
      /\ \A i, j \in Changed(p) : i = j
      /\ \A i \in Changed(p) :
           \/ p.words[i] \div 256 = w[i] \div 256
           \/ p.words[i] % 256 = w[i] % 256 /\ i # 1

\* ipv4_receive takes exactly the whole, unfragmented packets for this host
\* whose header is as the sender wrote it: the checks let no packet through
\* that was cut short or has one byte of its header changed, and none of them
\* rejects a good one.  (What more than one changed byte does to the sum can
\* cancel out.)
ReceiveExact ==
  last.kind = "received" /\ OneFault(last.packet) =>
    LET p == last.packet
        w == p.written
    IN  Accepted(p) <=> /\ IsPrefix(w, p.words)
                        /\ w[2] <= p.capacity
                        /\ w[4] \in {0, 16384}
                        /\ <<w[9], w[10]>> \in {LocalIp, Broadcast}

\* Every packet ipv4_send builds is one that ipv4_receive of the addressed
\* host takes, with the length and the protocol the caller gave.
SentIsAccepted ==
  last.kind = "sent" =>
    LET p == last.packet
    IN  /\ ~ (Short(p) \/ Malformed(p) \/ BadLength(p) \/ BadChecksum(p) \/ Fragment(p))
        /\ DstIp(p) = last.ip
        /\ TotalLength(p) = HeaderLen(p) + last.len
        /\ Protocol(p) = last.protocol

\* The arp command takes exactly the dotted quads and asks for the address they
\* mean, and the text print_ipv4 prints of an address is read as that address.
ParseExact ==
  /\ last.kind = "usage" => ~ IsDottedQuad(last.text)
  /\ last.kind = "asked" =>
       LET ip == last.request.ip
       IN  /\ IsDottedQuad(last.text)
           /\ ip = Meaning(last.text)
           /\ parse_ipv4(print_ipv4(ip)) = [ok |-> TRUE, ip |-> ip]
=============================================================================
