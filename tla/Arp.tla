-------------------------------- MODULE Arp --------------------------------
(***************************************************************************)
(* The state of kernel/arp.c and its operations as operators: the cache    *)
(* and the one pending reply.  arp_receive runs in the interrupt handler,  *)
(* the other operations in the kernel thread with interrupts off.          *)
(***************************************************************************)
EXTENDS Integers, FiniteSetsExt

CONSTANTS ARP_CACHE_SIZE,
          Ips,      \* the addresses packets carry, the local one perhaps among them
          LocalIp,  \* IPV4_LOCAL_ADDRESS
          Macs

ASSUME ArpAssumption ==
  /\ ARP_CACHE_SIZE \in Nat \ {0}
  /\ IsFiniteSet(Ips)

CacheSlots == 0 .. ARP_CACHE_SIZE - 1

EmptyEntry == [valid |-> FALSE]

NoReply == [pending |-> FALSE]

\* An ARP packet; valid is what arp_receive finds out from the length, the types
\* and the address lengths.
Packets == [valid : BOOLEAN, op : {"request", "reply"}, ip : Ips, mac : Macs,
            target : Ips \cup {LocalIp}]

arp_init == [cache |-> [i \in CacheSlots |-> EmptyEntry], reply |-> NoReply]

Matching(cache, ip) == {i \in CacheSlots : cache[i].valid /\ cache[i].ip = ip}
Invalid(cache) == {i \in CacheSlots : ~ cache[i].valid}

\* Mutation: a free entry taken before the search for the address ends.
arp_cache_update_free_first(cache, ip, mac) ==
  LET i == IF Invalid(cache) # {} THEN Min(Invalid(cache))
           ELSE IF Matching(cache, ip) # {} THEN Min(Matching(cache, ip))
           ELSE 0
  IN [cache EXCEPT ![i] = [valid |-> TRUE, ip |-> ip, mac |-> mac]]

\* The entry of the address, else the first free one, else entry 0.
arp_cache_update(cache, ip, mac) ==
  LET i == IF Matching(cache, ip) # {} THEN Min(Matching(cache, ip))
           ELSE IF Invalid(cache) # {} THEN Min(Invalid(cache))
           ELSE 0
  IN [cache EXCEPT ![i] = [valid |-> TRUE, ip |-> ip, mac |-> mac]]

\* A request for the local address.
Asks(p) == p.op = "request" /\ p.target = LocalIp

\* Mutation: a pending reply that is not replaced.
arp_receive_first_wins(arp, p) ==
  IF ~ p.valid THEN arp
  ELSE [cache |-> arp_cache_update(arp.cache, p.ip, p.mac),
        reply |-> IF Asks(p) /\ ~ arp.reply.pending
                  THEN [pending |-> TRUE, ip |-> p.ip, mac |-> p.mac]
                  ELSE arp.reply]

\* Every valid packet updates the cache, its sender's address the local one or
\* not.  Only a request for the local address leaves a reply to send; a later
\* one replaces an earlier one that was not sent yet.
arp_receive(arp, p) ==
  IF ~ p.valid THEN arp
  ELSE [cache |-> arp_cache_update(arp.cache, p.ip, p.mac),
        reply |-> IF Asks(p)
                  THEN [pending |-> TRUE, ip |-> p.ip, mac |-> p.mac]
                  ELSE arp.reply]

\* The critical section of arp_poll, when a reply is pending.
arp_take_reply(arp) == [arp EXCEPT !.reply = NoReply]

\* The frame arp_poll builds, and the one arp_request builds.
ReplyFrame(reply) == [kind |-> "reply", dst |-> reply.mac, ip |-> reply.ip]
RequestFrame(ip) == [kind |-> "request", ip |-> ip]

arp_lookup(cache, ip) ==
  IF Matching(cache, ip) = {} THEN [found |-> FALSE]
  ELSE [found |-> TRUE, mac |-> cache[Min(Matching(cache, ip))].mac]
=============================================================================
