---------------------------- MODULE NetInvariant ----------------------------
(***************************************************************************)
(* The inductive invariant of NetDriver, one part for each of the things   *)
(* its two contexts and the device share: the transmit queue, the receive  *)
(* queue with its buffers, the capture ring and the ARP cache.             *)
(***************************************************************************)
EXTENDS NetDriver

Indexes == 0 .. INDEX_MOD - 1
Queues == [avail : [Ring -> Descs], avail_index : Indexes, used : [Ring -> Descs],
           used_index : Indexes, submitted_index : Indexes,
           consumed_used_index : Indexes, taken : Indexes]

\* A trap is taken for some source, so the handler of the claim is known.
Claims ==
  /\ plic \in [pending : SUBSET Sources, claimed : SUBSET Sources]
  /\ ipc \in {"none", "claim", "status", "ack", "rx", "frame", "tx", "complete", "sret"}
  /\ ipc = "claim" => plic.pending # {}

\* Where the frame to send can be: nowhere, in the available ring, with the
\* device, in the used ring.  The device may still owe the interrupt for a frame
\* that a receive interrupt has reaped.
Before == {"idle", "pop", "poll", "read", "tx_clear", "tx_kick"}
During == {"tx_notify", "wait", "test", "wfi", "window"}
After == {"restore", "woken"}

TxFree ==
  /\ tx.avail_index = tx.taken /\ tx.taken = tx.used_index
  /\ tx.used_index = tx.consumed_used_index
  /\ dtx \in {"idle", "used"}
TxQueued ==
  /\ tx.avail_index = Incr(tx.taken) /\ tx.taken = tx.used_index
  /\ tx.used_index = tx.consumed_used_index
  /\ dtx \in {"idle", "used"}
TxWorking ==
  /\ tx.avail_index = tx.taken /\ tx.taken = Incr(tx.used_index)
  /\ tx.used_index = tx.consumed_used_index
  /\ dtx \in {"taken", "sent"}
TxReturned ==
  /\ tx.avail_index = tx.taken /\ tx.taken = tx.used_index
  /\ tx.used_index = Incr(tx.consumed_used_index)
  /\ dtx \in {"idle", "used"}

\* One frame at a time, and net_tx_done says that it has made the whole way.
OneFrame ==
  /\ kpc \in Before \cup During \cup After
  /\ ret \in {"idle", "read"}
  /\ tx \in Queues /\ tx_done \in BOOLEAN
  /\ tx.submitted_index = tx.avail_index
  /\ kpc \in Before \cup After => TxFree
  /\ kpc \in During => IF tx_done THEN TxFree ELSE TxQueued \/ TxWorking \/ TxReturned
  /\ kpc \in After => tx_done
  /\ kpc = "tx_kick" => ~ tx_done

\* The receive descriptors in the order in which the handler will see them: the
\* one it has, those in the used ring, the one being filled, those still free.
Handling == IF ipc = "frame" THEN 1 ELSE 0
Useds == Ahead(rx.used_index, rx.consumed_used_index)
Filling == IF drx.at = "filled" THEN 1 ELSE 0
Avails == Ahead(rx.avail_index, rx.taken)
Full == Handling + Useds + Filling
Place ==
  [k \in 1 .. VIRTQ_ENTRY_NUM |->
     IF k <= Handling THEN desc
     ELSE IF k <= Handling + Useds THEN rx.used[Slot(rx.consumed_used_index + (k - Handling - 1))]
     ELSE IF k <= Full THEN drx.desc
     ELSE rx.avail[Slot(rx.taken + (k - Full - 1))]]

\* Every descriptor has exactly one place, and the frames on their way are in
\* the first ones.
Contents == Frames \cup {NoFrame}
BuffersPlaced ==
  /\ rx \in Queues
  /\ rxbuf \in [Descs -> Contents]
  /\ Full + Avails = VIRTQ_ENTRY_NUM
  /\ \A k \in 1 .. VIRTQ_ENTRY_NUM : Place[k] \in Descs
  /\ \A j, k \in 1 .. VIRTQ_ENTRY_NUM : Place[j] = Place[k] => j = k
  /\ \A d \in Descs : \E k \in 1 .. VIRTQ_ENTRY_NUM : Place[k] = d
  /\ flying = [k \in 1 .. Full |-> rxbuf[Place[k]]]

\* The capture ring is a record whose indexes are in range.
CaptureShape ==
  /\ capture = [slot |-> capture.slot, write |-> capture.write, read |-> capture.read]
  /\ capture.slot = [i \in CaptureSlots |-> capture.slot[i]]
  /\ capture.write \in Indexes /\ capture.read \in Indexes

\* A host has at most one entry, with what was heard last; hosts are forgotten
\* only when there are too many.
Hosts == {ip \in Ips : heard[ip] # NoMac}
Entry(i, ip) == arp.cache[i].valid = TRUE /\ arp.cache[i].ip = ip
HostsCached ==
  /\ arp = [cache |-> arp.cache, reply |-> arp.reply]
  /\ arp.cache = [i \in CacheSlots |-> arp.cache[i]]
  /\ heard \in [Ips -> Macs \cup {NoMac}]
  /\ \A i \in CacheSlots :
       \/ arp.cache[i].valid = FALSE
       \/ \E ip \in Hosts : Entry(i, ip) /\ arp.cache[i].mac = heard[ip]
  /\ \A i, j \in CacheSlots : \A ip \in Ips : Entry(i, ip) /\ Entry(j, ip) => i = j
  /\ \/ \A ip \in Hosts : \E i \in CacheSlots : Entry(i, ip)
     \/ Cardinality(Hosts) > ARP_CACHE_SIZE

IInv == Claims /\ OneFrame /\ BuffersPlaced /\ CaptureShape /\ CaptureFifo /\ HostsCached
=============================================================================
