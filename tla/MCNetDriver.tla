---------------------------- MODULE MCNetDriver ----------------------------
(***************************************************************************)
(* NetDriver on small instances.  The frames: a request from each of two   *)
(* hosts, a reply in which the first host has another address, a request   *)
(* meant for another host whose sender claims the local address, a         *)
(* malformed request, a runt and a frame of another protocol.              *)
(***************************************************************************)
EXTENDS NetDriver, SequencesExt

\* virtio_net_init_rx is what pushing the descriptors one by one gives.
ASSUME InitPushesAll ==
  virtio_net_init_rx =
    FoldLeft(virtq_push, virtq_init(0), [i \in 1 .. VIRTQ_ENTRY_NUM |-> i - 1])

MCIps == {"a", "b", LocalIp}
\* Enough where no ARP frame arrives.
OneIp == {"a"}
MCMacs == {"m1", "m2"}

Packet(valid, op, ip, mac, target) ==
  [kind |-> "arp", arp |-> [valid |-> valid, op |-> op, ip |-> ip, mac |-> mac, target |-> target]]

RequestA == Packet(TRUE, "request", "a", "m1", LocalIp)
RequestB == Packet(TRUE, "request", "b", "m2", LocalIp)
MovedA == Packet(TRUE, "reply", "a", "m2", LocalIp)
ElsewhereLocal == Packet(TRUE, "request", LocalIp, "m1", "a")
MalformedB == Packet(FALSE, "request", "b", "m1", LocalIp)
Runt == [kind |-> "runt"]
Data == [kind |-> "data"]

ArpFrames == {RequestA, RequestB, MovedA, ElsewhereLocal, MalformedB}
OtherFrames == {Runt, Data}
Requests == {RequestA, RequestB}
=============================================================================
