----------------------------- MODULE NetDriver -----------------------------
(***************************************************************************)
(* kernel/virtio_net.c with its two virtqueues, the capture ring, the ARP  *)
(* state the receive path feeds, and the two contexts that use it:         *)
(*   - the boot-time tests, interrupts on: virtio_net_send_test_packet and *)
(*     virtio_net_pop_rx_frame;                                            *)
(*   - the shell, which alternates between user mode, where every pending  *)
(*     interrupt is taken, and system calls, where none is except in the   *)
(*     window of wait_for_interrupt.                                       *)
(* kpc = "idle" is the boot code between calls, or the shell in user mode. *)
(***************************************************************************)
EXTENDS Irq, Virtq, Arp, Sequences

CONSTANTS Frames,              \* the frames the network delivers
          NET_RX_CAPTURE_NUM,
          MAX_EVENTS,          \* bound on the frames delivered and config changes
          MAX_SENDS,           \* bound on the sends of the tests and the shell
          STARTS_IN_BOOT       \* the boot tests run before the shell

NoMac == "no mac"

\* A runt is shorter than an Ethernet header; "data" is any other ethertype.
ASSUME NetAssumption ==
  /\ Frames \subseteq ([kind : {"runt", "data"}] \cup [kind : {"arp"}, arp : Packets])
  /\ NoMac \notin Macs
  /\ NET_RX_CAPTURE_NUM \in Nat \ {0}
  /\ INDEX_MOD % NET_RX_CAPTURE_NUM = 0 /\ INDEX_MOD > NET_RX_CAPTURE_NUM
  /\ MAX_EVENTS \in Nat
  /\ MAX_SENDS \in Nat
  /\ STARTS_IN_BOOT \in BOOLEAN

VARIABLES
  boot,      \* still in the boot-time tests
  rx,        \* net_rx_vq, its used elements naming the descriptor
  rxbuf,     \* net_rx_bufs; NoFrame in the buffers the driver has given away
  tx,        \* net_tx_vq
  txbuf,     \* net_tx_buf
  tx_done,   \* net_tx_done
  ret,       \* where the running send returns to
  capture,   \* net_rx_captures, net_rx_capture_write and net_rx_capture_read
  arp,       \* arp_cache and pending_reply
  key,       \* a character waits at the console
  desc,      \* the handler's desc_index
  recycled,  \* the handler's local
  status,    \* the handler's copy of the interrupt status
  isr,       \* device: the interrupt status register
  drx,       \* device: where the receive side is, and with which descriptor
  stalled,   \* device: no receive buffer was left when it last looked
  dtx,       \* device: where the transmit side is
  notified,  \* device: the transmit queue was notified
  events,    \* frames delivered and config changes so far
  sends,     \* sends so far
  flying,    \* history: frames delivered and not yet seen by the handler
  kept,      \* history: frames captured and not yet popped
  heard,     \* history: the last mapping received from each address
  owed       \* history: the address whose request is the last unanswered one

kernelVars == <<boot, ret, key, sends>>
queueVars == <<rx, rxbuf, tx, txbuf, tx_done>>
protoVars == <<capture, arp>>
handlerVars == <<desc, recycled, status>>
devVars == <<isr, drx, stalled, dtx, notified, events>>
histVars == <<flying, kept, heard, owed>>
vars == <<irqVars, kernelVars, queueVars, protoVars, handlerVars, devVars, histVars>>

USED_BUFFER == "used buffer"
CONFIG_CHANGE == "config change"

Descs == Ring
NoFrame == [kind |-> "none"]
TestFrame == [kind |-> "test"]
Outgoing == {TestFrame} \cup {RequestFrame(i) : i \in Ips}
              \cup [kind : {"reply"}, dst : Macs, ip : Ips]
NoDesc == -1
NoIp == "no ip"

CaptureSlots == 0 .. NET_RX_CAPTURE_NUM - 1

\* The receive queue after the loop of virtio_net_init, which pushes every
\* descriptor in order.
virtio_net_init_rx ==
  [virtq_init(0) EXCEPT !.avail = [k \in Ring |-> k], !.avail_index = VIRTQ_ENTRY_NUM]

\* virtio_net_init queues every receive descriptor and notifies the device.
Init ==
  /\ IrqInit
  /\ boot = STARTS_IN_BOOT
  /\ rx = virtio_net_init_rx
  /\ rxbuf = [d \in Descs |-> NoFrame]
  /\ tx = virtq_init(0)
  /\ txbuf = NoFrame
  /\ tx_done = FALSE
  /\ ret = "idle"
  /\ capture = [slot |-> [i \in CaptureSlots |-> NoFrame], write |-> 0, read |-> 0]
  /\ arp = arp_init
  /\ key = FALSE
  /\ desc = NoDesc /\ recycled = FALSE /\ status = {}
  /\ isr = {}
  /\ drx = [at |-> "idle", desc |-> NoDesc]
  /\ stalled = FALSE
  /\ dtx = "idle"
  /\ notified = FALSE
  /\ events = 0 /\ sends = 0
  /\ flying = <<>> /\ kept = <<>>
  /\ heard = [i \in Ips |-> NoMac]
  /\ owed = NoIp
-----------------------------------------------------------------------------
(* The kernel thread: the boot tests and the shell's system calls. *)

Goto(from, to) ==
  /\ KernelAt(from)
  /\ kpc' = to
  /\ UNCHANGED <<saved, plic, ipc, irq>>

\* User code runs once no interrupt is pending; boot code may be slower to be
\* interrupted.
IdleRuns == boot \/ ~ Deliverable

\* virtio_net_send_test_packet from the tests; SYS_SEND and SYS_ARP_REQUEST from
\* the shell.  A length out of range returns -1 at once and changes nothing.
Send(f) ==
  /\ Goto("idle", "tx_clear")
  /\ IdleRuns
  /\ sends < MAX_SENDS
  /\ sends' = sends + 1
  /\ boot => f = TestFrame
  /\ sie' = boot
  /\ ret' = "idle"
  /\ txbuf' = f
  /\ UNCHANGED <<boot, key, rx, rxbuf, tx, tx_done, protoVars, handlerVars, devVars, histVars>>

\* virtio_net_pop_rx_frame turns interrupts off, takes the oldest captured
\* frame if there is one, and restores sstatus.
PopEnter ==
  /\ boot
  /\ Goto("idle", "pop")
  /\ sie' = FALSE
  /\ UNCHANGED <<kernelVars, queueVars, protoVars, handlerVars, devVars, histVars>>

PopFrame ==
  /\ Goto("pop", "idle")
  /\ sie' = TRUE
  /\ IF capture.read = capture.write
     THEN UNCHANGED <<capture, kept>>
     ELSE /\ capture' = [capture EXCEPT !.slot[capture.read % NET_RX_CAPTURE_NUM] = NoFrame,
                                        !.read = Incr(@)]
          /\ kept' = Tail(kept)
  /\ UNCHANGED <<kernelVars, queueVars, arp, handlerVars, devVars, flying, heard, owed>>

StartShell ==
  /\ boot
  /\ KernelAt("idle")
  /\ boot' = FALSE
  /\ UNCHANGED <<irqVars, ret, key, sends, queueVars, protoVars, handlerVars, devVars, histVars>>

\* SYS_GETCHAR: poll ARP, read the console, yield (to nobody), and again.
Getchar ==
  /\ ~ boot
  /\ IdleRuns
  /\ Goto("idle", "poll")
  /\ sie' = FALSE
  /\ UNCHANGED <<kernelVars, queueVars, protoVars, handlerVars, devVars, histVars>>

ArpPollNothing ==
  /\ Goto("poll", "read")
  /\ ~ arp.reply.pending
  /\ UNCHANGED <<sie, kernelVars, queueVars, protoVars, handlerVars, devVars, histVars>>

ArpPollReply ==
  /\ Goto("poll", "tx_clear")
  /\ arp.reply.pending
  /\ arp' = arp_take_reply(arp)
  /\ txbuf' = ReplyFrame(arp.reply)
  /\ ret' = "read"
  /\ UNCHANGED <<sie, boot, key, sends, rx, rxbuf, tx, tx_done, capture, handlerVars,
                 devVars, histVars>>

ReadNothing ==
  /\ Goto("read", "poll")
  /\ ~ key
  /\ UNCHANGED <<sie, kernelVars, queueVars, protoVars, handlerVars, devVars, histVars>>

ReadKey ==
  /\ Goto("read", "idle")
  /\ key
  /\ key' = FALSE
  /\ sie' = TRUE
  /\ UNCHANGED <<boot, ret, sends, queueVars, protoVars, handlerVars, devVars, histVars>>

\* Mutation: without net_tx_done = false.
TxClearMissing ==
  /\ Goto("tx_clear", "tx_kick")
  /\ UNCHANGED <<sie, kernelVars, queueVars, protoVars, handlerVars, devVars, histVars>>

\* The rest of virtio_net_send_ethernet, once the buffer is filled.
TxClear ==
  /\ Goto("tx_clear", "tx_kick")
  /\ tx_done' = FALSE
  /\ UNCHANGED <<sie, kernelVars, rx, rxbuf, tx, txbuf, protoVars, handlerVars, devVars, histVars>>

TxKick ==
  /\ Goto("tx_kick", "tx_notify")
  /\ tx' = virtq_submit(tx, 0)
  /\ UNCHANGED <<sie, kernelVars, rx, rxbuf, txbuf, tx_done, protoVars, handlerVars,
                 devVars, histVars>>

TxNotify ==
  /\ Goto("tx_notify", "wait")
  /\ notified' = TRUE
  /\ UNCHANGED <<sie, kernelVars, queueVars, protoVars, handlerVars,
                 isr, drx, stalled, dtx, events, histVars>>

Wait ==
  /\ WaitEnter \/ WaitTest(tx_done) \/ WaitWfi \/ WaitClose \/ WaitRestore
  /\ UNCHANGED <<kernelVars, queueVars, protoVars, handlerVars, devVars, histVars>>

WaitSpurious ==
  /\ WaitWfiSpurious
  /\ UNCHANGED <<kernelVars, queueVars, protoVars, handlerVars, devVars, histVars>>

TxReturn ==
  /\ Goto("woken", ret)
  /\ sie' = IF ret = "idle" /\ ~ boot THEN TRUE ELSE sie
  /\ ret' = "idle"
  /\ txbuf' = NoFrame
  /\ UNCHANGED <<boot, key, sends, rx, rxbuf, tx, tx_done, protoVars, handlerVars,
                 devVars, histVars>>
-----------------------------------------------------------------------------
(* The trap handler: handle_external_interrupt and virtio_net_irq. *)

TakeTrap ==
  /\ Trap
  /\ UNCHANGED <<kernelVars, queueVars, protoVars, handlerVars, devVars, histVars>>

HandlerClaim ==
  /\ Claim([src \in Sources |-> "status"])
  /\ UNCHANGED <<kernelVars, queueVars, protoVars, handlerVars, devVars, histVars>>

HandlerAt(from, to) ==
  /\ ipc = from
  /\ ipc' = to
  /\ UNCHANGED <<kpc, sie, saved, plic, irq, kernelVars>>

HandlerStatus ==
  /\ HandlerAt("status", "ack")
  /\ status' = isr
  /\ UNCHANGED <<queueVars, protoVars, desc, recycled, devVars, histVars>>

HandlerAck ==
  /\ HandlerAt("ack", IF USED_BUFFER \in status THEN "rx" ELSE "complete")
  /\ isr' = isr \ status
  /\ status' = {}
  /\ UNCHANGED <<queueVars, protoVars, desc, recycled, drx, stalled, dtx, notified,
                 events, histVars>>

\* The loop head of virtio_net_drain_rx; the notification follows the loop.
HandlerPopRx ==
  /\ HandlerAt("rx", "frame")
  /\ virtq_has_used(rx)
  /\ rx' = virtq_pop_used(rx)
  /\ desc' = virtq_used_elem(rx)
  /\ UNCHANGED <<rxbuf, tx, txbuf, tx_done, protoVars, recycled, status, devVars, histVars>>

\* Mutation: without the notification after recycling.
HandlerEndRxSilent ==
  /\ HandlerAt("rx", "tx")
  /\ ~ virtq_has_used(rx)
  /\ recycled' = FALSE
  /\ UNCHANGED <<queueVars, protoVars, desc, status, devVars, histVars>>

HandlerEndRx ==
  /\ HandlerAt("rx", "tx")
  /\ ~ virtq_has_used(rx)
  /\ stalled' = (stalled /\ ~ recycled)
  /\ recycled' = FALSE
  /\ UNCHANGED <<queueVars, protoVars, desc, status, isr, drx, dtx, notified, events, histVars>>

\* Mutation: > in place of >=.
CaptureFullLate ==
  (capture.write - capture.read) % INDEX_MOD > NET_RX_CAPTURE_NUM

CaptureFull ==
  (capture.write - capture.read) % INDEX_MOD >= NET_RX_CAPTURE_NUM

\* virtio_net_capture_rx; a full ring drops the new frame.
Captured(f) ==
  IF CaptureFull THEN capture
  ELSE [capture EXCEPT !.slot[capture.write % NET_RX_CAPTURE_NUM] = f, !.write = Incr(@)]

\* The loop body: capture, protocol input, and the buffer goes back.
HandlerFrame ==
  /\ HandlerAt("frame", "rx")
  /\ LET f == rxbuf[desc] IN
     /\ capture' = IF f.kind = "runt" THEN capture ELSE Captured(f)
     /\ arp' = IF f.kind = "arp" THEN arp_receive(arp, f.arp) ELSE arp
     /\ kept' = IF f.kind = "runt" \/ CaptureFull THEN kept ELSE Append(kept, f)
     /\ heard' = IF f.kind = "arp" /\ f.arp.valid
                 THEN [heard EXCEPT ![f.arp.ip] = f.arp.mac] ELSE heard
     /\ flying' = Tail(flying)
  /\ rx' = virtq_push(rx, desc)
  /\ rxbuf' = [rxbuf EXCEPT ![desc] = NoFrame]
  /\ desc' = NoDesc
  /\ recycled' = TRUE
  /\ UNCHANGED <<tx, txbuf, tx_done, status, devVars, owed>>

\* virtio_net_drain_tx.
HandlerPopTx ==
  /\ HandlerAt("tx", "tx")
  /\ virtq_has_used(tx)
  /\ tx' = virtq_pop_used(tx)
  /\ tx_done' = TRUE
  /\ UNCHANGED <<rx, rxbuf, txbuf, protoVars, handlerVars, devVars, histVars>>

HandlerEndTx ==
  /\ HandlerAt("tx", "complete")
  /\ ~ virtq_has_used(tx)
  /\ UNCHANGED <<queueVars, protoVars, handlerVars, devVars, histVars>>

HandlerReturn ==
  /\ Complete \/ Sret
  /\ UNCHANGED <<kernelVars, queueVars, protoVars, handlerVars, devVars, histVars>>
-----------------------------------------------------------------------------
(* The device, the interrupt line and the console. *)

RxArrive(f) ==
  /\ drx.at = "idle"
  /\ ~ stalled
  /\ events < MAX_EVENTS
  /\ DevHasAvail(rx)
  /\ events' = events + 1
  /\ rx' = DevTake(rx)
  /\ rxbuf' = [rxbuf EXCEPT ![DevHead(rx)] = f]
  /\ drx' = [at |-> "filled", desc |-> DevHead(rx)]
  /\ flying' = Append(flying, f)
  /\ owed' = IF f.kind = "arp" /\ f.arp.valid /\ Asks(f.arp)
             THEN f.arp.ip ELSE owed
  /\ UNCHANGED <<irqVars, kernelVars, tx, txbuf, tx_done, protoVars, handlerVars,
                 isr, stalled, dtx, notified, kept, heard>>

\* Without a buffer the device holds frames back until it is notified.
RxStall ==
  /\ drx.at = "idle"
  /\ ~ stalled
  /\ ~ DevHasAvail(rx)
  /\ stalled' = TRUE
  /\ UNCHANGED <<irqVars, kernelVars, queueVars, protoVars, handlerVars,
                 isr, drx, dtx, notified, events, histVars>>

RxUsed ==
  /\ drx.at = "filled"
  /\ rx' = DevPut(rx, drx.desc)
  /\ drx' = [at |-> "used", desc |-> NoDesc]
  /\ UNCHANGED <<irqVars, kernelVars, rxbuf, tx, txbuf, tx_done, protoVars, handlerVars,
                 isr, stalled, dtx, notified, events, histVars>>

RxInterrupt ==
  /\ drx.at = "used"
  /\ isr' = isr \cup {USED_BUFFER}
  /\ drx' = [at |-> "idle", desc |-> NoDesc]
  /\ UNCHANGED <<irqVars, kernelVars, queueVars, protoVars, handlerVars,
                 stalled, dtx, notified, events, histVars>>

TxTake ==
  /\ dtx = "idle"
  /\ notified
  /\ IF DevHasAvail(tx)
     THEN tx' = DevTake(tx) /\ dtx' = "taken" /\ UNCHANGED notified
     ELSE notified' = FALSE /\ UNCHANGED <<tx, dtx>>
  /\ UNCHANGED <<irqVars, kernelVars, rx, rxbuf, txbuf, tx_done, protoVars, handlerVars,
                 isr, drx, stalled, events, histVars>>

TxSend ==
  /\ dtx = "taken"
  /\ dtx' = "sent"
  /\ owed' = IF txbuf.kind = "reply" /\ txbuf.ip = owed THEN NoIp ELSE owed
  /\ UNCHANGED <<irqVars, kernelVars, queueVars, protoVars, handlerVars,
                 isr, drx, stalled, notified, events, flying, kept, heard>>

TxUsed ==
  /\ dtx = "sent"
  /\ tx' = DevPut(tx, 0)
  /\ dtx' = "used"
  /\ UNCHANGED <<irqVars, kernelVars, rx, rxbuf, txbuf, tx_done, protoVars, handlerVars,
                 isr, drx, stalled, notified, events, histVars>>

TxInterrupt ==
  /\ dtx = "used"
  /\ isr' = isr \cup {USED_BUFFER}
  /\ dtx' = "idle"
  /\ UNCHANGED <<irqVars, kernelVars, queueVars, protoVars, handlerVars,
                 drx, stalled, notified, events, histVars>>

ConfigChange ==
  /\ events < MAX_EVENTS
  /\ events' = events + 1
  /\ isr' = isr \cup {CONFIG_CHANGE}
  /\ UNCHANGED <<irqVars, kernelVars, queueVars, protoVars, handlerVars,
                 drx, stalled, dtx, notified, histVars>>

LineNet ==
  /\ isr # {}
  /\ Latch(VIRTIO_NET_IRQ)
  /\ UNCHANGED <<kernelVars, queueVars, protoVars, handlerVars, devVars, histVars>>

KeyTyped ==
  /\ ~ boot
  /\ ~ key
  /\ key' = TRUE
  /\ UNCHANGED <<irqVars, boot, ret, sends, queueVars, protoVars, handlerVars, devVars, histVars>>
-----------------------------------------------------------------------------
Kernel ==
  \/ Getchar \/ ArpPollNothing \/ ArpPollReply \/ ReadNothing \/ ReadKey
  \/ TxClear \/ TxKick \/ TxNotify \/ Wait \/ TxReturn
  \/ PopFrame

Handler ==
  \/ HandlerClaim \/ HandlerStatus \/ HandlerAck
  \/ HandlerPopRx \/ HandlerFrame \/ HandlerEndRx
  \/ HandlerPopTx \/ HandlerEndTx \/ HandlerReturn

Device ==
  RxUsed \/ RxInterrupt \/ TxTake \/ TxSend \/ TxUsed \/ TxInterrupt \/ LineNet

Next ==
  \/ \E f \in Outgoing : f.kind # "reply" /\ Send(f)
  \/ PopEnter
  \/ StartShell
  \/ Kernel
  \/ WaitSpurious
  \/ TakeTrap
  \/ Handler
  \/ Device
  \/ \E f \in Frames : RxArrive(f)
  \/ RxStall
  \/ ConfigChange
  \/ KeyTyped

Spec == Init /\ [][Next]_vars

\* The hart runs, a deliverable interrupt is taken, the device serves what it
\* was given.  Nothing is assumed of the network or of the person typing.
FairSpec ==
  /\ Spec
  /\ WF_vars(Kernel)
  /\ WF_vars(TakeTrap)
  /\ WF_vars(Handler)
  /\ WF_vars(Device)

\* Someone keeps typing.
TypingSpec == FairSpec /\ WF_vars(KeyTyped)
-----------------------------------------------------------------------------
(* Properties. *)

\* The indexes from lo up to, not including, hi.
IndexesFrom(lo, hi) == {(lo + k) % INDEX_MOD : k \in 0 .. Ahead(hi, lo) - 1}

\* No receive buffer is lost or queued twice: each descriptor is in exactly one
\* of the available ring, the device, the used ring and the handler's hands
\* (virtio_net_drain_rx requeues what virtq_pop_used gave it, while the device
\* goes on filling the others).
BuffersConserved ==
  LET avail == IndexesFrom(rx.taken, rx.avail_index)
      used == IndexesFrom(rx.consumed_used_index, rx.used_index)
      held == (IF drx.at = "filled" THEN {drx.desc} ELSE {})
      handled == (IF ipc = "frame" THEN {desc} ELSE {})
  IN /\ Cardinality(avail) + Cardinality(used) + Cardinality(held) + Cardinality(handled)
          = VIRTQ_ENTRY_NUM
     /\ {rx.avail[Slot(k)] : k \in avail} \cup {rx.used[Slot(k)] : k \in used}
          \cup held \cup handled = Descs

\* Frames are handled in the order they were delivered, each once, with the
\* contents they were delivered with: the buffers between the device and the
\* handler, read in ring order, are the frames delivered and not yet handled.
FramesInOrder ==
  LET used == Ahead(rx.used_index, rx.consumed_used_index)
  IN flying =
       (IF ipc = "frame" THEN <<rxbuf[desc]>> ELSE <<>>)
       \o [k \in 1 .. used |-> rxbuf[rx.used[Slot(rx.consumed_used_index + k - 1)]]]
       \o (IF drx.at = "filled" THEN <<rxbuf[drx.desc]>> ELSE <<>>)

\* The capture ring between the handler and virtio_net_pop_rx_frame is a FIFO
\* that drops new frames when full: its slots from read to write hold exactly
\* the frames kept and not yet popped, oldest first, across the index wrap.
CaptureFifo ==
  /\ Ahead(capture.write, capture.read) <= NET_RX_CAPTURE_NUM
  /\ kept = [k \in 1 .. Ahead(capture.write, capture.read)
              |-> capture.slot[(capture.read + k - 1) % NET_RX_CAPTURE_NUM]]

\* arp_lookup never answers with an outdated address: what it finds is the last
\* mapping heard from that host; and it finds every host heard as long as no
\* more hosts were heard than the cache has entries (arp_cache_update never
\* keeps two entries for a host and never evicts while an entry is free).
CacheCoherent ==
  /\ \A ip \in Ips : arp_lookup(arp.cache, ip).found
                    => arp_lookup(arp.cache, ip).mac = heard[ip]
  /\ Cardinality({ip \in Ips : heard[ip] # NoMac}) <= ARP_CACHE_SIZE
       => \A ip \in Ips : heard[ip] # NoMac => arp_lookup(arp.cache, ip).found

\* The one transmit buffer is filled only when the device is done with the frame
\* before: while a frame is in flight its sender is between the kick and the end
\* of its wait (a receive interrupt may drain the transmit queue early).
TxBufferExclusive ==
  tx.used_index # tx.avail_index => kpc \in {"tx_notify", "wait", "test", "wfi", "window"}

\* A send returns only after its own frame was transmitted and reaped, never on
\* the completion of an earlier one.
TxDoneMeansSent ==
  (tx_done /\ kpc \in {"tx_kick", "tx_notify", "restore", "woken"} \cup WaitSteps)
    => tx.consumed_used_index = tx.submitted_index

\* Every request for the local address is answered, unless a later request
\* takes its place in pending_reply first.
RequestAnswered == owed # NoIp ~> owed = NoIp

\* Every frame delivered is handled, and a device that ran out of buffers gets
\* some back: no interrupt is lost between the acknowledgement, the drain and
\* the completion at the PLIC.
ReceiveProgress ==
  /\ flying # <<>> ~> flying = <<>>
  /\ stalled ~> ~ stalled
=============================================================================
