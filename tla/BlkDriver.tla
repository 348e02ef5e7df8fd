----------------------------- MODULE BlkDriver -----------------------------
(***************************************************************************)
(* kernel/virtio_blk.c with its virtqueue, the interrupt path and the      *)
(* device.  One kernel thread calls read_write_disk, from boot with        *)
(* interrupts on or from a system call with interrupts off; the trap       *)
(* handler and the device interleave with it step by step.                 *)
(***************************************************************************)
EXTENDS Irq, Virtq

CONSTANTS Sectors,     \* the sectors of the disk
          BadSector,   \* a sector number past the capacity
          Values,      \* sector contents
          MAX_NOISE    \* bound on interrupts that complete no request

ASSUME BlkAssumption ==
  /\ BadSector \notin Sectors
  /\ MAX_NOISE \in Nat

VARIABLES
  vq,        \* blk_request_vq
  blk_req,   \* the shared request: type, sector, data, status
  blk_done,
  call,      \* the arguments of the running read_write_disk
  buf,       \* its caller's buffer
  disk,      \* device: the medium
  isr,       \* device: the interrupt status register
  dpc,       \* device: where it is with the current request
  notified,  \* device: the queue was notified since it was last found empty
  status,    \* the handler's locals, {} and FALSE outside their scope
  completed,
  noise      \* interrupts without a completion so far

blkVars == <<vq, blk_req, blk_done, call, buf>>
devVars == <<disk, isr, dpc, notified>>
handlerVars == <<status, completed>>
vars == <<irqVars, blkVars, devVars, handlerVars, noise>>

USED_BUFFER == "used buffer"
CONFIG_CHANGE == "config change"

\* The value of call between calls.
NoCall == [kind |-> "read", sector |-> BadSector, boot |-> TRUE]
Calls == [kind : {"read", "write"}, sector : Sectors \cup {BadSector}, boot : BOOLEAN]

\* virtio_blk_init: the request page is fresh (zeroed) memory, the interrupt
\* status is acknowledged.
Init ==
  /\ IrqInit
  /\ vq = virtq_init(0)
  /\ blk_done = FALSE
  /\ call = NoCall
  /\ disk \in [Sectors -> Values]
  /\ buf \in Values
  /\ blk_req \in [kind : {"read"}, sector : {CHOOSE s \in Sectors : TRUE},
                  data : {CHOOSE v \in Values : TRUE}, status : {"ok"}]
  /\ isr = {}
  /\ dpc = "idle"
  /\ notified = FALSE
  /\ status = {}
  /\ completed = FALSE
  /\ noise = 0
-----------------------------------------------------------------------------
(* read_write_disk. *)

Goto(from, to) ==
  /\ KernelAt(from)
  /\ kpc' = to
  /\ UNCHANGED <<saved, plic, ipc, irq>>

\* The call; interrupts stay on during boot and are off in a system call.
Call(c, v) ==
  /\ Goto("idle", "check")
  /\ sie' = c.boot
  /\ call' = c
  /\ buf' = v
  /\ UNCHANGED <<vq, blk_req, blk_done, devVars, handlerVars, noise>>

\* Back to the boot code, or by sret to user mode, where interrupts are taken.
SieAfterReturn == IF call.boot THEN sie ELSE TRUE

\* The early return for a sector past the capacity.
Reject ==
  /\ Goto("check", "idle")
  /\ call.sector \notin Sectors
  /\ sie' = SieAfterReturn
  /\ call' = NoCall
  /\ UNCHANGED <<vq, blk_req, blk_done, buf, devVars, handlerVars, noise>>

Fill ==
  /\ Goto("check", "clear")
  /\ call.sector \in Sectors
  /\ blk_req' = [blk_req EXCEPT !.kind = call.kind, !.sector = call.sector,
                                !.data = IF call.kind = "write" THEN buf ELSE @]
  /\ UNCHANGED <<sie, vq, blk_done, call, buf, devVars, handlerVars, noise>>

\* Mutation: without blk_done = false.
ClearDoneMissing ==
  /\ Goto("clear", "kick")
  /\ UNCHANGED <<sie, blkVars, devVars, handlerVars, noise>>

ClearDone ==
  /\ Goto("clear", "kick")
  /\ blk_done' = FALSE
  /\ UNCHANGED <<sie, vq, blk_req, call, buf, devVars, handlerVars, noise>>

Kick ==
  /\ Goto("kick", "notify")
  /\ vq' = virtq_submit(vq, 0)
  /\ UNCHANGED <<sie, blk_req, blk_done, call, buf, devVars, handlerVars, noise>>

Notify ==
  /\ Goto("notify", "wait")
  /\ notified' = TRUE
  /\ UNCHANGED <<sie, blkVars, disk, isr, dpc, handlerVars, noise>>

Wait ==
  /\ WaitEnter \/ WaitTest(blk_done) \/ WaitWfi \/ WaitClose \/ WaitRestore
  /\ UNCHANGED <<blkVars, devVars, handlerVars, noise>>

WaitSpurious ==
  /\ WaitWfiSpurious
  /\ UNCHANGED <<blkVars, devVars, handlerVars, noise>>

\* Mutation: without the status check.
ReturnUnchecked ==
  /\ Goto("woken", "idle")
  /\ sie' = SieAfterReturn
  /\ buf' = IF call.kind = "read" THEN blk_req.data ELSE buf
  /\ call' = NoCall
  /\ UNCHANGED <<vq, blk_req, blk_done, devVars, handlerVars, noise>>

\* The status check, the copy of a read, and the return.
Return ==
  /\ Goto("woken", "idle")
  /\ sie' = SieAfterReturn
  /\ buf' = IF blk_req.status = "ok" /\ call.kind = "read" THEN blk_req.data ELSE buf
  /\ call' = NoCall
  /\ UNCHANGED <<vq, blk_req, blk_done, devVars, handlerVars, noise>>
-----------------------------------------------------------------------------
(* handle_external_interrupt and virtio_blk_irq. *)

TakeTrap ==
  /\ Trap
  /\ UNCHANGED <<blkVars, devVars, handlerVars, noise>>

HandlerClaim ==
  /\ Claim([s \in Sources |-> IF s = VIRTIO_BLK_IRQ THEN "status" ELSE "net"])
  /\ UNCHANGED <<blkVars, devVars, handlerVars, noise>>

\* The body of virtio_net_irq is in NetDriver; here it changes nothing.
HandlerNet ==
  /\ ipc = "net"
  /\ ipc' = "complete"
  /\ UNCHANGED <<kpc, sie, saved, plic, irq, blkVars, devVars, handlerVars, noise>>

HandlerStatus ==
  /\ ipc = "status"
  /\ status' = isr
  /\ ipc' = "ack"
  /\ UNCHANGED <<kpc, sie, saved, plic, irq, blkVars, devVars, completed, noise>>

\* Mutation: an acknowledgement of all bits, read or not.
HandlerAckEverything ==
  /\ ipc = "ack"
  /\ isr' = {}
  /\ ipc' = IF USED_BUFFER \in status THEN "drain" ELSE "complete"
  /\ status' = {}
  /\ UNCHANGED <<kpc, sie, saved, plic, irq, blkVars, disk, dpc, notified,
                 completed, noise>>

\* virtio_irq_ack clears the bits that were read, and no others.
HandlerAck ==
  /\ ipc = "ack"
  /\ isr' = isr \ status
  /\ ipc' = IF USED_BUFFER \in status THEN "drain" ELSE "complete"
  /\ status' = {}
  /\ UNCHANGED <<kpc, sie, saved, plic, irq, blkVars, disk, dpc, notified,
                 completed, noise>>

HandlerDrain ==
  /\ ipc = "drain"
  /\ IF virtq_has_used(vq)
     THEN /\ vq' = virtq_pop_used(vq)
          /\ completed' = TRUE
          /\ ipc' = ipc
     ELSE /\ ipc' = "done"
          /\ UNCHANGED <<vq, completed>>
  /\ UNCHANGED <<kpc, sie, saved, plic, irq, blk_req, blk_done, call, buf,
                 devVars, status, noise>>

HandlerDone ==
  /\ ipc = "done"
  /\ blk_done' = (blk_done \/ completed)
  /\ completed' = FALSE
  /\ ipc' = "complete"
  /\ UNCHANGED <<kpc, sie, saved, plic, irq, vq, blk_req, call, buf,
                 devVars, status, noise>>

HandlerReturn ==
  /\ Complete \/ Sret
  /\ UNCHANGED <<blkVars, devVars, handlerVars, noise>>

Handler ==
  \/ HandlerClaim
  \/ HandlerNet
  \/ HandlerStatus
  \/ HandlerAck
  \/ HandlerDrain
  \/ HandlerDone
  \/ HandlerReturn
-----------------------------------------------------------------------------
(* The device and the interrupt lines. *)

DeviceTake ==
  /\ dpc = "idle"
  /\ notified
  /\ IF DevHasAvail(vq)
     THEN vq' = DevTake(vq) /\ dpc' = "taken" /\ UNCHANGED notified
     ELSE notified' = FALSE /\ UNCHANGED <<vq, dpc>>
  /\ UNCHANGED <<irqVars, blk_req, blk_done, call, buf, disk, isr, handlerVars, noise>>

DevicePerform ==
  /\ dpc = "taken"
  /\ dpc' = "performed"
  /\ disk' = IF blk_req.kind = "write"
             THEN [disk EXCEPT ![blk_req.sector] = blk_req.data] ELSE disk
  /\ blk_req' = [blk_req EXCEPT !.data = disk'[blk_req.sector], !.status = "ok"]
  /\ UNCHANGED <<irqVars, vq, blk_done, call, buf, isr, notified, handlerVars, noise>>

\* A failing read may leave anything in the data area.
DeviceFail(v) ==
  /\ dpc = "taken"
  /\ dpc' = "performed"
  /\ blk_req' = [blk_req EXCEPT !.data = IF blk_req.kind = "read" THEN v ELSE @,
                                !.status = "error"]
  /\ UNCHANGED <<irqVars, vq, blk_done, call, buf, disk, isr, notified, handlerVars, noise>>

DeviceUsed ==
  /\ dpc = "performed"
  /\ vq' = DevPut(vq, 0)
  /\ dpc' = "used"
  /\ UNCHANGED <<irqVars, blk_req, blk_done, call, buf, disk, isr, notified,
                 handlerVars, noise>>

DeviceInterrupt ==
  /\ dpc = "used"
  /\ isr' = isr \cup {USED_BUFFER}
  /\ dpc' = "idle"
  /\ UNCHANGED <<irqVars, blkVars, disk, notified, handlerVars, noise>>

LineBlk ==
  /\ isr # {}
  /\ Latch(VIRTIO_BLK_IRQ)
  /\ UNCHANGED <<blkVars, devVars, handlerVars, noise>>

ConfigChange ==
  /\ noise < MAX_NOISE
  /\ noise' = noise + 1
  /\ isr' = isr \cup {CONFIG_CHANGE}
  /\ UNCHANGED <<irqVars, blkVars, disk, dpc, notified, handlerVars>>

NetInterrupt ==
  /\ noise < MAX_NOISE
  /\ noise' = noise + 1
  /\ Latch(VIRTIO_NET_IRQ)
  /\ UNCHANGED <<blkVars, devVars, handlerVars>>

Device ==
  \/ DeviceTake
  \/ DevicePerform
  \/ \E v \in Values : DeviceFail(v)
  \/ DeviceUsed
  \/ DeviceInterrupt
  \/ LineBlk

Kernel == Reject \/ Fill \/ ClearDone \/ Kick \/ Notify \/ Wait \/ Return

Next ==
  \/ \E c \in Calls, v \in Values : Call(c, v)
  \/ Kernel
  \/ WaitSpurious
  \/ TakeTrap
  \/ Handler
  \/ Device
  \/ ConfigChange
  \/ NetInterrupt

Spec == Init /\ [][Next]_vars

\* The hart runs, a deliverable interrupt is taken, and the device serves what
\* it was notified of.  Nothing is assumed of the noise, nor of new calls.
FairSpec ==
  /\ Spec
  /\ WF_vars(Kernel)
  /\ WF_vars(TakeTrap)
  /\ WF_vars(Handler)
  /\ WF_vars(Device)
-----------------------------------------------------------------------------
(* Properties. *)

InFlight == vq.used_index # vq.avail_index

\* The request page belongs to the driver: from the start of a call until the
\* kick, and after the wait is over, the device is not working on a request,
\* so neither side reads what the other is writing (read_write_disk fills the
\* one static blk_req and copies out of it with no lock).
RequestPageExclusive ==
  (kpc \in {"idle", "check", "clear", "kick", "restore", "woken"} /\ ipc = "none")
    => /\ ~ InFlight
       /\ ~ virtq_has_used(vq)
       /\ dpc = "idle"

\* Completion is never believed early: whenever the wait loop could see
\* blk_done, the used ring has been drained up to the request just kicked and
\* virtq_is_busy would say the queue is free.
DoneMeansServed ==
  (blk_done /\ kpc \notin {"check", "clear"})
    => /\ ~ virtq_is_busy(vq)
       /\ vq.consumed_used_index = vq.avail_index

\* virtq_is_busy, the difference of submitted_index and consumed_used_index,
\* holds exactly while a kicked request has not been drained by the handler;
\* the four indexes never drift apart by more than one, across the wrap too.
IndexesAgree ==
  /\ vq.submitted_index = vq.avail_index
  /\ Ahead(vq.avail_index, vq.taken)
       + Ahead(vq.taken, vq.used_index)
       + Ahead(vq.used_index, vq.consumed_used_index) <= 1

\* wait_for_interrupt leaves sstatus as it found it: SIE is on again for boot
\* code and off for a system call, and on between calls.  A system call is
\* interrupted in the window only, and boot code nowhere else inside
\* wait_for_interrupt.
InterruptsRestored ==
  /\ kpc = "idle" /\ ipc = "none" => sie
  /\ kpc = "woken" /\ ipc = "none" => sie = call.boot
  /\ ipc # "none" =>
       /\ ~ sie
       /\ kpc = "window" \/ (call.boot /\ kpc \notin {"test", "wfi", "restore"})

\* No lost wakeup: every call of read_write_disk returns, whether the
\* completion comes before the wait, between the test of blk_done and wfi, or
\* in the window, and whatever other interrupts come with it.
CallReturns == kpc # "idle" ~> kpc = "idle"

\* read_write_disk is the atomic block store the file system takes it for.
Active == kpc \in {"clear", "kick", "notify"} \cup WaitSteps
Served == kpc \in {"notify"} \cup WaitSteps /\ (dpc = "performed" \/ ~ InFlight)
Operation == IF Active THEN [kind |-> call.kind, sector |-> call.sector] ELSE [kind |-> "none"]
Outcome ==
  IF ~ Served THEN [kind |-> "none"]
  ELSE IF blk_req.status = "ok" THEN [kind |-> "done", data |-> blk_req.data]
  ELSE [kind |-> "failed"]
Store == INSTANCE BlockStore WITH store <- disk, op <- Operation, result <- Outcome

\* Each call is performed at most once, between call and return; a read that
\* returns leaves in the caller's buffer what the disk held when it was
\* performed, and a failed one leaves the buffer alone.
ImplementsBlockStore == Store!Spec
=============================================================================
