--------------------------- MODULE BlkDriverProofs ---------------------------
(***************************************************************************)
(* IInv is an invariant of BlkDriver, the safety properties of BlkDriver   *)
(* follow from it, and read_write_disk implements BlockStore.              *)
(***************************************************************************)
EXTENDS BlkInvariant, TLAPS

\* Free-running indexes: the next one is another one, one ahead.
LEMMA NextIndex ==
  ASSUME NEW i \in Indexes
  PROVE  Incr(i) \in Indexes /\ Incr(i) # i /\ Ahead(i, i) = 0 /\ Ahead(Incr(i), i) = 1
<1>1. INDEX_MOD \in Nat /\ INDEX_MOD > 1
  BY VirtqAssumption, SMT
<1>2. CASE i + 1 < INDEX_MOD
  BY <1>1, <1>2, SMT DEF Incr, Ahead, Indexes
<1>3. CASE i + 1 = INDEX_MOD
  BY <1>1, <1>3, SMT DEF Incr, Ahead, Indexes
<1> QED
  BY <1>1, <1>2, <1>3, SMT DEF Indexes

\* What the driver and the device do to the queue, field by field.
LEMMA Submitted ==
  ASSUME NEW q \in Queues
  PROVE  /\ virtq_submit(q, 0) \in Queues
         /\ virtq_submit(q, 0).avail_index = Incr(q.avail_index)
         /\ virtq_submit(q, 0).submitted_index = Incr(q.submitted_index)
         /\ virtq_submit(q, 0).taken = q.taken
         /\ virtq_submit(q, 0).used_index = q.used_index
         /\ virtq_submit(q, 0).consumed_used_index = q.consumed_used_index
<1> DEFINE ring == [q.avail EXCEPT ![Slot(q.avail_index)] = 0]
           r == [q EXCEPT !.avail = ring]
           t == [r EXCEPT !.avail_index = Incr(q.avail_index)]
<1>1. ring \in Rings
  BY DEF Queues, Rings
<1>2. virtq_submit(q, 0) = [t EXCEPT !.submitted_index = Incr(@)]
  BY DEF virtq_submit, virtq_push
<1>3. Incr(q.avail_index) \in Indexes /\ Incr(q.submitted_index) \in Indexes
  BY NextIndex DEF Queues
<1> HIDE DEF ring
<1>4. /\ r \in Queues /\ r.submitted_index = q.submitted_index /\ r.taken = q.taken
      /\ r.used_index = q.used_index /\ r.consumed_used_index = q.consumed_used_index
  BY <1>1, SMT DEF Queues
<1> HIDE DEF r
<1>5. /\ t \in Queues /\ t.avail_index = Incr(q.avail_index)
      /\ t.submitted_index = q.submitted_index /\ t.taken = q.taken
      /\ t.used_index = q.used_index /\ t.consumed_used_index = q.consumed_used_index
  BY <1>3, <1>4, SMT DEF Queues
<1> HIDE DEF t
<1> QED
  BY <1>2, <1>3, <1>5, SMT DEF Queues

\* virtq_pop_used consumes one element and nothing else.
LEMMA Popped ==
  ASSUME NEW q \in Queues
  PROVE  /\ virtq_pop_used(q) \in Queues
         /\ virtq_pop_used(q).consumed_used_index = Incr(q.consumed_used_index)
         /\ virtq_pop_used(q).avail_index = q.avail_index
         /\ virtq_pop_used(q).submitted_index = q.submitted_index
         /\ virtq_pop_used(q).taken = q.taken
         /\ virtq_pop_used(q).used_index = q.used_index
BY NextIndex, SMT DEF Queues, virtq_pop_used

\* The device takes one descriptor from the available ring.
LEMMA TakenUp ==
  ASSUME NEW q \in Queues
  PROVE  /\ DevTake(q) \in Queues
         /\ DevTake(q).taken = Incr(q.taken)
         /\ DevTake(q).avail_index = q.avail_index
         /\ DevTake(q).submitted_index = q.submitted_index
         /\ DevTake(q).used_index = q.used_index
         /\ DevTake(q).consumed_used_index = q.consumed_used_index
BY NextIndex, SMT DEF Queues, DevTake

\* The device returns one descriptor through the used ring.
LEMMA PutBack ==
  ASSUME NEW q \in Queues
  PROVE  /\ DevPut(q, 0) \in Queues
         /\ DevPut(q, 0).used_index = Incr(q.used_index)
         /\ DevPut(q, 0).avail_index = q.avail_index
         /\ DevPut(q, 0).submitted_index = q.submitted_index
         /\ DevPut(q, 0).taken = q.taken
         /\ DevPut(q, 0).consumed_used_index = q.consumed_used_index
<1> DEFINE ring == [q.used EXCEPT ![Slot(q.used_index)] = 0]
           r == [q EXCEPT !.used = ring]
<1>1. ring \in Rings
  BY DEF Queues, Rings
<1>2. DevPut(q, 0) = [r EXCEPT !.used_index = Incr(q.used_index)]
  BY DEF DevPut
<1>3. Incr(q.used_index) \in Indexes
  BY NextIndex DEF Queues
<1> HIDE DEF ring
<1>4. /\ r \in Queues /\ r.avail_index = q.avail_index /\ r.submitted_index = q.submitted_index
      /\ r.taken = q.taken /\ r.consumed_used_index = q.consumed_used_index
  BY <1>1, SMT DEF Queues
<1> HIDE DEF r
<1> QED
  BY <1>2, <1>3, <1>4, SMT DEF Queues

\* The state virtio_blk_init leaves satisfies the invariant.
LEMMA InitIInv == Init => IInv
<1> SUFFICES ASSUME Init PROVE IInv
  OBVIOUS
<1> USE DEF Init, IrqInit
<1>1. Types
  <2>1. 0 \in Indexes
    BY VirtqAssumption, SMT DEF Indexes
  <2>2. vq \in Queues
    BY <2>1, SMT DEF virtq_init, Queues, Rings
  <2>4. blk_req \in Requests
    <3>1. (CHOOSE v \in Values : TRUE) \in Values
      OBVIOUS
    <3> QED
      BY <3>1, Zenon DEF Requests
  <2>3. call \in Calls
    BY DEF Calls, NoCall
  <2>5. plic \in [pending : SUBSET Sources, claimed : SUBSET Sources]
    BY Zenon
  <2> QED
    BY <2>2, <2>3, <2>4, <2>5, Zenon DEF Types, Before
<1>2. SieAsSaved
  BY DEF SieAsSaved, NoCall
<1>3. OneRequest
  BY DEF OneRequest, Before, During, After, Free, NoSignal, virtq_init
<1> QED
  BY <1>1, <1>2, <1>3 DEF IInv

\* The controller gives out one of its sources.
LEMMA SourceClaimed ==
  ASSUME NEW S \in SUBSET Sources, S # {}
  PROVE  Min(S) \in S
<1>1. \E x \in S : \A y \in S : x <= y
  <2>1. CASE 1 \in S
    BY <2>1, SMT DEF Sources, VIRTIO_BLK_IRQ, VIRTIO_NET_IRQ
  <2>2. CASE 1 \notin S
    BY <2>2, S = {2}, SMT DEF Sources, VIRTIO_BLK_IRQ, VIRTIO_NET_IRQ
  <2> QED
    BY <2>1, <2>2
<1> QED
  BY <1>1, Zenon DEF Min

\* A request that the device has taken is the one of the call that waits for it.
LEMMA WithDevice ==
  ASSUME IInv, dpc \in {"taken", "performed"}
  PROVE  /\ kpc \in During /\ ~ blk_done /\ Working
         /\ call.sector \in Sectors
         /\ dpc = "taken" => Filled
BY DEF IInv, OneRequest, Types, Before, During, After, Free, Queued, Working, Returned,
   Signalled, Drained

\* Each action preserves the invariant.  A call only sets its arguments and SIE.
LEMMA Called ==
  ASSUME IInv, NEW c \in Calls, NEW v \in Values, Call(c, v)
  PROVE  IInv'
<1>1. Types'
  BY DEF IInv, Types, Requests, Calls, Before, During, After, Call, Goto, KernelAt,
     blkVars, devVars, handlerVars
<1>2. SieAsSaved'
  BY DEF IInv, SieAsSaved, Types, NoCall, Call, Goto, KernelAt, blkVars, devVars,
     handlerVars
<1>3. OneRequest'
  BY DEF IInv, OneRequest, Types, Requests, Before, During, After, Free, Queued, Working,
     Returned,
     Signalled, Drained, NoSignal, Filled, USED_BUFFER, CONFIG_CHANGE, Call, Goto,
        KernelAt, blkVars, devVars, handlerVars
<1> QED
  BY <1>1, <1>2, <1>3 DEF IInv

\* The early return for a sector past the capacity leaves the queue free.
LEMMA Rejected ==
  ASSUME IInv, Reject
  PROVE  IInv'
<1>1. Types'
  <2>1. call' \in Calls
    BY DEF Reject, NoCall, Calls
  <2>2. sie' \in BOOLEAN
    BY Zenon DEF IInv, Types, Reject, SieAfterReturn
  <2> QED
    BY <2>1, <2>2, Zenon DEF IInv, Types, Before, During, After, Reject, Goto, KernelAt,
       SieAfterReturn, blkVars, devVars, handlerVars
<1>2. SieAsSaved'
  BY DEF IInv, SieAsSaved, Types, NoCall, Reject, Goto, KernelAt, SieAfterReturn,
     blkVars, devVars, handlerVars
<1>3. OneRequest'
  BY DEF IInv, OneRequest, Types, Requests, Before, During, After, Free, Queued, Working,
     Returned,
     Signalled, Drained, NoSignal, Filled, USED_BUFFER, CONFIG_CHANGE, Reject, Goto,
        KernelAt, SieAfterReturn, blkVars, devVars, handlerVars
<1> QED
  BY <1>1, <1>2, <1>3 DEF IInv

\* Filling the page is safe: no request is on its way before the kick.
LEMMA RequestFilled ==
  ASSUME IInv, Fill
  PROVE  IInv'
<1>1. Types'
  BY DEF IInv, Types, Requests, Calls, Before, During, After, Fill, Goto, KernelAt,
     blkVars, devVars, handlerVars
<1>2. SieAsSaved'
  BY DEF IInv, SieAsSaved, Types, NoCall, Fill, Goto, KernelAt, blkVars, devVars,
     handlerVars
<1>3. OneRequest'
  BY DEF IInv, OneRequest, Types, Requests, Before, During, After, Free, Queued, Working,
     Returned,
     Signalled, Drained, NoSignal, Filled, USED_BUFFER, CONFIG_CHANGE, Fill, Goto,
        KernelAt, blkVars, devVars, handlerVars
<1> QED
  BY <1>1, <1>2, <1>3 DEF IInv

\* blk_done is cleared while no completion can set it again.
LEMMA DoneCleared ==
  ASSUME IInv, ClearDone
  PROVE  IInv'
<1>1. Types'
  BY Zenon DEF IInv, Types, Before, During, After, ClearDone, Goto, KernelAt, blkVars,
     devVars, handlerVars
<1>2. SieAsSaved'
  BY DEF IInv, SieAsSaved, Types, NoCall, ClearDone, Goto, KernelAt, blkVars, devVars,
     handlerVars
<1>3. OneRequest'
  BY DEF IInv, OneRequest, Types, Requests, Before, During, After, Free, Queued, Working,
     Returned,
     Signalled, Drained, NoSignal, Filled, USED_BUFFER, CONFIG_CHANGE, ClearDone, Goto,
        KernelAt, blkVars, devVars, handlerVars
<1> QED
  BY <1>1, <1>2, <1>3 DEF IInv

\* The kick puts the one request into the available ring.
LEMMA Kicked ==
  ASSUME IInv, Kick
  PROVE  IInv'
<1>1. Types'
  <2>1. vq' \in Queues
    BY Submitted DEF IInv, Types, Kick
  <2> QED
    BY <2>1, Zenon DEF IInv, Types, Before, During, After, Kick, Goto, KernelAt, blkVars,
       devVars, handlerVars
<1>2. SieAsSaved'
  BY DEF IInv, SieAsSaved, Types, NoCall, Kick, Goto, KernelAt, blkVars, devVars,
     handlerVars
<1>3. OneRequest'
  <2>1. /\ vq.avail_index \in Indexes /\ vq.submitted_index \in Indexes /\ vq.taken \in Indexes
        /\ vq.used_index \in Indexes /\ vq.consumed_used_index \in Indexes
    BY DEF IInv, Types, Queues
  <2>2. \A i \in Indexes : Incr(i) \in Indexes /\ Incr(i) # i
    BY NextIndex
  <2> QED
    BY <2>1, <2>2, Submitted, ZenonT(60) DEF IInv, OneRequest, Types, Before, During, After, Free,
       Queued, Working, Returned,
       Signalled, Drained, NoSignal, Filled, USED_BUFFER, SieAsSaved, Kick, Goto,
          KernelAt, blkVars, devVars, handlerVars
<1> QED
  BY <1>1, <1>2, <1>3 DEF IInv

\* The notification tells the device and leaves the queue alone.
LEMMA DeviceNotified ==
  ASSUME IInv, Notify
  PROVE  IInv'
<1>1. Types'
  BY Zenon DEF IInv, Types, Before, During, After, Notify, Goto, KernelAt, blkVars,
     devVars, handlerVars
<1>2. SieAsSaved'
  BY DEF IInv, SieAsSaved, Types, NoCall, Notify, Goto, KernelAt, blkVars, devVars,
     handlerVars
<1>3. OneRequest'
  BY DEF IInv, OneRequest, Types, Requests, Before, During, After, Free, Queued, Working,
     Returned,
     Signalled, Drained, NoSignal, Filled, USED_BUFFER, CONFIG_CHANGE, Notify, Goto,
        KernelAt, blkVars, devVars, handlerVars
<1> QED
  BY <1>1, <1>2, <1>3 DEF IInv

\* wait_for_interrupt leaves its loop only when blk_done was seen.
LEMMA WaitStepped ==
  ASSUME IInv, Wait
  PROVE  IInv'
<1>1. Types'
  BY Zenon DEF IInv, Types, Before, During, After, Wait, WaitEnter, WaitTest, WaitWfi,
     WaitClose, WaitRestore, KernelAt, Deliverable, blkVars, devVars, handlerVars
<1>2. SieAsSaved'
  <2>1. CASE WaitEnter
    BY <2>1 DEF IInv, SieAsSaved, Types, NoCall, Wait, WaitEnter, KernelAt, blkVars
  <2>2. CASE WaitTest(blk_done)
    BY <2>2 DEF IInv, SieAsSaved, Types, NoCall, Wait, WaitTest, KernelAt, blkVars
  <2>3. CASE WaitWfi
    BY <2>3 DEF IInv, SieAsSaved, Types, NoCall, Wait, WaitWfi, KernelAt, blkVars
  <2>4. CASE WaitClose
    BY <2>4 DEF IInv, SieAsSaved, Types, NoCall, Wait, WaitClose, KernelAt, blkVars
  <2>5. CASE WaitRestore
    BY <2>5 DEF IInv, SieAsSaved, Types, NoCall, Wait, WaitRestore, KernelAt, blkVars
  <2> QED
    BY <2>1, <2>2, <2>3, <2>4, <2>5 DEF Wait
<1>3. OneRequest'
  BY ZenonT(60) DEF IInv, OneRequest, Types, Requests, Before, During, After, Free, Queued, Working,
     Returned,
     Signalled, Drained, NoSignal, Filled, USED_BUFFER, CONFIG_CHANGE, Wait, WaitEnter,
        WaitTest, WaitWfi, WaitClose, WaitRestore, KernelAt, Deliverable, blkVars,
        devVars, handlerVars
<1> QED
  BY <1>1, <1>2, <1>3 DEF IInv

\* A wfi that returns for no reason leads back to the test.
LEMMA WokenSpuriously ==
  ASSUME IInv, WaitSpurious
  PROVE  IInv'
<1>1. Types'
  BY Zenon DEF IInv, Types, Before, During, After, WaitSpurious, WaitWfiSpurious,
     KernelAt, blkVars, devVars, handlerVars
<1>2. SieAsSaved'
  BY DEF IInv, SieAsSaved, Types, NoCall, WaitSpurious, WaitWfiSpurious, KernelAt,
     blkVars, devVars, handlerVars
<1>3. OneRequest'
  BY DEF IInv, OneRequest, Types, Requests, Before, During, After, Free, Queued, Working,
     Returned,
     Signalled, Drained, NoSignal, Filled, USED_BUFFER, CONFIG_CHANGE, WaitSpurious,
        WaitWfiSpurious, KernelAt, blkVars, devVars, handlerVars
<1> QED
  BY <1>1, <1>2, <1>3 DEF IInv

\* The return finds the queue free, and restores the SIE of the caller.
LEMMA CallReturned ==
  ASSUME IInv, Return
  PROVE  IInv'
<1>1. Types'
  <2>1. call' \in Calls
    BY DEF Return, NoCall, Calls
  <2>2. sie' \in BOOLEAN
    BY Zenon DEF IInv, Types, Return, SieAfterReturn
  <2>3. buf' \in Values
    BY DEF IInv, Types, Return, Requests
  <2> QED
    BY <2>1, <2>2, <2>3, Zenon DEF IInv, Types, Before, During, After, Return, Goto,
       KernelAt, SieAfterReturn, blkVars, devVars, handlerVars
<1>2. SieAsSaved'
  BY DEF IInv, SieAsSaved, Types, NoCall, Return, Goto, KernelAt, SieAfterReturn,
     blkVars, devVars, handlerVars
<1>3. OneRequest'
  BY DEF IInv, OneRequest, Types, Requests, Before, During, After, Free, Queued, Working,
     Returned,
     Signalled, Drained, NoSignal, Filled, USED_BUFFER, CONFIG_CHANGE, Return, Goto,
        KernelAt, SieAfterReturn, blkVars, devVars, handlerVars
<1> QED
  BY <1>1, <1>2, <1>3 DEF IInv

\* A trap is taken only where SIE is set.
LEMMA TrapTaken ==
  ASSUME IInv, TakeTrap
  PROVE  IInv'
<1>1. Types'
  BY Zenon DEF IInv, Types, Before, During, After, TakeTrap, Trap, Deliverable, blkVars,
     devVars, handlerVars
<1>2. SieAsSaved'
  BY DEF IInv, SieAsSaved, Types, NoCall, TakeTrap, Trap, Deliverable, blkVars, devVars,
     handlerVars
<1>3. OneRequest'
  BY ZenonT(90)
     DEF IInv, OneRequest, Types, Requests, Before, During, After, Free, Queued, Working,
     Returned,
     Signalled, Drained, NoSignal, Filled, USED_BUFFER, CONFIG_CHANGE, TakeTrap, Trap,
        Deliverable, blkVars, devVars, handlerVars
<1> QED
  BY <1>1, <1>2, <1>3 DEF IInv

\* The interrupt of the other device does not disturb the request.
LEMMA NetHandled ==
  ASSUME IInv, HandlerNet
  PROVE  IInv'
<1>1. Types'
  BY Zenon DEF IInv, Types, Before, During, After, HandlerNet, blkVars, devVars, handlerVars
<1>2. SieAsSaved'
  BY DEF IInv, SieAsSaved, Types, NoCall, HandlerNet, blkVars, devVars, handlerVars
<1>3. OneRequest'
  BY ZenonT(60) DEF IInv, OneRequest, Types, Requests, Before, During, After, Free, Queued, Working,
     Returned,
     Signalled, Drained, NoSignal, Filled, USED_BUFFER, CONFIG_CHANGE, HandlerNet,
        blkVars, devVars, handlerVars
<1> QED
  BY <1>1, <1>2, <1>3 DEF IInv

\* Reading the interrupt status notes the completion, if one was signalled.
LEMMA StatusRead ==
  ASSUME IInv, HandlerStatus
  PROVE  IInv'
<1>1. Types'
  BY Zenon DEF IInv, Types, Before, During, After, HandlerStatus, blkVars, devVars,
     handlerVars
<1>2. SieAsSaved'
  BY DEF IInv, SieAsSaved, Types, NoCall, HandlerStatus, blkVars, devVars, handlerVars
<1>3. OneRequest'
  BY ZenonT(90)
     DEF IInv, OneRequest, Types, Requests, Before, During, After, Free, Queued, Working,
     Returned,
     Signalled, Drained, NoSignal, Filled, USED_BUFFER, CONFIG_CHANGE, HandlerStatus,
        blkVars, devVars, handlerVars
<1> QED
  BY <1>1, <1>2, <1>3 DEF IInv

\* Acknowledging what was read loses no signal: the handler drains next.
LEMMA StatusAcknowledged ==
  ASSUME IInv, HandlerAck
  PROVE  IInv'
<1>1. Types'
  BY Zenon DEF IInv, Types, Before, During, After, HandlerAck, blkVars, devVars, handlerVars
<1>2. SieAsSaved'
  BY DEF IInv, SieAsSaved, Types, NoCall, HandlerAck, blkVars, devVars, handlerVars
<1>3. OneRequest'
  BY ZenonT(60) DEF IInv, OneRequest, Types, Requests, Before, During, After, Free, Queued, Working,
     Returned,
     Signalled, Drained, NoSignal, Filled, USED_BUFFER, CONFIG_CHANGE, HandlerAck,
        blkVars, devVars, handlerVars
<1> QED
  BY <1>1, <1>2, <1>3 DEF IInv

\* The handler pops the request, or finds nothing left to pop.
LEMMA QueueDrained ==
  ASSUME IInv, HandlerDrain
  PROVE  IInv'
<1>1. Types'
  <2>1. vq' \in Queues
    BY Popped DEF IInv, Types, HandlerDrain
  <2> QED
    BY <2>1, Zenon DEF IInv, Types, Before, During, After, HandlerDrain, virtq_has_used,
       blkVars, devVars, handlerVars
<1>2. SieAsSaved'
  BY DEF IInv, SieAsSaved, Types, NoCall, HandlerDrain, virtq_has_used, blkVars, devVars,
     handlerVars
<1>3. OneRequest'
  <2>1. /\ vq.avail_index \in Indexes /\ vq.submitted_index \in Indexes /\ vq.taken \in Indexes
        /\ vq.used_index \in Indexes /\ vq.consumed_used_index \in Indexes
    BY DEF IInv, Types, Queues
  <2>2. \A i \in Indexes : Incr(i) \in Indexes /\ Incr(i) # i
    BY NextIndex
  <2> QED
    BY <2>1, <2>2, Popped DEF IInv, OneRequest, Types, Before, During, After, Free,
       Queued, Working, Returned,
       Signalled, Drained, NoSignal, Filled, USED_BUFFER, SieAsSaved, HandlerDrain,
          virtq_has_used, blkVars, devVars, handlerVars
<1> QED
  BY <1>1, <1>2, <1>3 DEF IInv

\* blk_done is set exactly by the handler that popped the request.
LEMMA DoneSet ==
  ASSUME IInv, HandlerDone
  PROVE  IInv'
<1>1. Types'
  BY Zenon DEF IInv, Types, Before, During, After, HandlerDone, blkVars, devVars,
     handlerVars
<1>2. SieAsSaved'
  BY DEF IInv, SieAsSaved, Types, NoCall, HandlerDone, blkVars, devVars, handlerVars
<1>3. OneRequest'
  BY DEF IInv, OneRequest, Types, Requests, Before, During, After, Free, Queued, Working,
     Returned,
     Signalled, Drained, NoSignal, Filled, USED_BUFFER, CONFIG_CHANGE, HandlerDone,
        blkVars, devVars, handlerVars
<1> QED
  BY <1>1, <1>2, <1>3 DEF IInv

\* The end of the handler restores SIE, which the trap found set.
LEMMA HandlerReturned ==
  ASSUME IInv, HandlerReturn
  PROVE  IInv'
<1>1. Types'
  <2>1. plic' \in [pending : SUBSET Sources, claimed : SUBSET Sources]
    BY DEF IInv, Types, HandlerReturn, Complete, Sret
  <2> QED
    BY <2>1, ZenonT(60) DEF IInv, Types, Before, During, After, HandlerReturn, Complete, Sret,
       blkVars, devVars, handlerVars
<1>2. SieAsSaved'
  <2>1. CASE Complete
    BY <2>1 DEF IInv, SieAsSaved, Types, NoCall, HandlerReturn, Complete, KernelAt, blkVars
  <2>2. CASE Sret
    BY <2>2 DEF IInv, SieAsSaved, Types, NoCall, HandlerReturn, Sret, KernelAt, blkVars
  <2> QED
    BY <2>1, <2>2 DEF HandlerReturn
<1>3. OneRequest'
  <2>1. /\ ipc \in {"complete", "sret"} /\ ipc' \in {"sret", "none"}
        /\ UNCHANGED <<kpc, vq, blk_req, blk_done, call, buf, isr, dpc, status, completed>>
    BY DEF HandlerReturn, Complete, Sret, blkVars, devVars, handlerVars
  <2> QED
    BY <2>1 DEF IInv, OneRequest, Free, Queued, Working, Returned, Signalled, Drained,
       NoSignal, Filled
<1> QED
  BY <1>1, <1>2, <1>3 DEF IInv

\* The device takes the queued request, or finds the ring empty.
LEMMA RequestTaken ==
  ASSUME IInv, DeviceTake
  PROVE  IInv'
<1>1. Types'
  <2>1. vq' \in Queues
    BY TakenUp DEF IInv, Types, DeviceTake
  <2> QED
    BY <2>1, ZenonT(60) DEF IInv, Types, Before, During, After, DeviceTake, DevHasAvail,
       irqVars, blkVars, devVars, handlerVars
<1>2. SieAsSaved'
  BY DEF IInv, SieAsSaved, Types, NoCall, DeviceTake, DevHasAvail, irqVars, blkVars,
     devVars, handlerVars
<1>3. OneRequest'
  <2>1. /\ vq.avail_index \in Indexes /\ vq.submitted_index \in Indexes /\ vq.taken \in Indexes
        /\ vq.used_index \in Indexes /\ vq.consumed_used_index \in Indexes
    BY DEF IInv, Types, Queues
  <2>2. \A i \in Indexes : Incr(i) \in Indexes /\ Incr(i) # i
    BY NextIndex
  <2> QED
    BY <2>1, <2>2, TakenUp, ZenonT(60) DEF IInv, OneRequest, Types, Before, During, After, Free,
       Queued, Working, Returned,
       Signalled, Drained, NoSignal, Filled, USED_BUFFER, SieAsSaved, DeviceTake,
          DevHasAvail, irqVars, blkVars, devVars, handlerVars
<1> QED
  BY <1>1, <1>2, <1>3 DEF IInv

\* The device performs the request of the page on the sector of the call.
LEMMA RequestPerformed ==
  ASSUME IInv, DevicePerform
  PROVE  IInv'
<1>1. Types'
  <2>1. disk' \in [Sectors -> Values]
    BY DEF IInv, Types, DevicePerform, Requests
  <2>2. disk'[blk_req.sector] \in Values
    BY <2>1, WithDevice DEF DevicePerform, Filled
  <2>3. blk_req' \in Requests
    BY <2>1, <2>2 DEF IInv, Types, DevicePerform, Requests
  <2> QED
    BY <2>1, <2>2, <2>3, ZenonT(60) DEF IInv, Types, Before, During, After, DevicePerform,
       irqVars, blkVars, devVars, handlerVars
<1>2. SieAsSaved'
  BY DEF IInv, SieAsSaved, Types, NoCall, DevicePerform, irqVars, blkVars, devVars,
     handlerVars
<1>3. OneRequest'
  BY DEF IInv, OneRequest, Types, Requests, Before, During, After, Free, Queued, Working,
     Returned,
     Signalled, Drained, NoSignal, Filled, USED_BUFFER, CONFIG_CHANGE, DevicePerform,
        irqVars, blkVars, devVars, handlerVars
<1> QED
  BY <1>1, <1>2, <1>3 DEF IInv

\* The device fails the request.
LEMMA RequestFailed ==
  ASSUME IInv, NEW v \in Values, DeviceFail(v)
  PROVE  IInv'
<1>1. Types'
  <2>1. blk_req' \in Requests
    BY DEF IInv, Types, DeviceFail, Requests
  <2> QED
    BY <2>1, ZenonT(60) DEF IInv, Types, Before, During, After, DeviceFail, irqVars, blkVars,
       devVars, handlerVars
<1>2. SieAsSaved'
  BY DEF IInv, SieAsSaved, Types, NoCall, DeviceFail, irqVars, blkVars, devVars, handlerVars
<1>3. OneRequest'
  BY DEF IInv, OneRequest, Types, Requests, Before, During, After, Free, Queued, Working,
     Returned,
     Signalled, Drained, NoSignal, Filled, USED_BUFFER, CONFIG_CHANGE, DeviceFail,
        irqVars, blkVars, devVars, handlerVars
<1> QED
  BY <1>1, <1>2, <1>3 DEF IInv

\* The device returns the request through the used ring.
LEMMA RequestUsed ==
  ASSUME IInv, DeviceUsed
  PROVE  IInv'
<1>1. Types'
  <2>1. vq' \in Queues
    BY PutBack DEF IInv, Types, DeviceUsed
  <2> QED
    BY <2>1, ZenonT(60) DEF IInv, Types, Before, During, After, DeviceUsed, irqVars, blkVars,
       devVars, handlerVars
<1>2. SieAsSaved'
  BY DEF IInv, SieAsSaved, Types, NoCall, DeviceUsed, irqVars, blkVars, devVars, handlerVars
<1>3. OneRequest'
  <2>1. /\ vq.avail_index \in Indexes /\ vq.submitted_index \in Indexes /\ vq.taken \in Indexes
        /\ vq.used_index \in Indexes /\ vq.consumed_used_index \in Indexes
    BY DEF IInv, Types, Queues
  <2>2. \A i \in Indexes : Incr(i) \in Indexes /\ Incr(i) # i
    BY NextIndex
  <2> QED
    BY <2>1, <2>2, PutBack DEF IInv, OneRequest, Types, Before, During, After, Free,
       Queued, Working, Returned,
       Signalled, Drained, NoSignal, Filled, USED_BUFFER, SieAsSaved, DeviceUsed,
          irqVars, blkVars, devVars, handlerVars
<1> QED
  BY <1>1, <1>2, <1>3 DEF IInv

\* The device signals the completion.
LEMMA UsedSignalled ==
  ASSUME IInv, DeviceInterrupt
  PROVE  IInv'
<1>1. Types'
  BY DEF IInv, Types, Requests, Calls, Before, During, After, DeviceInterrupt, irqVars,
     blkVars, devVars, handlerVars
<1>2. SieAsSaved'
  BY DEF IInv, SieAsSaved, Types, NoCall, DeviceInterrupt, irqVars, blkVars, devVars,
     handlerVars
<1>3. OneRequest'
  BY DEF IInv, OneRequest, Types, Requests, Before, During, After, Free, Queued, Working,
     Returned,
     Signalled, Drained, NoSignal, Filled, USED_BUFFER, CONFIG_CHANGE, DeviceInterrupt,
        irqVars, blkVars, devVars, handlerVars
<1> QED
  BY <1>1, <1>2, <1>3 DEF IInv

\* A configuration change does not pass for a completion.
LEMMA ConfigChanged ==
  ASSUME IInv, ConfigChange
  PROVE  IInv'
<1>1. Types'
  BY DEF IInv, Types, Requests, Calls, Before, During, After, ConfigChange, irqVars,
     blkVars, devVars, handlerVars
<1>2. SieAsSaved'
  BY DEF IInv, SieAsSaved, Types, NoCall, ConfigChange, irqVars, blkVars, devVars,
     handlerVars
<1>3. OneRequest'
  BY ZenonT(90)
     DEF IInv, OneRequest, Types, Requests, Before, During, After, Free, Queued, Working,
     Returned,
     Signalled, Drained, NoSignal, Filled, USED_BUFFER, CONFIG_CHANGE, ConfigChange,
        irqVars, blkVars, devVars, handlerVars
<1> QED
  BY <1>1, <1>2, <1>3 DEF IInv

\* The interrupt line of the disk reaches the controller.
LEMMA LineRaised ==
  ASSUME IInv, LineBlk
  PROVE  IInv'
<1>1. Types'
  <2>1. plic' \in [pending : SUBSET Sources, claimed : SUBSET Sources]
    BY DEF IInv, Types, LineBlk, Latch, Sources, VIRTIO_BLK_IRQ
  <2>2. ipc' = "claim" => plic'.pending # {}
    BY DEF IInv, Types, LineBlk, Latch, Sources, VIRTIO_BLK_IRQ
  <2>3. UNCHANGED <<kpc, sie, saved, ipc, irq, vq, blk_req, blk_done, call, buf, disk,
     isr, dpc, status, completed>>
    BY DEF LineBlk, Latch, blkVars, devVars, handlerVars
  <2> QED
    BY <2>1, <2>2, <2>3, ZenonT(60) DEF IInv, Types
<1>2. SieAsSaved'
  BY DEF IInv, SieAsSaved, Types, NoCall, LineBlk, Latch, blkVars, devVars, handlerVars
<1>3. OneRequest'
  BY ZenonT(90)
     DEF IInv, OneRequest, Types, Requests, Before, During, After, Free, Queued, Working,
     Returned,
     Signalled, Drained, NoSignal, Filled, USED_BUFFER, CONFIG_CHANGE, LineBlk, Latch,
        blkVars, devVars, handlerVars
<1> QED
  BY <1>1, <1>2, <1>3 DEF IInv

\* The interrupt line of the other device reaches the controller.
LEMMA NetRaised ==
  ASSUME IInv, NetInterrupt
  PROVE  IInv'
<1>1. Types'
  <2>1. plic' \in [pending : SUBSET Sources, claimed : SUBSET Sources]
    BY DEF IInv, Types, NetInterrupt, Latch, Sources, VIRTIO_NET_IRQ
  <2>2. ipc' = "claim" => plic'.pending # {}
    BY DEF IInv, Types, NetInterrupt, Latch, Sources, VIRTIO_NET_IRQ
  <2>3. UNCHANGED <<kpc, sie, saved, ipc, irq, vq, blk_req, blk_done, call, buf, disk,
     isr, dpc, status, completed>>
    BY DEF NetInterrupt, Latch, blkVars, devVars, handlerVars
  <2> QED
    BY <2>1, <2>2, <2>3, ZenonT(60) DEF IInv, Types
<1>2. SieAsSaved'
  BY DEF IInv, SieAsSaved, Types, NoCall, NetInterrupt, Latch, blkVars, devVars, handlerVars
<1>3. OneRequest'
  BY ZenonT(90)
     DEF IInv, OneRequest, Types, Requests, Before, During, After, Free, Queued, Working,
     Returned,
     Signalled, Drained, NoSignal, Filled, USED_BUFFER, CONFIG_CHANGE, NetInterrupt,
        Latch, blkVars, devVars, handlerVars
<1> QED
  BY <1>1, <1>2, <1>3 DEF IInv

\* A claim starts the handler of the source that the controller gives out.
LEMMA Claimed ==
  ASSUME IInv, HandlerClaim
  PROVE  IInv'
<1>1. Types'
  <2>1. irq' \in Sources
    BY SourceClaimed DEF IInv, Types, HandlerClaim, Claim
  <2>2. plic' \in [pending : SUBSET Sources, claimed : SUBSET Sources]
    BY <2>1 DEF IInv, Types, HandlerClaim, Claim
  <2>3. ipc' \in {"status", "net"}
    BY <2>1 DEF HandlerClaim, Claim
  <2> QED
    BY <2>1, <2>2, <2>3, ZenonT(60) DEF IInv, Types, Before, During, After, HandlerClaim,
       Claim, blkVars, devVars, handlerVars
<1>2. /\ ipc = "claim" /\ ipc' \in {"status", "net"}
      /\ UNCHANGED <<kpc, sie, saved, vq, blk_req, blk_done, call, buf, disk, isr, dpc,
         status, completed>>
  BY SourceClaimed DEF IInv, Types, HandlerClaim, Claim, blkVars, devVars, handlerVars
<1>3. SieAsSaved'
  BY <1>2 DEF IInv, SieAsSaved, NoCall
<1>4. OneRequest'
  BY <1>2 DEF IInv, OneRequest, Free, Queued, Working, Returned, Signalled, Drained,
     NoSignal, Filled
<1> QED
  BY <1>1, <1>3, <1>4 DEF IInv

\* The invariant only speaks of the variables of the specification.
LEMMA Stuttered ==
  ASSUME IInv, UNCHANGED vars
  PROVE  IInv'
<1>1. Types'
  BY DEF IInv, Types, Requests, Calls, Before, During, After, vars, irqVars, blkVars,
     devVars, handlerVars
<1>2. SieAsSaved'
  BY DEF IInv, SieAsSaved, Types, NoCall, vars, irqVars, blkVars, devVars, handlerVars
<1>3. OneRequest'
  BY ZenonT(60) DEF IInv, OneRequest, Types, Requests, Before, During, After, Free, Queued, Working,
     Returned,
     Signalled, Drained, NoSignal, Filled, USED_BUFFER, CONFIG_CHANGE, vars, irqVars,
        blkVars, devVars, handlerVars
<1> QED
  BY <1>1, <1>2, <1>3 DEF IInv

\* Every step preserves the invariant.
LEMMA NextIInv == IInv /\ [Next]_vars => IInv'
BY Called, Rejected, RequestFilled, DoneCleared, Kicked, DeviceNotified, WaitStepped,
   CallReturned, WokenSpuriously, TrapTaken, Claimed, NetHandled, StatusRead,
   StatusAcknowledged, QueueDrained, DoneSet, HandlerReturned, RequestTaken, RequestPerformed,
   RequestFailed, RequestUsed, UsedSignalled, LineRaised, ConfigChanged, NetRaised, Stuttered
   DEF Next, Kernel, Handler, Device

\* In every reachable state there is at most one request, it is where the
\* driver, the device and the handler all take it to be, and SIE is what
\* wait_for_interrupt and the trap saved.
THEOREM RequestTracked == Spec => []IInv
<1>1. IInv /\ [Next]_vars => IInv'
  BY NextIInv
<1> QED
  BY InitIInv, <1>1, PTL DEF Spec

\* The one static blk_req is never shared: while read_write_disk fills it, and
\* while it copies out of it, the device has no request, for every number of
\* sectors, ring size and amount of unrelated interrupts.
THEOREM PageNeverShared == Spec => []RequestPageExclusive
<1>1. IInv => RequestPageExclusive
  BY DEF IInv, OneRequest, Before, During, After, Free, RequestPageExclusive, InFlight,
     virtq_has_used
<1> QED
  BY RequestTracked, <1>1, PTL

\* The wait loop never believes a stale or early blk_done.
THEOREM CompletionNeverEarly == Spec => []DoneMeansServed
<1>1. IInv => DoneMeansServed
  BY DEF IInv, Types, OneRequest, Before, During, After, Free, DoneMeansServed, virtq_is_busy
<1> QED
  BY RequestTracked, <1>1, PTL

\* The free-running 16-bit indexes never drift apart by more than the one
\* request, however often they wrap.
THEOREM IndexesNeverDrift == Spec => []IndexesAgree
<1>1. ASSUME IInv PROVE IndexesAgree
  <2>1. /\ vq.avail_index \in Indexes /\ vq.taken \in Indexes
        /\ vq.used_index \in Indexes /\ vq.consumed_used_index \in Indexes
    BY <1>1 DEF IInv, Types, Queues
  <2>2. \A i \in Indexes : Ahead(i, i) = 0 /\ Ahead(Incr(i), i) = 1
    BY NextIndex
  <2>3. Free \/ Queued \/ Working \/ Returned \/ Signalled \/ Drained
    BY <1>1 DEF IInv, Types, OneRequest
  <2>4. vq.submitted_index = vq.avail_index
    BY <1>1 DEF IInv, OneRequest
  <2> QED
    BY <2>1, <2>2, <2>3, <2>4, SMT
       DEF IndexesAgree, Free, Queued, Working, Returned, Signalled, Drained
<1> QED
  BY RequestTracked, <1>1, PTL

\* Interrupts are on between calls and after the wait as before it; a system
\* call is interrupted in the window only.
THEOREM InterruptsAlwaysRestored == Spec => []InterruptsRestored
<1>1. IInv => InterruptsRestored
  BY DEF IInv, Types, SieAsSaved, NoCall, InterruptsRestored
<1> QED
  BY RequestTracked, <1>1, PTL
-----------------------------------------------------------------------------
(* Refinement: read_write_disk is the block store. *)

\* A step that leaves the medium, the page and the arguments alone, and does
\* not move across the start or the performance of a request, is not seen.
LEMMA Unseen ==
  ASSUME UNCHANGED <<disk, blk_req, call, buf>>, Active' <=> Active, Served' <=> Served
  PROVE  UNCHANGED Store!vars
BY DEF Store!vars, Operation, Outcome

\* Steps of the trap handler and of the interrupt lines are not seen.
LEMMA HandlerUnseen ==
  ASSUME IInv, TakeTrap \/ Handler \/ LineBlk \/ ConfigChange \/ NetInterrupt
  PROVE  UNCHANGED Store!vars
<1>1. UNCHANGED <<disk, blk_req, call, buf, kpc, dpc>>
  BY DEF TakeTrap, Trap, Handler, HandlerClaim, Claim, HandlerNet, HandlerStatus, HandlerAck,
     HandlerDrain, HandlerDone, HandlerReturn, Complete, Sret, LineBlk, Latch, ConfigChange,
     NetInterrupt, irqVars, blkVars, devVars
<1>2. vq'.avail_index = vq.avail_index /\ vq'.used_index = vq.used_index
  <2>1. CASE HandlerDrain
    BY <2>1, Popped DEF IInv, Types, HandlerDrain
  <2>2. CASE UNCHANGED vq
    BY <2>2
  <2> QED
    BY <2>1, <2>2 DEF TakeTrap, Handler, HandlerClaim, HandlerNet, HandlerStatus, HandlerAck,
       HandlerDone, HandlerReturn, LineBlk, ConfigChange, NetInterrupt, blkVars
<1> QED
  BY <1>1, <1>2, Unseen DEF Active, Served, InFlight

\* A call chooses the caller's buffer.
LEMMA CallSeen ==
  ASSUME IInv, NEW c \in Calls, NEW v \in Values, Call(c, v)
  PROVE  Store!Reject(v)
BY DEF Call, Goto, KernelAt, devVars, Store!Reject, Store!NoOp, Operation, Outcome, Active,
   Served, WaitSteps

\* A rejected call is not seen beyond the caller's buffer.
LEMMA RejectUnseen ==
  ASSUME IInv, Reject
  PROVE  UNCHANGED Store!vars
BY DEF Reject, Goto, KernelAt, devVars, Store!vars, Operation, Outcome, Active, Served, WaitSteps

\* Filling the page is the abstract call.
LEMMA FillSeen ==
  ASSUME IInv, Fill
  PROVE  \E o \in Store!Ops, v \in Values : Store!Call(o, v)
<1>1. [kind |-> call.kind, sector |-> call.sector] \in Store!Ops
  BY DEF IInv, Types, Calls, Fill, Store!Ops
<1>2. Store!Call([kind |-> call.kind, sector |-> call.sector], buf)
  BY DEF Fill, Goto, KernelAt, devVars, Store!Call, Store!NoOp, Operation, Outcome, Active,
     Served, WaitSteps
<1> QED
  BY <1>1, <1>2 DEF IInv, Types

\* Clearing blk_done, the kick, the notification and the wait are not seen.
LEMMA KernelUnseen ==
  ASSUME IInv, ClearDone \/ Kick \/ Notify \/ Wait \/ WaitSpurious
  PROVE  UNCHANGED Store!vars
<1>1. CASE ClearDone
  BY <1>1, Unseen DEF ClearDone, Goto, KernelAt, devVars, Active, Served, WaitSteps
<1>2. CASE Kick
  <2>1. ~ Served
    BY <1>2 DEF Kick, Goto, KernelAt, Served, WaitSteps
  <2>2. ~ Served'
    BY <1>2, Submitted, NextIndex
       DEF IInv, Types, Queues, OneRequest, Before, Free, Kick, Goto, KernelAt, devVars, Served, InFlight
  <2> QED
    BY <1>2, <2>1, <2>2, Unseen DEF Kick, Goto, KernelAt, devVars, Active
<1>3. CASE Notify
  BY <1>3, Unseen DEF Notify, Goto, KernelAt, blkVars, Active, Served, InFlight, WaitSteps
<1>4. CASE Wait \/ WaitSpurious
  <2>1. kpc \in WaitSteps /\ kpc' \in WaitSteps
    BY <1>4 DEF Wait, WaitEnter, WaitTest, WaitWfi, WaitClose, WaitRestore, WaitSpurious,
       WaitWfiSpurious, KernelAt, WaitSteps
  <2>2. UNCHANGED <<blkVars, devVars>>
    BY <1>4 DEF Wait, WaitSpurious
  <2> QED
    BY <2>1, <2>2, Unseen DEF blkVars, devVars, Active, Served, InFlight
<1> QED
  BY <1>1, <1>2, <1>3, <1>4

\* The return hands out the outcome once: the copy of a read, or the error.
LEMMA ReturnSeen ==
  ASSUME IInv, Return
  PROVE  Store!Return
<1>1. kpc = "woken" /\ Free
  BY DEF IInv, OneRequest, After, Return, Goto, KernelAt
<1>2. Active /\ Served
  BY <1>1 DEF Active, Served, InFlight, Free, WaitSteps
<1>3. ~ Active' /\ ~ Served'
  BY DEF Return, Goto, Active, Served, WaitSteps
<1>4. Operation.kind = call.kind
  BY <1>2 DEF Operation
<1>5. Operation' = Store!NoOp /\ Outcome' = Store!None
  BY <1>3 DEF Operation, Outcome, Store!NoOp, Store!None
<1>6. CASE blk_req.status = "ok"
  <2>1. Outcome = [kind |-> "done", data |-> blk_req.data]
    BY <1>2, <1>6 DEF Outcome
  <2>2. Outcome # Store!None /\ Outcome # Store!Failed /\ Outcome.data = blk_req.data
    BY <2>1 DEF Store!None, Store!Failed
  <2> QED
    BY <1>4, <1>5, <1>6, <2>2 DEF Return, devVars, Store!Return
<1>7. CASE blk_req.status # "ok"
  <2>1. Outcome = Store!Failed /\ Outcome # Store!None
    BY <1>2, <1>7 DEF Outcome, Store!None, Store!Failed
  <2> QED
    BY <1>4, <1>5, <1>7, <2>1 DEF Return, devVars, Store!Return
<1> QED
  BY <1>6, <1>7

\* A request with the device is an active operation without an outcome yet.
LEMMA AtDevice ==
  ASSUME IInv, dpc = "taken"
  PROVE  /\ Active /\ ~ Served /\ kpc \in {"notify"} \cup WaitSteps
         /\ Operation = [kind |-> call.kind, sector |-> call.sector]
         /\ Outcome = Store!None
         /\ Filled /\ call.sector \in Sectors
<1>1. kpc \in During /\ Working /\ Filled /\ call.sector \in Sectors
  BY WithDevice
<1>2. vq.avail_index = Incr(vq.used_index) /\ vq.used_index \in Indexes
  BY <1>1 DEF Working, IInv, Types, Queues
<1>3. InFlight
  BY <1>2, NextIndex DEF InFlight
<1> QED
  BY <1>1, <1>3 DEF Active, Served, During, WaitSteps, Operation, Outcome, Store!None

\* A request performed on the page is the abstract operation on the store.
LEMMA PerformSeen ==
  ASSUME IInv, DevicePerform
  PROVE  Store!PerformRead \/ Store!PerformWrite
<1>1. dpc = "taken"
  BY DEF DevicePerform
<1>2. Active' /\ Served' /\ Operation' = Operation
  BY <1>1, AtDevice DEF DevicePerform, irqVars, Active, Served, Operation
<1>3. disk' \in [Sectors -> Values] /\ blk_req'.data = disk'[call.sector] /\ blk_req'.status = "ok"
  BY <1>1, AtDevice, RequestPerformed DEF IInv, Types, Requests, DevicePerform, Filled
<1>4. Outcome' = Store!Done(disk'[call.sector])
  BY <1>2, <1>3 DEF Outcome, Store!Done
<1>5. CASE call.kind = "read"
  BY <1>1, <1>2, <1>4, <1>5, AtDevice DEF DevicePerform, Filled, Store!PerformRead
<1>6. CASE call.kind = "write"
  <2>1. disk' = [disk EXCEPT ![call.sector] = buf]
    BY <1>1, <1>6, AtDevice DEF DevicePerform, Filled
  <2>2. disk'[call.sector] = buf
    BY <1>1, <2>1, AtDevice DEF IInv, Types
  <2>3. Operation.kind = "write" /\ Operation.sector = call.sector /\ Outcome = Store!None
    BY <1>1, <1>6, AtDevice
  <2>4. UNCHANGED buf
    BY DEF DevicePerform
  <2> QED
    BY <1>2, <1>4, <2>1, <2>2, <2>3, <2>4 DEF Store!PerformWrite
<1> QED
  BY <1>5, <1>6 DEF IInv, Types, Calls

\* A failed request is an abstract failure.
LEMMA FailSeen ==
  ASSUME IInv, NEW v \in Values, DeviceFail(v)
  PROVE  Store!Fail
<1>1. dpc = "taken"
  BY DEF DeviceFail
<1>2. Active' /\ Served' /\ Operation' = Operation
  BY <1>1, AtDevice DEF DeviceFail, irqVars, Active, Served, Operation
<1>3. blk_req'.status = "error"
  BY DEF IInv, Types, Requests, DeviceFail
<1>4. Outcome' = Store!Failed
  BY <1>2, <1>3 DEF Outcome, Store!Failed
<1>5. Operation # Store!NoOp
  BY <1>1, AtDevice DEF Store!NoOp, IInv, Types, Calls
<1> QED
  BY <1>1, <1>2, <1>4, <1>5, AtDevice DEF DeviceFail, Store!Fail

\* Moving the request between the rings is not seen.
LEMMA DeviceUnseen ==
  ASSUME IInv, DeviceTake \/ DeviceUsed \/ DeviceInterrupt
  PROVE  UNCHANGED Store!vars
<1>1. UNCHANGED <<kpc, disk, blk_req, call, buf>>
  BY DEF DeviceTake, DeviceUsed, DeviceInterrupt, irqVars, blkVars
<1>2. CASE DeviceTake
  <2>1. /\ vq'.avail_index = vq.avail_index /\ vq'.used_index = vq.used_index
        /\ dpc # "performed" /\ dpc' # "performed"
    BY <1>2, TakenUp DEF IInv, Types, DeviceTake
  <2> QED
    BY <1>1, <2>1, Unseen DEF Active, Served, InFlight
<1>3. CASE DeviceUsed
  <2>1. Working /\ dpc = "performed"
    BY <1>3, WithDevice DEF DeviceUsed
  <2>2. vq'.avail_index = vq'.used_index
    BY <1>3, <2>1, PutBack DEF DeviceUsed, Working, IInv, Types
  <2> QED
    BY <1>1, <2>1, <2>2, Unseen DEF Active, Served, InFlight
<1>4. CASE DeviceInterrupt
  <2>1. vq.avail_index = vq.used_index
    BY <1>4 DEF IInv, Types, OneRequest, Free, Queued, Working, Returned, Signalled, Drained,
       DeviceInterrupt
  <2> QED
    BY <1>1, <1>4, <2>1, Unseen DEF DeviceInterrupt, blkVars, Active, Served, InFlight
<1> QED
  BY <1>2, <1>3, <1>4

\* Every step of the driver, the handler and the device is a step of the
\* block store or leaves it unchanged.
LEMMA StepSimulated == IInv /\ [Next]_vars => [Store!Next]_(Store!vars)
<1> SUFFICES ASSUME IInv, [Next]_vars PROVE Store!Next \/ UNCHANGED Store!vars
  OBVIOUS
<1>1. CASE UNCHANGED vars
  BY <1>1, Unseen DEF vars, irqVars, blkVars, devVars, Active, Served, InFlight
<1>2. CASE Next
  BY <1>2, HandlerUnseen, CallSeen, RejectUnseen, FillSeen, KernelUnseen, ReturnSeen,
     PerformSeen, FailSeen, DeviceUnseen DEF Next, Kernel, Device, Store!Next
<1> QED
  BY <1>1, <1>2

\* read_write_disk, with its interrupt handler and the device interleaved step
\* by step, implements the atomic block store.
THEOREM DriverImplementsBlockStore == Spec => ImplementsBlockStore
<1>1. Init => Store!Init
  BY DEF Init, IrqInit, Store!Init, Store!NoOp, Store!None, Operation, Outcome, Active, Served,
     WaitSteps
<1>2. IInv /\ [Next]_vars => [Store!Next]_(Store!vars)
  BY StepSimulated
<1> QED
  BY RequestTracked, <1>1, <1>2, PTL DEF Spec, ImplementsBlockStore, Store!Spec
=============================================================================
