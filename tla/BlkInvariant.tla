--------------------------- MODULE BlkInvariant ---------------------------
(***************************************************************************)
(* The inductive invariant of BlkDriver: where the one request is on its   *)
(* way from the kick to blk_done, seen from the driver, the device and the *)
(* handler at once, and what sstatus.SIE is on that way.                   *)
(***************************************************************************)
EXTENDS BlkDriver

Indexes == 0 .. INDEX_MOD - 1
Before == {"idle", "check", "clear", "kick"}       \* steps before a request is queued
During == {"notify", "wait", "test", "wfi", "window"}
After == {"restore", "woken"}

Rings == [Ring -> {0}]
Queues == [avail : Rings, avail_index : Indexes, used : Rings,
           used_index : Indexes, submitted_index : Indexes,
           consumed_used_index : Indexes, taken : Indexes]
Requests == [kind : {"read", "write"}, sector : Sectors \cup {CHOOSE s \in Sectors : TRUE},
             data : Values, status : {"ok", "error"}]

Types ==
  /\ kpc \in Before \cup During \cup After
  /\ sie \in BOOLEAN /\ saved \in BOOLEAN
  /\ plic \in [pending : SUBSET Sources, claimed : SUBSET Sources]
  /\ ipc \in {"none", "claim", "net", "status", "ack", "drain", "done", "complete", "sret"}
  /\ ipc = "claim" => plic.pending # {}
  /\ vq \in Queues
  /\ blk_req \in Requests
  /\ blk_done \in BOOLEAN /\ completed \in BOOLEAN
  /\ call \in Calls
  /\ buf \in Values
  /\ disk \in [Sectors -> Values]
  /\ isr \in SUBSET {USED_BUFFER, CONFIG_CHANGE}
  /\ status \in SUBSET {USED_BUFFER, CONFIG_CHANGE}
  /\ dpc \in {"idle", "taken", "performed", "used"}

\* Interrupts are on in boot code and off in a system call; wait_for_interrupt
\* keeps that in saved_sstatus, and only its window and boot code are interrupted.
SieAsSaved ==
  /\ kpc \notin {"test", "wfi", "window", "restore"} =>
       IF ipc = "none" THEN sie = call.boot ELSE call.boot /\ ~ sie
  /\ kpc \in {"test", "wfi", "window", "restore"} => saved = call.boot
  /\ kpc \in {"test", "wfi", "restore"} => ipc = "none" /\ ~ sie
  /\ kpc = "window" => sie = (ipc = "none")
  /\ kpc = "idle" => call = NoCall

\* The request in the page is the one of the call.
Filled ==
  /\ blk_req.kind = call.kind /\ blk_req.sector = call.sector
  /\ call.kind = "write" => blk_req.data = buf

\* No completion is on its way to the handler.
NoSignal ==
  /\ USED_BUFFER \notin isr /\ USED_BUFFER \notin status
  /\ ipc \notin {"drain", "done"} /\ ~ completed

\* The places where the request can be: nowhere, in the available ring, with the
\* device, in the used ring before and after the interrupt, popped.
Free ==
  /\ vq.avail_index = vq.taken /\ vq.taken = vq.used_index
  /\ vq.used_index = vq.consumed_used_index
  /\ dpc = "idle" /\ NoSignal
Queued ==
  /\ vq.avail_index = Incr(vq.taken) /\ vq.taken = vq.used_index
  /\ vq.used_index = vq.consumed_used_index
  /\ dpc = "idle" /\ NoSignal /\ Filled
Working ==
  /\ vq.avail_index = vq.taken /\ vq.taken = Incr(vq.used_index)
  /\ vq.used_index = vq.consumed_used_index
  /\ dpc \in {"taken", "performed"} /\ NoSignal
  /\ dpc = "taken" => Filled
Returned ==
  /\ vq.avail_index = vq.taken /\ vq.taken = vq.used_index
  /\ vq.used_index = Incr(vq.consumed_used_index)
  /\ dpc = "used" /\ NoSignal
Signalled ==
  /\ vq.avail_index = vq.taken /\ vq.taken = vq.used_index
  /\ vq.used_index = Incr(vq.consumed_used_index)
  /\ dpc = "idle" /\ ~ completed /\ ipc # "done"
  /\ USED_BUFFER \in isr <=> ipc # "drain"
  /\ USED_BUFFER \in status => ipc = "ack"
Drained ==
  /\ vq.avail_index = vq.taken /\ vq.taken = vq.used_index
  /\ vq.used_index = vq.consumed_used_index
  /\ dpc = "idle" /\ completed /\ ipc \in {"drain", "done"}
  /\ USED_BUFFER \notin isr /\ USED_BUFFER \notin status

\* One request at a time, and blk_done says that it has made the whole way.
OneRequest ==
  /\ vq.submitted_index = vq.avail_index
  /\ kpc \in Before \cup After => Free
  /\ kpc \in During =>
       IF blk_done THEN Free
       ELSE Queued \/ Working \/ Returned \/ Signalled \/ Drained
  /\ kpc \in After => blk_done
  /\ kpc = "kick" => ~ blk_done
  /\ kpc \in {"clear", "kick"} => Filled
  /\ kpc \in {"clear", "kick"} \cup During \cup After => call.sector \in Sectors

IInv == Types /\ SieAsSaved /\ OneRequest
=============================================================================
