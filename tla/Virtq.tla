------------------------------- MODULE Virtq -------------------------------
(***************************************************************************)
(* The split virtqueue of kernel/virtio.c as a value.  The driver's half   *)
(* is translated from the code; the device's half (Dev...) is what the     *)
(* driver relies on.  Indexes are free-running counters modulo INDEX_MOD   *)
(* (2^16 in the code); the ring slot is the index modulo VIRTQ_ENTRY_NUM.  *)
(***************************************************************************)
EXTENDS Integers

CONSTANTS VIRTQ_ENTRY_NUM, INDEX_MOD

ASSUME VirtqAssumption ==
  /\ VIRTQ_ENTRY_NUM \in Nat \ {0}
  /\ INDEX_MOD \in Nat
  /\ INDEX_MOD > VIRTQ_ENTRY_NUM
  /\ INDEX_MOD % VIRTQ_ENTRY_NUM = 0

Ring == 0 .. VIRTQ_ENTRY_NUM - 1

Incr(i) == (i + 1) % INDEX_MOD
Slot(i) == i % VIRTQ_ENTRY_NUM
\* How far index a is ahead of index b, as a uint16_t subtraction.
Ahead(a, b) == (a - b) % INDEX_MOD

\* taken is the device's own position in the available ring.
virtq_init(elem) ==
  [avail |-> [k \in Ring |-> 0], avail_index |-> 0,
   used |-> [k \in Ring |-> elem], used_index |-> 0,
   submitted_index |-> 0, consumed_used_index |-> 0, taken |-> 0]

virtq_push(q, desc) ==
  [q EXCEPT !.avail[Slot(q.avail_index)] = desc, !.avail_index = Incr(@)]

\* Mutation: without submitted_index++.
virtq_submit_uncounted(q, desc) == virtq_push(q, desc)

\* virtq_kick without its last call, the notification of the device.
virtq_submit(q, desc) ==
  [virtq_push(q, desc) EXCEPT !.submitted_index = Incr(@)]

\* Mutation: an element read after consumed_used_index++.
virtq_next_elem(q) == q.used[Slot(Incr(q.consumed_used_index))]
\* Mutation: consumed_used_index set to the used index.
virtq_pop_all(q) == [q EXCEPT !.consumed_used_index = q.used_index]

\* virtq_pop_used: whether it returns true, the element, and the queue after.
virtq_has_used(q) == q.consumed_used_index # q.used_index
virtq_used_elem(q) == q.used[Slot(q.consumed_used_index)]
virtq_pop_used(q) == [q EXCEPT !.consumed_used_index = Incr(@)]

virtq_is_busy(q) == q.consumed_used_index # q.submitted_index

DevHasAvail(q) == q.taken # q.avail_index
DevHead(q) == q.avail[Slot(q.taken)]
DevTake(q) == [q EXCEPT !.taken = Incr(@)]
DevPut(q, elem) ==
  [q EXCEPT !.used[Slot(q.used_index)] = elem, !.used_index = Incr(@)]
=============================================================================
