--------------------------- MODULE NetDriverProofs ---------------------------
(***************************************************************************)
(* IInv is an invariant of NetDriver, and its safety properties follow.    *)
(***************************************************************************)
EXTENDS NetInvariant, FiniteSetTheorems, SequenceTheorems, TLAPS

\* Division with remainder is unique.
LEMMA Unique ==
  ASSUME NEW c \in Nat \ {0}, NEW a \in Int, NEW b \in Int, NEW r \in 0 .. c - 1, NEW s \in 0 .. c - 1,
         c * a + r = c * b + s
  PROVE  r = s
<1>1. c * (a - b) = s - r
  BY SMT
<1>2. a - b \in Int
  OBVIOUS
<1>3. CASE a - b >= 1
  <2>1. c * (a - b) >= c
    BY <1>3, SMT
  <2> QED
    BY <1>1, <2>1, SMT
<1>4. CASE a - b <= -1
  <2>1. c * (a - b) <= -c
    BY <1>4, SMT
  <2> QED
    BY <1>1, <2>1, SMT
<1>5. CASE a - b = 0
  BY <1>1, <1>5, SMT
<1> QED
  BY <1>2, <1>3, <1>4, <1>5, SMT

\* Division by a positive number.
LEMMA DivMod ==
  ASSUME NEW c \in Nat \ {0}, NEW x \in Int
  PROVE  x \div c \in Int /\ x % c \in 0 .. c - 1 /\ x = c * (x \div c) + (x % c)
<1>1. c \in Int /\ c > 0
  BY SMT
<1>2. x \div c \in Int /\ x % c \in 0 .. c - 1
  BY SMT
<1>3. x = c * (x \div c) + (x % c)
  BY <1>1, Z3
<1> QED
  BY <1>2, <1>3

\* A multiple of the ring size does not change the slot.
LEMMA ModPlus ==
  ASSUME NEW c \in Nat \ {0}, NEW x \in Int, NEW m \in Int, m % c = 0
  PROVE  (x + m) % c = x % c
<1>1. x + m = c * ((x + m) \div c) + ((x + m) % c)
  BY DivMod, SMT
<1>2. x + m = c * (x \div c) + (x % c) + c * (m \div c)
  <2>1. x = c * (x \div c) + (x % c)
    BY DivMod
  <2>2. m = c * (m \div c)
    BY DivMod, SMT
  <2> QED
    BY <2>1, <2>2, DivMod, SMT
<1> DEFINE a == (x + m) \div c
           b == x \div c
           d == m \div c
           r == (x + m) % c
           s == x % c
<1>3. a \in Int /\ b \in Int /\ d \in Int /\ r \in 0 .. c - 1 /\ s \in 0 .. c - 1
  BY DivMod, SMT
<1>4. c * a + r = c * b + s + c * d
  BY <1>1, <1>2
<1> HIDE DEF a, b, d, r, s
<1>5. c * (b + d) = c * b + c * d
  BY <1>3, SMT
<1>6. c * a + r = c * (b + d) + s
  BY <1>3, <1>4, <1>5, SMT
<1>7. r = s
  BY <1>3, <1>6, Unique
<1> QED
  BY <1>7 DEF r, s

\* Positions closer than the ring size have different slots.
LEMMA ModNear ==
  ASSUME NEW c \in Nat \ {0}, NEW x \in Int, NEW d \in 1 .. c - 1
  PROVE  (x + d) % c # x % c
<1> DEFINE a == (x + d) \div c
           b == x \div c
           r == (x + d) % c
           s == x % c
<1>1. a \in Int /\ b \in Int /\ r \in 0 .. c - 1 /\ s \in 0 .. c - 1 /\ x + d \in Int
  BY DivMod, SMT
<1>2. x + d = c * a + r /\ x = c * b + s
  BY <1>1, DivMod
<1> SUFFICES ASSUME r = s PROVE FALSE
  OBVIOUS
<1> HIDE DEF a, b, r, s
<1>3. c * (a - b) = d
  BY <1>1, <1>2, SMT
<1>4. CASE a - b >= 1
  <2>1. c * (a - b) >= c
    BY <1>1, <1>4, SMT
  <2> QED
    BY <1>3, <2>1, SMT
<1>5. CASE a - b <= 0
  <2>1. c * (a - b) <= 0
    BY <1>1, <1>5, SMT
  <2> QED
    BY <1>3, <2>1, SMT
<1> QED
  BY <1>1, <1>4, <1>5, SMT

-----------------------------------------------------------------------------
(* Free-running indexes. *)

\* The next index is another one; it wraps to zero.
LEMMA NextIndex ==
  ASSUME NEW i \in Indexes
  PROVE  /\ Incr(i) \in Indexes /\ Incr(i) # i
         /\ Incr(i) = IF i + 1 = INDEX_MOD THEN 0 ELSE i + 1
<1>1. INDEX_MOD \in Nat /\ INDEX_MOD > 1
  BY VirtqAssumption, SMT
<1>2. CASE i + 1 < INDEX_MOD
  BY <1>1, <1>2, SMT DEF Incr, Indexes
<1>3. CASE i + 1 = INDEX_MOD
  BY <1>1, <1>3, SMT DEF Incr, Indexes
<1> QED
  BY <1>1, <1>2, <1>3, SMT DEF Indexes

\* The distance of two indexes, across the wrap.
LEMMA Distance ==
  ASSUME NEW a \in Indexes, NEW b \in Indexes
  PROVE  /\ Ahead(a, b) \in Indexes
         /\ Ahead(a, b) = IF a >= b THEN a - b ELSE a - b + INDEX_MOD
<1>1. INDEX_MOD \in Nat /\ INDEX_MOD > 1
  BY VirtqAssumption, SMT
<1>2. CASE a >= b
  BY <1>1, <1>2, SMT DEF Ahead, Indexes
<1>3. CASE a < b
  <2>1. a - b + INDEX_MOD \in 0 .. INDEX_MOD - 1
    BY <1>1, <1>3, SMT DEF Indexes
  <2>2. (a - b) % INDEX_MOD = (a - b + INDEX_MOD) % INDEX_MOD
    <3>1. /\ a - b \in Int /\ INDEX_MOD \in Int /\ INDEX_MOD \in Nat \ {0}
          /\ INDEX_MOD % INDEX_MOD = 0
      BY <1>1, SMT DEF Indexes
    <3> QED
      BY <3>1, ModPlus, Zenon
  <2>3. (a - b + INDEX_MOD) % INDEX_MOD = a - b + INDEX_MOD
    BY <1>1, <2>1, SMT
  <2> QED
    BY <1>3, <2>1, <2>2, <2>3, SMT DEF Ahead, Indexes
<1> QED
  BY <1>2, <1>3, SMT DEF Indexes

\* Both ends of a queue move by one.
LEMMA Moved ==
  ASSUME NEW a \in Indexes, NEW b \in Indexes
  PROVE  /\ Ahead(a, a) = 0
         /\ a # b => Ahead(a, b) > 0 /\ Ahead(a, Incr(b)) = Ahead(a, b) - 1
         /\ Ahead(a, b) + 1 < INDEX_MOD => Ahead(Incr(a), b) = Ahead(a, b) + 1
<1>1. INDEX_MOD \in Nat /\ INDEX_MOD > 1
  BY VirtqAssumption, SMT
<1>2. /\ Ahead(a, b) = IF a >= b THEN a - b ELSE a - b + INDEX_MOD
      /\ Incr(a) \in Indexes /\ Incr(a) = IF a + 1 = INDEX_MOD THEN 0 ELSE a + 1
      /\ Incr(b) \in Indexes /\ Incr(b) = IF b + 1 = INDEX_MOD THEN 0 ELSE b + 1
  BY Distance, NextIndex
<1>3. /\ Ahead(a, Incr(b)) = IF a >= Incr(b) THEN a - Incr(b) ELSE a - Incr(b) + INDEX_MOD
      /\ Ahead(Incr(a), b) = IF Incr(a) >= b THEN Incr(a) - b ELSE Incr(a) - b + INDEX_MOD
  BY <1>2, Distance, Zenon
<1>7. Ahead(a, a) = 0
  <2>1. Ahead(a, a) = IF a >= a THEN a - a ELSE a - a + INDEX_MOD
    BY Distance, Zenon
  <2> QED
    BY <2>1, SMT DEF Indexes
<1> DEFINE x == Ahead(a, b)
           y == Ahead(a, Incr(b))
           z == Ahead(Incr(a), b)
           ia == Incr(a)
           ib == Incr(b)
<1> HIDE DEF x, y, z, ia, ib
<1>4. /\ x = IF a >= b THEN a - b ELSE a - b + INDEX_MOD
      /\ ia \in Indexes /\ ia = IF a + 1 = INDEX_MOD THEN 0 ELSE a + 1
      /\ ib \in Indexes /\ ib = IF b + 1 = INDEX_MOD THEN 0 ELSE b + 1
      /\ y = IF a >= ib THEN a - ib ELSE a - ib + INDEX_MOD
      /\ z = IF ia >= b THEN ia - b ELSE ia - b + INDEX_MOD
  BY <1>2, <1>3 DEF x, y, z, ia, ib
<1>5. a # b => x > 0 /\ y = x - 1
  BY <1>1, <1>4, SMT DEF Indexes
<1>6. x + 1 < INDEX_MOD => z = x + 1
  BY <1>1, <1>4, SMT DEF Indexes
<1> QED
  BY <1>7, <1>5, <1>6 DEF x, y, z, ia, ib

\* Slots of a ring whose size divides the range of the indexes: the slot of an
\* offset is that of the index it leads to, whichever end it is counted from.
LEMMA Slots ==
  ASSUME NEW c \in Nat \ {0}, INDEX_MOD % c = 0, NEW i \in Indexes
  PROVE  /\ \A k \in Int : i + k \in Int /\ (i + k) % c \in 0 .. c - 1
         /\ \A k \in Int : (Incr(i) + k) % c = (i + (k + 1)) % c
         /\ \A k \in 0 .. INDEX_MOD - 1 : ((i + k) % INDEX_MOD) % c = (i + k) % c
         /\ \A j \in Indexes : j % c = (i + Ahead(j, i)) % c
         /\ \A k, m \in Int : k < m /\ m - k < c => (i + k) % c # (i + m) % c
<1>1. INDEX_MOD \in Nat /\ INDEX_MOD > 1 /\ i \in 0 .. INDEX_MOD - 1
  BY VirtqAssumption, SMT DEF Indexes
<1>2. \A k \in Int : i + k \in Int /\ (i + k) % c \in 0 .. c - 1
  BY <1>1, SMT
<1>3. ASSUME NEW k \in Int
      PROVE  (Incr(i) + k) % c = (i + (k + 1)) % c
  <2>1. CASE i + 1 = INDEX_MOD
    <3>1. Incr(i) + k = k /\ i + (k + 1) = k + INDEX_MOD
      BY <1>1, <2>1, NextIndex, SMT
    <3>2. INDEX_MOD \in Int
      BY <1>1, SMT
    <3> QED
      BY <3>1, <3>2, ModPlus, ZenonT(60)
  <2>2. CASE i + 1 # INDEX_MOD
    <3>1. Incr(i) + k = i + (k + 1)
      BY <1>1, <2>2, NextIndex, SMT
    <3> QED
      BY <3>1
  <2> QED
    BY <2>1, <2>2
<1>4. ASSUME NEW k \in 0 .. INDEX_MOD - 1
      PROVE  ((i + k) % INDEX_MOD) % c = (i + k) % c
  <2>1. CASE i + k < INDEX_MOD
    BY <1>1, <2>1, SMT
  <2>2. CASE i + k >= INDEX_MOD
    <3>1. i + k - INDEX_MOD \in 0 .. INDEX_MOD - 1 /\ (i + k - INDEX_MOD) + INDEX_MOD = i + k
      BY <1>1, <2>2, SMT
    <3>5. /\ i + k - INDEX_MOD \in Int /\ INDEX_MOD \in Int /\ INDEX_MOD \in Nat \ {0}
          /\ INDEX_MOD % INDEX_MOD = 0
      BY <1>1, SMT
    <3>2. (i + k) % INDEX_MOD = (i + k - INDEX_MOD) % INDEX_MOD
      BY <3>1, <3>5, ModPlus, Zenon
    <3>3. (i + k - INDEX_MOD) % INDEX_MOD = i + k - INDEX_MOD
      BY <1>1, <3>1, SMT
    <3>4. (i + k - INDEX_MOD) % c = (i + k) % c
      BY <3>1, <3>5, ModPlus, Zenon
    <3> QED
      BY <3>2, <3>3, <3>4
  <2> QED
    BY <1>1, <2>1, <2>2, SMT
<1>5. ASSUME NEW j \in Indexes
      PROVE  j % c = (i + Ahead(j, i)) % c
  <2>1. j \in Int
    BY <1>1, SMT DEF Indexes
  <2>2. CASE j >= i
    <3>1. i + Ahead(j, i) = j
      BY <1>1, <2>1, <2>2, Distance, SMT
    <3> QED
      BY <3>1
  <2>3. CASE j < i
    <3>1. i + Ahead(j, i) = j + INDEX_MOD
      BY <1>1, <2>1, <2>3, Distance, SMT
    <3>2. INDEX_MOD \in Int
      BY <1>1, SMT
    <3> QED
      BY <2>1, <3>1, <3>2, ModPlus, Zenon
  <2> QED
    BY <1>1, <2>1, <2>2, <2>3, SMT
<1>6. ASSUME NEW k \in Int, NEW m \in Int, k < m, m - k < c
      PROVE  (i + k) % c # (i + m) % c
  <2>1. m - k \in 1 .. c - 1 /\ i + k \in Int /\ (i + k) + (m - k) = i + m
    BY <1>1, <1>6, SMT
  <2> QED
    BY <2>1, ModNear
<1> QED
  BY <1>2, <1>3, <1>4, <1>5, <1>6
-----------------------------------------------------------------------------
(* What the driver and the devices do to a queue, field by field. *)

\* virtq_push writes one slot of the available ring.
LEMMA Pushed ==
  ASSUME NEW q \in Queues, NEW d \in Descs
  PROVE  LET p == virtq_push(q, d)
         IN  /\ p \in Queues
             /\ p.avail = [q.avail EXCEPT ![Slot(q.avail_index)] = d]
             /\ p.avail_index = Incr(q.avail_index) /\ p.taken = q.taken
             /\ p.used = q.used /\ p.used_index = q.used_index
             /\ p.consumed_used_index = q.consumed_used_index
             /\ p.submitted_index = q.submitted_index
<1> DEFINE ring == [q.avail EXCEPT ![Slot(q.avail_index)] = d]
           r == [q EXCEPT !.avail = ring]
<1>1. ring \in [Ring -> Descs]
  BY DEF Queues
<1>2. virtq_push(q, d) = [r EXCEPT !.avail_index = Incr(q.avail_index)]
  BY DEF virtq_push
<1>3. Incr(q.avail_index) \in Indexes
  BY NextIndex DEF Queues
<1> HIDE DEF ring
<1>4. /\ r \in Queues /\ r.avail = ring /\ r.taken = q.taken /\ r.used = q.used
      /\ r.used_index = q.used_index /\ r.consumed_used_index = q.consumed_used_index
      /\ r.submitted_index = q.submitted_index
  BY <1>1, SMT DEF Queues
<1> HIDE DEF r
<1>5. /\ [r EXCEPT !.avail_index = Incr(q.avail_index)] \in Queues
      /\ [r EXCEPT !.avail_index = Incr(q.avail_index)].avail = r.avail
      /\ [r EXCEPT !.avail_index = Incr(q.avail_index)].avail_index = Incr(q.avail_index)
      /\ [r EXCEPT !.avail_index = Incr(q.avail_index)].taken = r.taken
      /\ [r EXCEPT !.avail_index = Incr(q.avail_index)].used = r.used
      /\ [r EXCEPT !.avail_index = Incr(q.avail_index)].used_index = r.used_index
      /\ [r EXCEPT !.avail_index = Incr(q.avail_index)].consumed_used_index = r.consumed_used_index
      /\ [r EXCEPT !.avail_index = Incr(q.avail_index)].submitted_index = r.submitted_index
  BY <1>3, <1>4, SMT DEF Queues
<1> QED
  BY <1>2, <1>4, <1>5, Zenon DEF ring

\* virtq_kick also counts the submission.
LEMMA Submitted ==
  ASSUME NEW q \in Queues, NEW d \in Descs
  PROVE  LET p == virtq_submit(q, d)
         IN  /\ p \in Queues
             /\ p.avail_index = Incr(q.avail_index) /\ p.taken = q.taken
             /\ p.used_index = q.used_index /\ p.consumed_used_index = q.consumed_used_index
             /\ p.submitted_index = Incr(q.submitted_index)
<1> DEFINE r == virtq_push(q, d)
<1>1. virtq_submit(q, d) = [r EXCEPT !.submitted_index = Incr(r.submitted_index)]
  BY DEF virtq_submit
<1>2. /\ r \in Queues /\ r.avail_index = Incr(q.avail_index) /\ r.taken = q.taken
      /\ r.used_index = q.used_index /\ r.consumed_used_index = q.consumed_used_index
      /\ r.submitted_index = q.submitted_index
  BY Pushed
<1>3. Incr(r.submitted_index) \in Indexes
  BY <1>2, NextIndex DEF Queues
<1> HIDE DEF r
<1> QED
  BY <1>1, <1>2, <1>3, SMT DEF Queues

\* virtq_pop_used consumes one element and nothing else.
LEMMA Popped ==
  ASSUME NEW q \in Queues
  PROVE  LET p == virtq_pop_used(q)
         IN  /\ p \in Queues
             /\ p.avail = q.avail /\ p.avail_index = q.avail_index /\ p.taken = q.taken
             /\ p.used = q.used /\ p.used_index = q.used_index
             /\ p.consumed_used_index = Incr(q.consumed_used_index)
             /\ p.submitted_index = q.submitted_index
BY NextIndex, SMT DEF Queues, virtq_pop_used

\* The device takes one descriptor from the available ring.
LEMMA TakenUp ==
  ASSUME NEW q \in Queues
  PROVE  LET p == DevTake(q)
         IN  /\ p \in Queues
             /\ p.avail = q.avail /\ p.avail_index = q.avail_index
             /\ p.taken = Incr(q.taken)
             /\ p.used = q.used /\ p.used_index = q.used_index
             /\ p.consumed_used_index = q.consumed_used_index
             /\ p.submitted_index = q.submitted_index
BY NextIndex, SMT DEF Queues, DevTake

\* The device returns one descriptor through the used ring.
LEMMA PutBack ==
  ASSUME NEW q \in Queues, NEW d \in Descs
  PROVE  LET p == DevPut(q, d)
         IN  /\ p \in Queues
             /\ p.avail = q.avail /\ p.avail_index = q.avail_index /\ p.taken = q.taken
             /\ p.used = [q.used EXCEPT ![Slot(q.used_index)] = d]
             /\ p.used_index = Incr(q.used_index)
             /\ p.consumed_used_index = q.consumed_used_index
             /\ p.submitted_index = q.submitted_index
<1> DEFINE ring == [q.used EXCEPT ![Slot(q.used_index)] = d]
           r == [q EXCEPT !.used = ring]
           n == Incr(q.used_index)
<1>1. ring \in [Ring -> Descs]
  BY DEF Queues
<1>2. DevPut(q, d) = [r EXCEPT !.used_index = n]
  BY DEF DevPut
<1>3. n \in Indexes
  BY NextIndex DEF Queues
<1> HIDE DEF ring, n
<1>4. /\ r \in Queues /\ r.used = ring /\ r.avail = q.avail /\ r.avail_index = q.avail_index
      /\ r.taken = q.taken /\ r.consumed_used_index = q.consumed_used_index
      /\ r.submitted_index = q.submitted_index
  BY <1>1, SMT DEF Queues
<1> HIDE DEF r
<1>5. /\ [r EXCEPT !.used_index = n] \in Queues
      /\ [r EXCEPT !.used_index = n].used = r.used
      /\ [r EXCEPT !.used_index = n].used_index = n
      /\ [r EXCEPT !.used_index = n].avail = r.avail
      /\ [r EXCEPT !.used_index = n].avail_index = r.avail_index
      /\ [r EXCEPT !.used_index = n].taken = r.taken
      /\ [r EXCEPT !.used_index = n].consumed_used_index = r.consumed_used_index
      /\ [r EXCEPT !.used_index = n].submitted_index = r.submitted_index
  BY <1>3, <1>4, SMT DEF Queues
<1> QED
  BY <1>2, <1>4, <1>5, Zenon DEF ring, n
-----------------------------------------------------------------------------
(* Which steps touch what the two contexts and the device share. *)

receiveVars == <<rx, rxbuf, drx, desc, flying>>
captureVars == <<capture, kept>>
hostVars == <<arp, heard>>
sharedVars == <<receiveVars, captureVars, hostVars>>

\* The controller gives out one of its sources.
LEMMA SourceClaimed ==
  ASSUME NEW S \in SUBSET Sources, S # {}
  PROVE  Min(S) \in S
<1>1. \E x \in S : \A y \in S : x <= y
  <2>1. CASE 1 \in S
    BY <2>1, SMT DEF Sources, VIRTIO_BLK_IRQ, VIRTIO_NET_IRQ
  <2>2. CASE 1 \notin S
    BY <2>2, S = {2}, SMT DEF Sources, VIRTIO_BLK_IRQ, VIRTIO_NET_IRQ
  <2> QED
    BY <2>1, <2>2
<1> QED
  BY <1>1, Zenon DEF Min

\* The kernel thread outside virtio_net_pop_rx_frame and the taking of a reply,
\* and the person typing.
KernelElsewhere ==
  \/ \E f \in Outgoing : f.kind # "reply" /\ Send(f)
  \/ PopEnter \/ StartShell \/ Getchar \/ ArpPollNothing \/ ReadNothing \/ ReadKey
  \/ TxClear \/ TxKick \/ TxNotify \/ Wait \/ WaitSpurious \/ TxReturn \/ KeyTyped
\* They leave the handler, the receive side, the captures and the hosts alone.
LEMMA KernelApart ==
  ASSUME Claims, KernelElsewhere
  PROVE  Claims' /\ UNCHANGED <<ipc, dtx, sharedVars>>
<1> USE DEF sharedVars, receiveVars, captureVars, hostVars, irqVars, kernelVars, queueVars,
        protoVars, handlerVars, devVars, histVars, Goto
<1>1. UNCHANGED <<plic, ipc, dtx, sharedVars>>
  <2>1. CASE \E f \in Outgoing : f.kind # "reply" /\ Send(f)
    BY <2>1, Zenon DEF Send
  <2>2. CASE PopEnter
    BY <2>2, Zenon DEF PopEnter
  <2>3. CASE StartShell
    BY <2>3, Zenon DEF StartShell
  <2>4. CASE Getchar
    BY <2>4, Zenon DEF Getchar
  <2>5. CASE ArpPollNothing
    BY <2>5, Zenon DEF ArpPollNothing
  <2>6. CASE ReadNothing
    BY <2>6, Zenon DEF ReadNothing
  <2>7. CASE ReadKey
    BY <2>7, Zenon DEF ReadKey
  <2>8. CASE TxClear
    BY <2>8, Zenon DEF TxClear
  <2>9. CASE TxKick
    BY <2>9, Zenon DEF TxKick
  <2>10. CASE TxNotify
    BY <2>10, Zenon DEF TxNotify
  <2>11. CASE TxReturn
    BY <2>11, Zenon DEF TxReturn
  <2>12. CASE KeyTyped
    BY <2>12, Zenon DEF KeyTyped
  <2>13. CASE Wait \/ WaitSpurious
    BY <2>13, Zenon DEF Wait, WaitSpurious, WaitEnter, WaitTest, WaitWfi, WaitClose, WaitRestore,
       WaitWfiSpurious
  <2> QED
    BY <2>1, <2>2, <2>3, <2>4, <2>5, <2>6, <2>7, <2>8, <2>9, <2>10, <2>11, <2>12, <2>13, Zenon DEF KernelElsewhere
<1> QED
  BY <1>1, Zenon DEF Claims

\* The handler outside the loop body of virtio_net_drain_rx.
HandlerElsewhere ==
  \/ TakeTrap \/ HandlerClaim \/ HandlerStatus \/ HandlerAck \/ HandlerEndRx
  \/ HandlerPopTx \/ HandlerEndTx \/ HandlerReturn
\* It neither enters nor leaves the loop body, and leaves what is shared alone.
LEMMA HandlerApart ==
  ASSUME Claims, HandlerElsewhere
  PROVE  Claims' /\ ipc # "frame" /\ ipc' # "frame" /\ UNCHANGED <<kpc, ret, dtx, sharedVars>>
<1> USE DEF sharedVars, receiveVars, captureVars, hostVars, irqVars, kernelVars, queueVars,
        protoVars, handlerVars, devVars, histVars, HandlerAt
<1>1. UNCHANGED <<kpc, ret, dtx, sharedVars>>
  <2>1. CASE TakeTrap \/ HandlerClaim
    BY <2>1, Zenon DEF TakeTrap, Trap, HandlerClaim, Claim
  <2>2. CASE HandlerStatus \/ HandlerAck \/ HandlerEndRx
    BY <2>2, Zenon DEF HandlerStatus, HandlerAck, HandlerEndRx
  <2>3. CASE HandlerPopTx \/ HandlerEndTx
    BY <2>3, Zenon DEF HandlerPopTx, HandlerEndTx
  <2>4. CASE HandlerReturn
    BY <2>4, Zenon DEF HandlerReturn, Complete, Sret
  <2> QED
    BY <2>1, <2>2, <2>3, <2>4, Zenon DEF HandlerElsewhere
<1>2. CASE TakeTrap
  BY <1>1, <1>2, SMT DEF TakeTrap, Trap, Deliverable, Claims
<1>3. CASE HandlerClaim
  <2> DEFINE h == [src \in Sources |-> "status"]
  <2>1. /\ plic \in [pending : SUBSET Sources, claimed : SUBSET Sources]
        /\ plic.pending # {} /\ ipc = "claim"
    BY <1>3, Zenon DEF HandlerClaim, Claim, Claims
  <2>2. plic.pending \in SUBSET Sources /\ plic.claimed \in SUBSET Sources
    BY <2>1, SMT
  <2>3. irq' \in Sources /\ ipc' = h[irq']
    BY <1>3, <2>1, <2>2, SourceClaimed, Zenon DEF HandlerClaim, Claim
  <2>4. ipc' = "status"
    BY <2>3, Zenon
  <2>5. plic' = [pending |-> plic.pending \ {irq'}, claimed |-> plic.claimed \cup {irq'}]
    BY <1>3, Zenon DEF HandlerClaim, Claim
  <2>6. plic' \in [pending : SUBSET Sources, claimed : SUBSET Sources]
    BY <2>2, <2>3, <2>5, SMT
  <2> QED
    BY <1>1, <2>1, <2>4, <2>6, Zenon DEF Claims
<1>4. CASE HandlerStatus \/ HandlerAck \/ HandlerEndRx \/ HandlerPopTx \/ HandlerEndTx
  <2>1. /\ UNCHANGED plic /\ ipc \in {"status", "ack", "rx", "tx"}
        /\ ipc' \in {"ack", "rx", "tx", "complete"}
    BY <1>4, Zenon DEF HandlerStatus, HandlerAck, HandlerEndRx, HandlerPopTx, HandlerEndTx
  <2> QED
    BY <1>1, <2>1, Zenon DEF Claims
<1>5. CASE HandlerReturn
  <2>1. plic' \in [pending : SUBSET Sources, claimed : SUBSET Sources]
    BY <1>5, SMT DEF HandlerReturn, Complete, Sret, Claims
  <2>2. ipc \in {"complete", "sret"} /\ ipc' \in {"sret", "none"}
    BY <1>5, Zenon DEF HandlerReturn, Complete, Sret
  <2> QED
    BY <1>1, <2>1, <2>2, Zenon DEF Claims
<1> QED
  BY <1>2, <1>3, <1>4, <1>5, Zenon DEF HandlerElsewhere

\* The device outside the receive queue, and the interrupt line.
DeviceElsewhere ==
  RxStall \/ TxTake \/ TxSend \/ TxUsed \/ TxInterrupt \/ ConfigChange \/ LineNet
\* It leaves the contexts, the receive side, the captures and the hosts alone.
LEMMA DeviceApart ==
  ASSUME Claims, DeviceElsewhere
  PROVE  Claims' /\ UNCHANGED <<ipc, kpc, ret, tx_done, sharedVars>>
<1> USE DEF sharedVars, receiveVars, captureVars, hostVars, irqVars, kernelVars, queueVars,
        protoVars, handlerVars, devVars, histVars
<1>1. CASE RxStall \/ ConfigChange \/ TxTake \/ TxSend \/ TxUsed \/ TxInterrupt
  <2>1. UNCHANGED <<plic, ipc, kpc, ret, tx_done, sharedVars>>
    <3>1. CASE RxStall \/ ConfigChange \/ TxTake
      BY <3>1, Zenon DEF RxStall, ConfigChange, TxTake
    <3>2. CASE TxSend \/ TxUsed \/ TxInterrupt
      BY <3>2, Zenon DEF TxSend, TxUsed, TxInterrupt
    <3> QED
      BY <1>1, <3>1, <3>2
  <2> QED
    BY <2>1, Zenon DEF Claims
<1>2. CASE LineNet
  <2>1. UNCHANGED <<ipc, kpc, ret, tx_done, sharedVars>>
    BY <1>2, Zenon DEF LineNet, Latch
  <2>2. /\ plic' = [plic EXCEPT !.pending = @ \cup {VIRTIO_NET_IRQ}]
        /\ plic \in [pending : SUBSET Sources, claimed : SUBSET Sources]
    BY <1>2, Zenon DEF LineNet, Latch, Claims
  <2>3. /\ plic' \in [pending : SUBSET Sources, claimed : SUBSET Sources]
        /\ plic.pending # {} => plic'.pending # {}
    BY <2>2, SMT DEF Sources
  <2> QED
    BY <2>1, <2>3, Zenon DEF Claims
<1> QED
  BY <1>1, <1>2, Zenon DEF DeviceElsewhere

\* Every other step is one of these.
LEMMA Steps ==
  ASSUME [Next]_vars
  PROVE  \/ UNCHANGED vars
         \/ KernelElsewhere \/ HandlerElsewhere \/ DeviceElsewhere
         \/ PopFrame \/ ArpPollReply
         \/ HandlerPopRx \/ HandlerFrame
         \/ RxUsed \/ RxInterrupt \/ \E f \in Frames : RxArrive(f)
BY Zenon DEF Next, Kernel, Handler, Device, KernelElsewhere, HandlerElsewhere, DeviceElsewhere

\* The claims are kept.
LEMMA ClaimsKept ==
  ASSUME Claims, [Next]_vars
  PROVE  Claims'
<1> USE DEF irqVars, Goto, HandlerAt
<1>1. CASE UNCHANGED vars
  BY <1>1, Zenon DEF vars, Claims
<1>2. CASE PopFrame \/ ArpPollReply
  BY <1>2, Zenon DEF PopFrame, ArpPollReply, Claims
<1>3. CASE HandlerPopRx \/ HandlerFrame
  BY <1>3, Zenon DEF HandlerPopRx, HandlerFrame, Claims
<1>4. CASE RxUsed \/ RxInterrupt \/ \E f \in Frames : RxArrive(f)
  BY <1>4, Zenon DEF RxUsed, RxInterrupt, RxArrive, Claims
<1> QED
  BY <1>1, <1>2, <1>3, <1>4, Steps, KernelApart, HandlerApart, DeviceApart, Zenon
-----------------------------------------------------------------------------
(* The transmit side. *)

\* The places of the frame to send depend on the queue and the device only.
LEMMA TxSame ==
  ASSUME UNCHANGED <<tx, dtx>>
  PROVE  (TxFree' <=> TxFree) /\ (TxQueued' <=> TxQueued) /\ (TxWorking' <=> TxWorking)
         /\ (TxReturned' <=> TxReturned)
BY Zenon DEF TxFree, TxQueued, TxWorking, TxReturned

\* The steps of the kernel thread that leave the queue alone: before the kick
\* nothing is queued, and the wait ends only once net_tx_done is set.
LEMMA SenderMoves ==
  ASSUME OneFrame, UNCHANGED <<tx, dtx>>, ret' \in {"idle", "read"},
         \/ /\ UNCHANGED tx_done
            /\ kpc \in Before \cup {"woken"} /\ kpc' \in Before /\ kpc' # "tx_kick"
         \/ kpc \in Before /\ kpc' = "tx_kick" /\ tx_done' = FALSE
         \/ UNCHANGED tx_done /\ kpc \in During /\ kpc' \in During
         \/ UNCHANGED tx_done /\ kpc \in During /\ kpc' = "restore" /\ tx_done
         \/ UNCHANGED tx_done /\ kpc = "restore" /\ kpc' = "woken"
         \/ UNCHANGED <<tx_done, kpc>>
  PROVE  OneFrame'
<1>1. (TxFree' <=> TxFree) /\ (TxQueued' <=> TxQueued) /\ (TxWorking' <=> TxWorking)
      /\ (TxReturned' <=> TxReturned)
  BY TxSame
<1> USE DEF OneFrame
<1>2. CASE UNCHANGED tx_done /\ kpc \in Before \cup {"woken"} /\ kpc' \in Before
           /\ kpc' # "tx_kick"
  <2>1. kpc' \notin During /\ kpc' \notin After /\ kpc \in Before \cup After
    BY <1>2 DEF Before, During, After
  <2> QED
    BY <1>1, <1>2, <2>1, Zenon
<1>3. CASE kpc \in Before /\ kpc' = "tx_kick" /\ tx_done' = FALSE
  <2>1. kpc' \notin During /\ kpc' \notin After /\ kpc' \in Before
    BY <1>3 DEF Before, During, After
  <2> QED
    BY <1>1, <1>3, <2>1, Zenon
<1>4. CASE UNCHANGED tx_done /\ kpc \in During /\ kpc' \in During
  <2>1. kpc' \notin Before /\ kpc' \notin After /\ kpc' # "tx_kick"
    BY <1>4 DEF Before, During, After
  <2> QED
    BY <1>1, <1>4, <2>1, Zenon
<1>5. CASE UNCHANGED tx_done /\ kpc \in During /\ kpc' = "restore" /\ tx_done
  <2>1. kpc' \notin During /\ kpc' \in After /\ kpc' # "tx_kick"
    BY <1>5 DEF Before, During, After
  <2> QED
    BY <1>1, <1>5, <2>1, Zenon
<1>6. CASE UNCHANGED tx_done /\ kpc = "restore" /\ kpc' = "woken"
  <2>1. kpc' \notin During /\ kpc \in After /\ kpc' \in After /\ kpc' # "tx_kick"
    BY <1>6 DEF Before, During, After
  <2> QED
    BY <1>1, <1>6, <2>1, Zenon
<1>7. CASE UNCHANGED <<tx_done, kpc>>
  BY <1>1, <1>7, Zenon
<1> QED
  BY <1>2, <1>3, <1>4, <1>5, <1>6, <1>7, Zenon

\* The kernel thread up to the kick.
LEMMA BeforeKick ==
  ASSUME OneFrame,
         \/ \E f \in Outgoing : f.kind # "reply" /\ Send(f)
         \/ PopEnter \/ PopFrame \/ Getchar \/ ArpPollNothing \/ ArpPollReply
         \/ ReadNothing \/ ReadKey \/ TxClear
  PROVE  OneFrame'
<1> USE DEF kernelVars, queueVars, devVars, Goto, KernelAt
<1>1. UNCHANGED <<tx, dtx>> /\ ret' \in {"idle", "read"}
  <2>1. CASE (\E f \in Outgoing : f.kind # "reply" /\ Send(f)) \/ PopEnter \/ PopFrame
    BY <2>1, Zenon DEF Send, PopEnter, PopFrame, OneFrame
  <2>2. CASE Getchar \/ ArpPollNothing \/ ArpPollReply
    BY <2>2, Zenon DEF Getchar, ArpPollNothing, ArpPollReply, OneFrame
  <2>3. CASE ReadNothing \/ ReadKey \/ TxClear
    BY <2>3, Zenon DEF ReadNothing, ReadKey, TxClear, OneFrame
  <2> QED
    BY <2>1, <2>2, <2>3, Zenon
<1>2. CASE TxClear
  <2>1. kpc \in Before /\ kpc' = "tx_kick" /\ tx_done' = FALSE
    BY <1>2, Zenon DEF TxClear, Before
  <2> QED
    BY <1>1, <2>1, SenderMoves, Zenon
<1>3. CASE ~ TxClear
  <2>1. UNCHANGED tx_done /\ kpc \in {"idle", "pop", "poll", "read"}
        /\ kpc' \in {"tx_clear", "idle", "pop", "poll", "read"}
    <3>1. CASE (\E f \in Outgoing : f.kind # "reply" /\ Send(f)) \/ PopEnter \/ PopFrame
      BY <3>1, Zenon DEF Send, PopEnter, PopFrame
    <3>2. CASE Getchar \/ ArpPollNothing \/ ArpPollReply
      BY <3>2, Zenon DEF Getchar, ArpPollNothing, ArpPollReply
    <3>3. CASE ReadNothing \/ ReadKey
      BY <3>3, Zenon DEF ReadNothing, ReadKey
    <3> QED
      BY <1>3, <3>1, <3>2, <3>3, Zenon
  <2>2. kpc \in Before /\ kpc' \in Before /\ kpc' # "tx_kick"
    BY <2>1 DEF Before
  <2> QED
    BY <1>1, <2>1, <2>2, SenderMoves, Zenon
<1> QED
  BY <1>2, <1>3

\* The notification, the wait and the return.
LEMMA AfterKick ==
  ASSUME OneFrame, TxNotify \/ Wait \/ WaitSpurious \/ TxReturn
  PROVE  OneFrame'
<1> USE DEF kernelVars, queueVars, devVars, Goto, KernelAt
<1>1. UNCHANGED <<tx, dtx, tx_done>> /\ ret' \in {"idle", "read"}
  BY Zenon DEF TxNotify, Wait, WaitSpurious, TxReturn, OneFrame
<1>2. CASE TxNotify \/ WaitSpurious
  <2>1. kpc \in During /\ kpc' \in During
    BY <1>2, Zenon DEF TxNotify, WaitSpurious, WaitWfiSpurious, During
  <2> QED
    BY <1>1, <2>1, SenderMoves, Zenon
<1>3. CASE TxReturn
  <2>1. kpc = "woken" /\ kpc' = ret /\ ret \in {"idle", "read"}
    BY <1>3, Zenon DEF TxReturn, OneFrame
  <2>2. kpc' \in Before /\ kpc' # "tx_kick" /\ kpc \in Before \cup {"woken"}
    BY <2>1 DEF Before
  <2> QED
    BY <1>1, <2>2, SenderMoves, Zenon
<1>4. CASE Wait
  <2>1. CASE WaitEnter \/ WaitWfi \/ WaitClose
    <3>1. kpc \in During /\ kpc' \in During
      BY <2>1, Zenon DEF WaitEnter, WaitWfi, WaitClose, During
    <3> QED
      BY <1>1, <3>1, SenderMoves, Zenon
  <2>2. CASE WaitTest(tx_done)
    <3>1. kpc \in During /\ ((tx_done /\ kpc' = "restore") \/ kpc' \in During)
      BY <2>2, Zenon DEF WaitTest, During
    <3> QED
      BY <1>1, <3>1, SenderMoves, Zenon
  <2>3. CASE WaitRestore
    <3>1. kpc = "restore" /\ kpc' = "woken"
      BY <2>3, Zenon DEF WaitRestore
    <3> QED
      BY <1>1, <3>1, SenderMoves, Zenon
  <2> QED
    BY <1>4, <2>1, <2>2, <2>3, Zenon DEF Wait
<1> QED
  BY <1>2, <1>3, <1>4
\* The kick queues the frame.
LEMMA KickQueues ==
  ASSUME OneFrame, TxKick
  PROVE  OneFrame'
<1>1. /\ tx \in Queues /\ tx.submitted_index = tx.avail_index /\ TxFree
      /\ kpc = "tx_kick" /\ kpc' = "tx_notify" /\ tx_done = FALSE /\ tx_done' = FALSE
      /\ ret' = ret /\ dtx' = dtx /\ tx' = virtq_submit(tx, 0) /\ ret \in {"idle", "read"}
  <2>1. kpc = "tx_kick"
    BY Zenon DEF TxKick, Goto, KernelAt
  <2>2. kpc \in Before
    BY <2>1 DEF Before
  <2> QED
    BY <2>1, <2>2, Zenon DEF OneFrame, TxKick, Goto, kernelVars, devVars
<1>2. 0 \in Descs
  BY VirtqAssumption, SMT DEF Descs, Ring
<1>3. /\ tx' \in Queues /\ tx'.avail_index = Incr(tx.avail_index) /\ tx'.taken = tx.taken
      /\ tx'.used_index = tx.used_index /\ tx'.consumed_used_index = tx.consumed_used_index
      /\ tx'.submitted_index = Incr(tx.submitted_index)
  BY <1>1, <1>2, Submitted, Zenon
<1>4. TxQueued'
  BY <1>1, <1>3, Zenon DEF TxFree, TxQueued
<1>5. kpc' \in During /\ kpc' \notin Before /\ kpc' \notin After /\ kpc' # "tx_kick"
  BY <1>1 DEF During, Before, After
<1> QED
  BY <1>1, <1>3, <1>4, <1>5, Zenon DEF OneFrame

\* The handler reaps the frame and says so.
LEMMA HandlerReaps ==
  ASSUME OneFrame, HandlerPopTx
  PROVE  OneFrame'
<1>1. /\ tx \in Queues /\ tx.submitted_index = tx.avail_index
      /\ tx.consumed_used_index # tx.used_index /\ tx' = virtq_pop_used(tx) /\ tx_done' = TRUE
      /\ UNCHANGED <<kpc, ret, dtx>>
  BY Zenon DEF OneFrame, HandlerPopTx, HandlerAt, kernelVars, devVars, virtq_has_used
<1>2. TxReturned /\ kpc \in During /\ kpc \notin Before \cup After
  <2>1. ~ TxFree /\ ~ TxQueued /\ ~ TxWorking
    BY <1>1, Zenon DEF TxFree, TxQueued, TxWorking
  <2> QED
    BY <2>1, Zenon DEF OneFrame
<1>3. /\ tx' \in Queues /\ tx'.avail_index = tx.avail_index /\ tx'.taken = tx.taken
      /\ tx'.used_index = tx.used_index /\ tx'.submitted_index = tx.submitted_index
      /\ tx'.consumed_used_index = Incr(tx.consumed_used_index)
  BY <1>1, Popped, Zenon
<1>4. TxFree'
  BY <1>1, <1>2, <1>3, Zenon DEF TxFree, TxReturned
<1>5. kpc' # "tx_kick" /\ kpc' \notin After
  BY <1>1, <1>2 DEF Before, After
<1> QED
  BY <1>1, <1>2, <1>3, <1>4, <1>5, Zenon DEF OneFrame

\* The device takes the frame, sends it and returns it.
LEMMA DeviceSends ==
  ASSUME OneFrame, TxTake \/ TxSend \/ TxUsed \/ TxInterrupt
  PROVE  OneFrame'
<1>1. UNCHANGED <<kpc, ret, tx_done>>
  BY Zenon DEF TxTake, TxSend, TxUsed, TxInterrupt, irqVars, kernelVars, queueVars
<1>2. CASE TxInterrupt
  <2>1. dtx = "used" /\ dtx' = "idle" /\ UNCHANGED tx
    BY <1>2, Zenon DEF TxInterrupt, queueVars
  <2>2. (TxFree' <=> TxFree) /\ (TxQueued' <=> TxQueued) /\ ~ TxWorking
        /\ (TxReturned' <=> TxReturned)
    BY <2>1, Zenon DEF TxFree, TxQueued, TxWorking, TxReturned
  <2> QED
    BY <1>1, <2>1, <2>2, Zenon DEF OneFrame
<1>3. CASE TxSend
  <2>1. dtx = "taken" /\ dtx' = "sent" /\ UNCHANGED tx
    BY <1>3, Zenon DEF TxSend, queueVars
  <2>2. ~ TxFree /\ ~ TxQueued /\ (TxWorking' <=> TxWorking) /\ ~ TxReturned
    BY <2>1, Zenon DEF TxFree, TxQueued, TxWorking, TxReturned
  <2> QED
    BY <1>1, <2>1, <2>2, Zenon DEF OneFrame
<1>4. CASE TxTake
  <2>1. CASE ~ DevHasAvail(tx)
    BY <1>1, <1>4, <2>1, SenderMoves, Zenon DEF TxTake, OneFrame
  <2>2. CASE DevHasAvail(tx)
    <3>1. /\ tx \in Queues /\ tx.submitted_index = tx.avail_index
          /\ tx.taken # tx.avail_index /\ tx' = DevTake(tx) /\ dtx' = "taken"
      BY <1>4, <2>2, Zenon DEF OneFrame, TxTake, DevHasAvail
    <3>2. ~ TxFree /\ ~ TxWorking /\ ~ TxReturned
      BY <3>1, Zenon DEF TxFree, TxWorking, TxReturned
    <3>3. TxQueued /\ kpc \in During /\ kpc \notin Before \cup After /\ tx_done = FALSE
      BY <3>2, Zenon DEF OneFrame
    <3>4. /\ tx' \in Queues /\ tx'.avail_index = tx.avail_index /\ tx'.taken = Incr(tx.taken)
          /\ tx'.used_index = tx.used_index /\ tx'.submitted_index = tx.submitted_index
          /\ tx'.consumed_used_index = tx.consumed_used_index
      BY <3>1, TakenUp, Zenon
    <3>5. TxWorking'
      BY <3>1, <3>3, <3>4, Zenon DEF TxQueued, TxWorking
    <3> QED
      BY <1>1, <3>1, <3>3, <3>4, <3>5, Zenon DEF OneFrame
  <2> QED
    BY <2>1, <2>2
<1>5. CASE TxUsed
  <2>1. /\ tx \in Queues /\ tx.submitted_index = tx.avail_index
        /\ dtx = "sent" /\ tx' = DevPut(tx, 0) /\ dtx' = "used"
    BY <1>5, Zenon DEF OneFrame, TxUsed
  <2>2. ~ TxFree /\ ~ TxQueued /\ ~ TxReturned
    BY <2>1, Zenon DEF TxFree, TxQueued, TxReturned
  <2>3. TxWorking /\ kpc \in During /\ kpc \notin Before \cup After /\ tx_done = FALSE
    BY <2>2, Zenon DEF OneFrame
  <2>4. 0 \in Descs
    BY VirtqAssumption, SMT DEF Descs, Ring
  <2>5. /\ tx' \in Queues /\ tx'.avail_index = tx.avail_index /\ tx'.taken = tx.taken
        /\ tx'.used_index = Incr(tx.used_index) /\ tx'.submitted_index = tx.submitted_index
        /\ tx'.consumed_used_index = tx.consumed_used_index
    BY <2>1, <2>4, PutBack, Zenon
  <2>6. TxReturned'
    BY <2>1, <2>3, <2>5, Zenon DEF TxReturned, TxWorking
  <2> QED
    BY <1>1, <2>1, <2>3, <2>5, <2>6, Zenon DEF OneFrame
<1> QED
  BY <1>2, <1>3, <1>4, <1>5

\* One frame at a time, whatever the step.
LEMMA OneFrameKept ==
  ASSUME Claims, OneFrame, [Next]_vars
  PROVE  OneFrame'
<1> USE DEF irqVars, kernelVars, queueVars, protoVars, handlerVars, devVars, histVars, HandlerAt
<1>1. ASSUME UNCHANGED <<kpc, ret, tx, tx_done, dtx>> PROVE OneFrame'
  BY <1>1, SenderMoves, Zenon DEF OneFrame
<1>2. CASE UNCHANGED vars
  BY <1>1, <1>2, Zenon DEF vars
<1>3. CASE StartShell \/ KeyTyped
  BY <1>1, <1>3, Zenon DEF StartShell, KeyTyped
<1>4. CASE KernelElsewhere /\ ~ (StartShell \/ KeyTyped)
  BY <1>4, BeforeKick, AfterKick, KickQueues, Zenon DEF KernelElsewhere
<1>5. CASE PopFrame \/ ArpPollReply
  BY <1>5, BeforeKick, Zenon
<1>6. CASE HandlerElsewhere
  <2>1. CASE HandlerPopTx
    BY <2>1, HandlerReaps, Zenon
  <2>2. CASE TakeTrap \/ HandlerClaim \/ HandlerReturn
    BY <1>1, <2>2, Zenon DEF TakeTrap, Trap, HandlerClaim, Claim, HandlerReturn, Complete, Sret
  <2>3. CASE HandlerStatus \/ HandlerAck \/ HandlerEndRx \/ HandlerEndTx
    BY <1>1, <2>3, Zenon DEF HandlerStatus, HandlerAck, HandlerEndRx, HandlerEndTx
  <2> QED
    BY <1>6, <2>1, <2>2, <2>3, Zenon DEF HandlerElsewhere
<1>7. CASE HandlerPopRx \/ HandlerFrame
  BY <1>1, <1>7, Zenon DEF HandlerPopRx, HandlerFrame
<1>8. CASE DeviceElsewhere
  <2>1. CASE RxStall \/ ConfigChange \/ LineNet
    BY <1>1, <2>1, Zenon DEF RxStall, ConfigChange, LineNet, Latch
  <2> QED
    BY <1>8, <2>1, DeviceSends, Zenon DEF DeviceElsewhere
<1>9. CASE RxUsed \/ RxInterrupt \/ \E f \in Frames : RxArrive(f)
  BY <1>1, <1>9, Zenon DEF RxUsed, RxInterrupt, RxArrive
<1> QED
  BY <1>2, <1>3, <1>4, <1>5, <1>6, <1>7, <1>8, <1>9, Steps, Zenon

\* What the transmit side promises follows.
LEMMA TransmitPromises ==
  ASSUME OneFrame
  PROVE  TxBufferExclusive /\ TxDoneMeansSent
<1>1. TxBufferExclusive
  BY Zenon DEF OneFrame, TxBufferExclusive, TxFree, During
<1>2. TxDoneMeansSent
  <2>1. SUFFICES ASSUME tx_done, kpc \in {"tx_kick", "tx_notify", "restore", "woken"} \cup WaitSteps
                 PROVE  tx.consumed_used_index = tx.submitted_index
    BY Zenon DEF TxDoneMeansSent
  <2>2. TxFree
    BY <2>1, Zenon DEF OneFrame, WaitSteps, During, After
  <2> QED
    BY <2>2, Zenon DEF OneFrame, TxFree
<1> QED
  BY <1>1, <1>2
-----------------------------------------------------------------------------
(* The receive buffers. *)

\* Slots of the rings of the queues.
LEMMA RingSlots ==
  ASSUME NEW i \in Indexes
  PROVE  /\ \A k \in Int : Slot(i + k) \in Ring
         /\ Slot(i + 0) = Slot(i)
         /\ \A k \in Int : Slot(Incr(i) + k) = Slot(i + (k + 1))
         /\ \A k \in 0 .. INDEX_MOD - 1 : Slot((i + k) % INDEX_MOD) = Slot(i + k)
         /\ \A j \in Indexes : Slot(j) = Slot(i + Ahead(j, i))
         /\ \A k, m \in Int : k < m /\ m - k < VIRTQ_ENTRY_NUM => Slot(i + k) # Slot(i + m)
<1>1. VIRTQ_ENTRY_NUM \in Nat \ {0} /\ INDEX_MOD % VIRTQ_ENTRY_NUM = 0
  BY VirtqAssumption
<1>2. i + 0 = i
  BY VirtqAssumption, SMT DEF Indexes
<1> QED
  BY <1>1, <1>2, Slots, Zenon DEF Slot, Ring

\* How many descriptors are where.
LEMMA Counts ==
  ASSUME BuffersPlaced
  PROVE  /\ Handling \in 0 .. 1 /\ Filling \in 0 .. 1
         /\ Useds \in 0 .. VIRTQ_ENTRY_NUM /\ Avails \in 0 .. VIRTQ_ENTRY_NUM
         /\ Full = Handling + Useds + Filling /\ Full + Avails = VIRTQ_ENTRY_NUM
         /\ Full \in 0 .. VIRTQ_ENTRY_NUM
         /\ VIRTQ_ENTRY_NUM \in Nat \ {0} /\ INDEX_MOD \in Nat /\ INDEX_MOD > VIRTQ_ENTRY_NUM
<1>1. Useds \in Indexes /\ Avails \in Indexes
  <2>1. /\ rx.used_index \in Indexes /\ rx.consumed_used_index \in Indexes
        /\ rx.avail_index \in Indexes /\ rx.taken \in Indexes
    BY SMT DEF BuffersPlaced, Queues
  <2> QED
    BY <2>1, Distance, Zenon DEF Useds, Avails
<1>2. Handling \in {0, 1} /\ Filling \in {0, 1}
  BY Zenon DEF Handling, Filling
<1>3. Full + Avails = VIRTQ_ENTRY_NUM
  BY DEF BuffersPlaced
<1> QED
  BY <1>1, <1>2, <1>3, VirtqAssumption, SMT DEF Full, Indexes

\* The four stretches of Place, before and after a step.
LEMMA Stretches ==
  LET C ==
    \A k \in 1 .. VIRTQ_ENTRY_NUM :
      Place[k] = IF k <= Handling THEN desc
                 ELSE IF k <= Handling + Useds
                 THEN rx.used[Slot(rx.consumed_used_index + (k - Handling - 1))]
                 ELSE IF k <= Full THEN drx.desc
                 ELSE rx.avail[Slot(rx.taken + (k - Full - 1))]
  IN C /\ C'
BY Zenon DEF Place

\* The places stay and the frames are where they were.
LEMMA PlacesStay ==
  ASSUME BuffersPlaced, rx' \in Queues, rxbuf' \in [Descs -> Contents],
         Full' + Avails' = VIRTQ_ENTRY_NUM,
         \A k \in 1 .. VIRTQ_ENTRY_NUM : Place'[k] = Place[k],
         flying' = [k \in 1 .. Full' |-> rxbuf'[Place'[k]]]
  PROVE  BuffersPlaced'
BY Zenon DEF BuffersPlaced

\* A step that does not touch the receive side.
LEMMA ReceiveApart ==
  ASSUME BuffersPlaced, UNCHANGED receiveVars, (ipc' = "frame") <=> (ipc = "frame")
  PROVE  BuffersPlaced'
<1>1. UNCHANGED <<rx, rxbuf, drx, desc, flying>>
  BY DEF receiveVars
<1>2. Handling' = Handling
  BY Zenon DEF Handling
<1>3. Useds' = Useds /\ Filling' = Filling /\ Avails' = Avails
  BY <1>1, Zenon DEF Useds, Filling, Avails
<1>4. Full' = Full
  BY <1>2, <1>3, Zenon DEF Full
<1>5. Place' = Place
  BY <1>1, <1>2, <1>3, <1>4, Zenon DEF Place
<1> QED
  BY <1>1, <1>3, <1>4, <1>5, Zenon DEF BuffersPlaced

\* The handler takes the oldest used descriptor: it keeps its place.
LEMMA HandlerTakes ==
  ASSUME BuffersPlaced, HandlerPopRx
  PROVE  BuffersPlaced'
<1>1. /\ rx \in Queues /\ ipc = "rx" /\ ipc' = "frame" /\ rx' = virtq_pop_used(rx)
      /\ desc' = rx.used[Slot(rx.consumed_used_index)]
      /\ rx.consumed_used_index # rx.used_index /\ UNCHANGED <<rxbuf, drx, flying>>
  BY Zenon DEF BuffersPlaced, HandlerPopRx, HandlerAt, virtq_used_elem, virtq_has_used, devVars,
     histVars
<1>2. /\ rx' \in Queues
      /\ rx'.avail = rx.avail /\ rx'.avail_index = rx.avail_index /\ rx'.taken = rx.taken
      /\ rx'.used = rx.used /\ rx'.used_index = rx.used_index
      /\ rx'.consumed_used_index = Incr(rx.consumed_used_index)
  BY <1>1, Popped, Zenon
<1>3. rx.consumed_used_index \in Indexes /\ rx.used_index \in Indexes
  BY <1>1, SMT DEF Queues
<1>4. Handling = 0 /\ Handling' = 1 /\ Filling' = Filling /\ Avails' = Avails
  BY <1>1, <1>2, Zenon DEF Handling, Filling, Avails
<1>5. Useds > 0 /\ Useds' = Useds - 1
  BY <1>1, <1>2, <1>3, Moved, Zenon DEF Useds
<1>6. Full' = Full /\ Full' + Avails' = VIRTQ_ENTRY_NUM
  BY <1>4, <1>5, Counts, SMT DEF Full
<1>7. ASSUME NEW k \in 1 .. VIRTQ_ENTRY_NUM
      PROVE  Place'[k] = Place[k]
  <2> DEFINE c == rx.consumed_used_index
  <2>1. /\ Place[k] = IF k <= 0 THEN desc
                      ELSE IF k <= 0 + Useds THEN rx.used[Slot(c + (k - 0 - 1))]
                      ELSE IF k <= Full THEN drx.desc
                      ELSE rx.avail[Slot(rx.taken + (k - Full - 1))]
        /\ Place'[k] = IF k <= 1 THEN rx.used[Slot(c)]
                       ELSE IF k <= 1 + (Useds - 1) THEN rx.used[Slot(Incr(c) + (k - 1 - 1))]
                       ELSE IF k <= Full THEN drx.desc
                       ELSE rx.avail[Slot(rx.taken + (k - Full - 1))]
    BY Stretches, <1>1, <1>2, <1>4, <1>5, <1>6, Zenon
  <2>2. /\ Slot(Incr(c) + (k - 1 - 1)) = Slot(c + ((k - 1 - 1) + 1)) /\ Slot(c + 0) = Slot(c)
    <3>1. k - 1 - 1 \in Int /\ c \in Indexes
      BY <1>3, SMT
    <3> QED
      BY <3>1, RingSlots, Zenon
  <2>3. (k - 1 - 1) + 1 = k - 0 - 1 /\ (k = 1 => k - 0 - 1 = 0)
    BY SMT
  <2> HIDE DEF c
  <2>4. Useds \in Nat /\ Useds > 0 /\ k \in Nat /\ k > 0
    BY Counts, <1>5, SMT
  <2> QED
    BY <2>1, <2>2, <2>3, <2>4, SMT
<1>8. Place' = Place
  BY <1>7, Zenon DEF Place
<1>9. flying' = [k \in 1 .. Full' |-> rxbuf'[Place'[k]]]
  BY <1>1, <1>6, <1>8, Zenon DEF BuffersPlaced
<1> QED
  BY <1>1, <1>2, <1>6, <1>7, <1>9, PlacesStay, Zenon DEF BuffersPlaced
\* A sequence with one element more, and with the first one gone, as functions.
LEMMA Appended ==
  ASSUME NEW S, NEW n \in Nat, NEW g \in [1 .. n -> S], NEW e \in S
  PROVE  Append(g, e) = [k \in 1 .. n + 1 |-> IF k <= n THEN g[k] ELSE e]
<1>1. g \in Seq(S) /\ Len(g) = n
  BY SMT
<1>2. Append(g, e) \in Seq(S) /\ Len(Append(g, e)) = n + 1
  BY <1>1, SMT
<1>3. \A k \in 1 .. n + 1 : Append(g, e)[k] = IF k <= n THEN g[k] ELSE e
  BY <1>1, SMT
<1>4. Append(g, e) = [k \in 1 .. n + 1 |-> Append(g, e)[k]]
  BY <1>2, LenProperties, Zenon
<1> QED
  BY <1>3, <1>4, SMT

LEMMA Shortened ==
  ASSUME NEW S, NEW n \in Nat, n > 0, NEW g \in [1 .. n -> S]
  PROVE  Tail(g) = [k \in 1 .. n - 1 |-> g[k + 1]]
<1>1. g \in Seq(S) /\ Len(g) = n
  BY SMT
<1>2. Tail(g) \in Seq(S) /\ Len(Tail(g)) = n - 1
  BY <1>1, SMT
<1>3. \A k \in 1 .. n - 1 : Tail(g)[k] = g[k + 1]
  BY <1>1, SMT
<1>4. Tail(g) = [k \in 1 .. n - 1 |-> Tail(g)[k]]
  BY <1>2, LenProperties, Zenon
<1> QED
  BY <1>3, <1>4, SMT

\* The device returns the descriptor it has filled: it keeps its place.
LEMMA DeviceReturns ==
  ASSUME BuffersPlaced, RxUsed
  PROVE  BuffersPlaced'
<1>1. /\ rx \in Queues /\ drx.at = "filled" /\ drx'.at = "used" /\ rx' = DevPut(rx, drx.desc)
      /\ UNCHANGED <<ipc, rxbuf, desc, flying>>
  <2>1. drx' = [at |-> "used", desc |-> NoDesc]
    BY DEF RxUsed
  <2>2. drx'.at = "used"
    BY <2>1, SMT
  <2> QED
    BY <2>2, Zenon DEF BuffersPlaced, RxUsed, irqVars, handlerVars, histVars
<1>2. Filling = 1 /\ Filling' = 0 /\ Handling' = Handling
  BY <1>1, Zenon DEF Filling, Handling
<1> DEFINE m == Handling + Useds + 1
<1>3. /\ m \in 1 .. VIRTQ_ENTRY_NUM /\ m > Handling /\ m > Handling + Useds /\ m <= Full
      /\ Useds < VIRTQ_ENTRY_NUM
  BY <1>2, Counts, SMT
<1>4. Place[m] = drx.desc
  <2>1. ~ (m <= Handling) /\ ~ (m <= Handling + Useds) /\ m <= Full /\ m \in 1 .. VIRTQ_ENTRY_NUM
    BY <1>3, Counts, SMT
  <2> HIDE DEF m
  <2> QED
    BY Stretches, <2>1, Zenon
<1>5. drx.desc \in Descs
  BY <1>3, <1>4, Zenon DEF BuffersPlaced
<1>6. /\ rx' \in Queues
      /\ rx'.avail = rx.avail /\ rx'.avail_index = rx.avail_index /\ rx'.taken = rx.taken
      /\ rx'.used = [rx.used EXCEPT ![Slot(rx.used_index)] = drx.desc]
      /\ rx'.used_index = Incr(rx.used_index) /\ rx'.consumed_used_index = rx.consumed_used_index
  BY <1>1, <1>5, PutBack, Zenon
<1>7. /\ rx.consumed_used_index \in Indexes /\ rx.used_index \in Indexes
      /\ rx.used \in [Ring -> Descs]
  BY <1>1, SMT DEF Queues
<1>8. Useds' = Useds + 1 /\ Avails' = Avails
  <2>1. Ahead(rx.used_index, rx.consumed_used_index) + 1 < INDEX_MOD
    BY <1>3, Counts, SMT DEF Useds
  <2> QED
    BY <1>6, <1>7, <2>1, Moved, ZenonT(60) DEF Useds, Avails
<1>9. Full' = Full /\ Full' + Avails' = VIRTQ_ENTRY_NUM
  BY <1>2, <1>8, Counts, SMT DEF Full
<1>10. ASSUME NEW k \in 1 .. VIRTQ_ENTRY_NUM
       PROVE  Place'[k] = Place[k]
  <2> DEFINE c == rx.consumed_used_index
             u == rx.used
             v == [u EXCEPT ![Slot(rx.used_index)] = drx.desc]
             n == k - Handling - 1
  <2>1. /\ Place[k] = IF k <= Handling THEN desc
                      ELSE IF k <= Handling + Useds THEN u[Slot(c + n)]
                      ELSE IF k <= Full THEN drx.desc
                      ELSE rx.avail[Slot(rx.taken + (k - Full - 1))]
        /\ Place'[k] = IF k <= Handling THEN desc
                       ELSE IF k <= Handling + (Useds + 1) THEN v[Slot(c + n)]
                       ELSE IF k <= Full THEN drx'.desc
                       ELSE rx.avail[Slot(rx.taken + (k - Full - 1))]
    BY Stretches, <1>1, <1>2, <1>6, <1>8, <1>9, Zenon
  <2>2. n \in Int /\ Useds \in Int /\ c \in Indexes /\ Handling \in Int /\ k \in Int
    BY <1>7, Counts, SMT
  <2>3. Slot(c + n) \in Ring /\ Slot(rx.used_index) = Slot(c + Useds)
    BY <1>7, <2>2, RingSlots, Zenon DEF Useds
  <2>4. CASE k <= Handling
    BY <2>1, <2>4, Zenon
  <2>7. CASE k > Full
    <3>1. /\ ~ (k <= Handling) /\ ~ (k <= Handling + Useds) /\ ~ (k <= Handling + (Useds + 1))
          /\ ~ (k <= Full)
      BY <2>2, <2>7, <1>2, Counts, SMT
    <3> QED
      BY <2>1, <3>1, Zenon
  <2>5. CASE k > Handling /\ k <= Handling + Useds
    <3>1. n < Useds /\ Useds - n < VIRTQ_ENTRY_NUM
      BY <1>3, <2>2, <2>5, Counts, SMT
    <3>2. Slot(c + n) # Slot(c + Useds)
      <4> HIDE DEF c, n
      <4>1. \A i, j \in Int : i < j /\ j - i < VIRTQ_ENTRY_NUM => Slot(c + i) # Slot(c + j)
        BY <2>2, RingSlots, Zenon
      <4> QED
        BY <3>1, <2>2, <4>1, Zenon
    <3>3. v[Slot(c + n)] = u[Slot(c + n)]
      BY <1>7, <2>3, <3>2, Zenon
    <3>4. ~ (k <= Handling) /\ k <= Handling + Useds /\ k <= Handling + (Useds + 1)
      BY <2>2, <2>5, SMT
    <3> QED
      BY <2>1, <3>3, <3>4, Zenon
  <2>6. CASE k = Handling + Useds + 1
    <3>1. n = Useds
      BY <2>2, <2>6, SMT
    <3>2. v[Slot(c + n)] = drx.desc
      BY <1>7, <2>3, <3>1, Zenon
    <3>3. ~ (k <= Handling) /\ ~ (k <= Handling + Useds) /\ k <= Handling + (Useds + 1) /\ k <= Full
      BY <1>3, <2>2, <2>6, Counts, SMT
    <3> QED
      BY <2>1, <3>2, <3>3, Zenon
  <2> QED
    BY <2>2, <2>4, <2>5, <2>6, <2>7, <1>2, Counts, SMT
<1>11. Place' = Place
  BY <1>10, Zenon DEF Place
<1>12. flying' = [k \in 1 .. Full' |-> rxbuf'[Place'[k]]]
  BY <1>1, <1>9, <1>11, Zenon DEF BuffersPlaced
<1> QED
  BY <1>1, <1>6, <1>9, <1>10, <1>12, PlacesStay, Zenon DEF BuffersPlaced
\* The frames on their way, as a function.
LEMMA FlyingFrames ==
  ASSUME BuffersPlaced
  PROVE  flying \in [1 .. Full -> Contents]
<1>1. \A k \in 1 .. Full : k \in 1 .. VIRTQ_ENTRY_NUM
  BY Counts, SMT
<1>2. \A k \in 1 .. Full : rxbuf[Place[k]] \in Contents
  BY <1>1, Zenon DEF BuffersPlaced
<1> QED
  BY <1>2, Zenon DEF BuffersPlaced

\* A frame arrives in the oldest free descriptor: it keeps its place, which is
\* the next one of the frames on their way.
LEMMA DeviceFills ==
  ASSUME BuffersPlaced, NEW f \in Frames, RxArrive(f)
  PROVE  BuffersPlaced'
<1> DEFINE h == DevHead(rx)
<1>1. /\ rx \in Queues /\ drx.at = "idle" /\ drx'.at = "filled" /\ drx'.desc = h
      /\ rx.taken # rx.avail_index /\ rx' = DevTake(rx)
      /\ rxbuf' = [rxbuf EXCEPT ![h] = f] /\ flying' = Append(flying, f)
      /\ UNCHANGED <<ipc, desc>>
  <2>1. drx' = [at |-> "filled", desc |-> h]
    BY DEF RxArrive
  <2>2. drx'.at = "filled" /\ drx'.desc = h
    BY <2>1, SMT
  <2> QED
    BY <2>2, Zenon DEF BuffersPlaced, RxArrive, DevHasAvail, irqVars, handlerVars
<1>2. Filling = 0 /\ Filling' = 1 /\ Handling' = Handling
  BY <1>1, Zenon DEF Filling, Handling
<1>3. /\ rx' \in Queues
      /\ rx'.avail = rx.avail /\ rx'.avail_index = rx.avail_index /\ rx'.taken = Incr(rx.taken)
      /\ rx'.used = rx.used /\ rx'.used_index = rx.used_index
      /\ rx'.consumed_used_index = rx.consumed_used_index
  BY <1>1, TakenUp, Zenon
<1>4. rx.taken \in Indexes /\ rx.avail_index \in Indexes
  BY <1>1, SMT DEF Queues
<1>5. Avails > 0 /\ Avails' = Avails - 1 /\ Useds' = Useds
  BY <1>1, <1>3, <1>4, Moved, Zenon DEF Avails, Useds
<1>6. Full' = Full + 1 /\ Full' + Avails' = VIRTQ_ENTRY_NUM /\ Full + 1 \in 1 .. VIRTQ_ENTRY_NUM
  BY <1>2, <1>5, Counts, SMT DEF Full
<1>7. ASSUME NEW k \in 1 .. VIRTQ_ENTRY_NUM
      PROVE  Place'[k] = Place[k] /\ (k = Full + 1 => Place[k] = h)
  <2> DEFINE t == rx.taken
             a == rx.avail
             n == k - Full - 1
             m == k - (Full + 1) - 1
  <2>1. /\ Place[k] = IF k <= Handling THEN desc
                      ELSE IF k <= Handling + Useds
                      THEN rx.used[Slot(rx.consumed_used_index + (k - Handling - 1))]
                      ELSE IF k <= Full THEN drx.desc
                      ELSE a[Slot(t + n)]
        /\ Place'[k] = IF k <= Handling THEN desc
                       ELSE IF k <= Handling + Useds
                       THEN rx.used[Slot(rx.consumed_used_index + (k - Handling - 1))]
                       ELSE IF k <= Full + 1 THEN h
                       ELSE a[Slot(Incr(t) + m)]
    BY Stretches, <1>1, <1>2, <1>3, <1>5, <1>6, Zenon
  <2>2. /\ n \in Int /\ m \in Int /\ m + 1 = n /\ t \in Indexes /\ k \in Int
        /\ Full = Handling + Useds /\ Handling \in Nat /\ Useds \in Nat
    BY <1>2, <1>4, Counts, SMT
  <2>3. Slot(Incr(t) + m) = Slot(t + (m + 1)) /\ Slot(t + 0) = Slot(t)
    BY <2>2, RingSlots, ZenonT(60)
  <2>4. h = a[Slot(t + 0)]
    BY <2>3, Zenon DEF DevHead
  <2>5. CASE k <= Handling + Useds
    <3>1. k # Full + 1
      BY <2>2, <2>5, SMT
    <3>2. CASE k <= Handling
      BY <2>1, <3>1, <3>2, Zenon
    <3>3. CASE ~ (k <= Handling)
      BY <2>1, <2>5, <3>1, <3>3, Zenon
    <3> QED
      BY <3>2, <3>3
  <2>6. CASE k = Full + 1
    <3>1. /\ ~ (k <= Handling) /\ ~ (k <= Handling + Useds) /\ ~ (k <= Full) /\ k <= Full + 1
          /\ n = 0
      BY <2>2, <2>6, SMT
    <3> QED
      BY <2>1, <2>4, <3>1, Zenon
  <2>7. CASE k > Full + 1
    <3>1. /\ ~ (k <= Handling) /\ ~ (k <= Handling + Useds) /\ ~ (k <= Full) /\ ~ (k <= Full + 1)
          /\ k # Full + 1
      BY <2>2, <2>7, SMT
    <3> QED
      BY <2>1, <2>2, <2>3, <3>1, Zenon
  <2> QED
    BY <2>2, <2>5, <2>6, <2>7, SMT
<1>8. Place' = Place
  BY <1>7, Zenon DEF Place
<1>9. Place[Full + 1] = h /\ h \in Descs
  BY <1>6, <1>7, Zenon DEF BuffersPlaced
<1> HIDE DEF h
<1>10. f \in Contents /\ rxbuf \in [Descs -> Contents] /\ rxbuf' \in [Descs -> Contents]
  BY <1>1, <1>9, Zenon DEF BuffersPlaced, Contents
<1>11. flying' = [k \in 1 .. Full' |-> rxbuf'[Place'[k]]]
  <2>1. Full \in Nat
    BY Counts, SMT
  <2>2. flying' = [k \in 1 .. Full + 1 |-> IF k <= Full THEN flying[k] ELSE f]
    <3>1. flying \in [1 .. Full -> Contents]
      BY FlyingFrames
    <3>2. Append(flying, f) = [k \in 1 .. Full + 1 |-> IF k <= Full THEN flying[k] ELSE f]
      BY <1>10, <2>1, <3>1, Appended
    <3> QED
      BY <1>1, <3>2, Zenon
  <2>3. ASSUME NEW k \in 1 .. Full + 1
        PROVE  (IF k <= Full THEN flying[k] ELSE f) = rxbuf'[Place[k]]
    <3>1. k \in 1 .. VIRTQ_ENTRY_NUM
      BY <1>6, <2>1, Counts, SMT
    <3>2. CASE k <= Full
      <4>1. k \in 1 .. Full /\ k # Full + 1
        BY <3>2, <2>1, SMT
      <4>2. Place[k] # h /\ Place[k] \in Descs
        BY <4>1, <3>1, <1>6, <1>9, Zenon DEF BuffersPlaced
      <4>3. flying[k] = rxbuf[Place[k]]
        BY <4>1, Zenon DEF BuffersPlaced
      <4> QED
        BY <3>2, <4>2, <4>3, <1>1, <1>10, Zenon
    <3>3. CASE ~ (k <= Full)
      <4>1. k = Full + 1
        BY <3>3, <2>1, SMT
      <4> QED
        BY <3>3, <4>1, <1>1, <1>9, <1>10, Zenon
    <3> QED
      BY <3>2, <3>3
  <2> QED
    BY <2>2, <2>3, <1>6, <1>8, Zenon
<1> QED
  BY <1>3, <1>6, <1>7, <1>10, <1>11, PlacesStay, Zenon
\* The handler requeues its descriptor: it goes from the first place to the
\* last one and every other descriptor moves up by one.
LEMMA HandlerRotates ==
  ASSUME BuffersPlaced, HandlerFrame
  PROVE  /\ rx' \in Queues /\ Full > 0 /\ Full' = Full - 1 /\ Full' + Avails' = VIRTQ_ENTRY_NUM
         /\ Place[1] = desc
         /\ \A k \in 1 .. VIRTQ_ENTRY_NUM :
              Place'[k] = IF k = VIRTQ_ENTRY_NUM THEN desc ELSE Place[k + 1]
<1>1. /\ rx \in Queues /\ ipc = "frame" /\ ipc' = "rx" /\ rx' = virtq_push(rx, desc)
      /\ UNCHANGED drx
  BY Zenon DEF BuffersPlaced, HandlerFrame, HandlerAt, devVars
<1>2. Handling = 1 /\ Handling' = 0 /\ Filling' = Filling
  BY <1>1, Zenon DEF Filling, Handling
<1>3. Place[1] = desc /\ desc \in Descs
  <2>1. 1 \in 1 .. VIRTQ_ENTRY_NUM /\ 1 <= Handling
    BY <1>2, Counts, SMT
  <2>2. Place[1] = desc
    BY <2>1, Stretches, Zenon
  <2> QED
    BY <2>1, <2>2, Zenon DEF BuffersPlaced
<1>4. /\ rx' \in Queues
      /\ rx'.avail = [rx.avail EXCEPT ![Slot(rx.avail_index)] = desc]
      /\ rx'.avail_index = Incr(rx.avail_index) /\ rx'.taken = rx.taken
      /\ rx'.used = rx.used /\ rx'.used_index = rx.used_index
      /\ rx'.consumed_used_index = rx.consumed_used_index
  BY <1>1, <1>3, Pushed, Zenon
<1>5. /\ rx.taken \in Indexes /\ rx.avail_index \in Indexes
      /\ rx.avail \in [Ring -> Descs]
  BY <1>1, SMT DEF Queues
<1>6. Avails' = Avails + 1 /\ Useds' = Useds
  <2>1. Ahead(rx.avail_index, rx.taken) + 1 < INDEX_MOD
    BY <1>2, Counts, SMT DEF Avails
  <2> QED
    BY <1>4, <1>5, <2>1, Moved, ZenonT(60) DEF Useds, Avails
<1>7. Full > 0 /\ Full' = Full - 1 /\ Full' + Avails' = VIRTQ_ENTRY_NUM
  BY <1>2, <1>6, Counts, SMT DEF Full
<1>8. ASSUME NEW k \in 1 .. VIRTQ_ENTRY_NUM
      PROVE  Place'[k] = IF k = VIRTQ_ENTRY_NUM THEN desc ELSE Place[k + 1]
  <2> DEFINE t == rx.taken
             a == rx.avail
             b == [a EXCEPT ![Slot(rx.avail_index)] = desc]
             n == k - (Full - 1) - 1
             c == rx.consumed_used_index
             u == rx.used
  <2>1. Place'[k] = IF k <= 0 THEN desc'
                    ELSE IF k <= 0 + Useds THEN u[Slot(c + (k - 0 - 1))]
                    ELSE IF k <= Full - 1 THEN drx.desc
                    ELSE b[Slot(t + n)]
    BY Stretches, <1>1, <1>2, <1>4, <1>6, <1>7, Zenon
  <2>2. k + 1 \in 1 .. VIRTQ_ENTRY_NUM =>
        Place[k + 1] = IF k + 1 <= 1 THEN desc
                       ELSE IF k + 1 <= 1 + Useds THEN u[Slot(c + ((k + 1) - 1 - 1))]
                       ELSE IF k + 1 <= Full THEN drx.desc
                       ELSE a[Slot(t + ((k + 1) - Full - 1))]
    <3>1. \A j \in 1 .. VIRTQ_ENTRY_NUM :
            Place[j] = IF j <= 1 THEN desc
                       ELSE IF j <= 1 + Useds THEN u[Slot(c + (j - 1 - 1))]
                       ELSE IF j <= Full THEN drx.desc
                       ELSE a[Slot(t + (j - Full - 1))]
      BY Stretches, <1>2, Zenon
    <3> QED
      BY <3>1, Zenon
  <2>3. /\ k \in Nat /\ k > 0 /\ Full \in Nat /\ Useds \in Nat /\ Avails \in Nat /\ n \in Int
        /\ Full = 1 + Useds + Filling /\ Filling \in 0 .. 1 /\ t \in Indexes
        /\ Full + Avails = VIRTQ_ENTRY_NUM /\ Avails \in Int
    BY <1>2, <1>5, Counts, SMT
  <2>4. Slot(t + n) \in Ring /\ Slot(rx.avail_index) = Slot(t + Avails)
    BY <1>5, <2>3, RingSlots, Zenon DEF Avails
  <2>5. CASE k = VIRTQ_ENTRY_NUM
    <3>1. ~ (k <= 0) /\ ~ (k <= 0 + Useds) /\ ~ (k <= Full - 1) /\ n = Avails
      BY <2>3, <2>5, SMT
    <3>2. b[Slot(t + n)] = desc
      BY <1>5, <2>4, <3>1, Zenon
    <3> QED
      BY <2>1, <2>5, <3>1, <3>2, Zenon
  <2>6. CASE k # VIRTQ_ENTRY_NUM /\ k <= Useds
    <3>1. /\ k + 1 \in 1 .. VIRTQ_ENTRY_NUM /\ ~ (k <= 0) /\ k <= 0 + Useds
          /\ ~ (k + 1 <= 1) /\ k + 1 <= 1 + Useds /\ (k + 1) - 1 - 1 = k - 0 - 1
      BY <2>3, <2>6, SMT
    <3> QED
      BY <2>1, <2>2, <2>6, <3>1, Zenon
  <2>7. CASE k # VIRTQ_ENTRY_NUM /\ k > Useds /\ k <= Full - 1
    <3>1. /\ k + 1 \in 1 .. VIRTQ_ENTRY_NUM /\ ~ (k <= 0) /\ ~ (k <= 0 + Useds)
          /\ ~ (k + 1 <= 1) /\ ~ (k + 1 <= 1 + Useds) /\ k <= Full - 1 /\ k + 1 <= Full
      BY <2>3, <2>7, SMT
    <3> QED
      BY <2>1, <2>2, <2>7, <3>1, Zenon
  <2>8. CASE k # VIRTQ_ENTRY_NUM /\ k > Full - 1
    <3>1. /\ k + 1 \in 1 .. VIRTQ_ENTRY_NUM /\ ~ (k <= 0) /\ ~ (k <= 0 + Useds)
          /\ ~ (k + 1 <= 1) /\ ~ (k + 1 <= 1 + Useds) /\ ~ (k <= Full - 1) /\ ~ (k + 1 <= Full)
          /\ (k + 1) - Full - 1 = n /\ n < Avails /\ Avails - n < VIRTQ_ENTRY_NUM
      BY <2>3, <2>8, SMT
    <3>2. Slot(t + n) # Slot(t + Avails)
      <4> HIDE DEF t, n
      <4>1. \A i, j \in Int : i < j /\ j - i < VIRTQ_ENTRY_NUM => Slot(t + i) # Slot(t + j)
        BY <2>3, RingSlots, Zenon
      <4> QED
        BY <3>1, <2>3, <4>1, Zenon
    <3>3. b[Slot(t + n)] = a[Slot(t + n)]
      BY <1>5, <2>4, <3>2, Zenon
    <3>4. Place[k + 1] = a[Slot(t + n)]
      BY <2>2, <3>1, Zenon
    <3>5. Place'[k] = b[Slot(t + n)]
      BY <2>1, <3>1, Zenon
    <3> QED
      BY <2>8, <3>3, <3>4, <3>5, Zenon
  <2> QED
    BY <2>3, <2>5, <2>6, <2>7, <2>8, SMT
<1> QED
  BY <1>3, <1>4, <1>7, <1>8

LEMMA HandlerRequeues ==
  ASSUME BuffersPlaced, HandlerFrame
  PROVE  BuffersPlaced'
<1> DEFINE N == VIRTQ_ENTRY_NUM
<1>1. /\ rx' \in Queues /\ Full > 0 /\ Full' = Full - 1 /\ Full' + Avails' = N
      /\ Place[1] = desc
      /\ \A k \in 1 .. N : Place'[k] = IF k = N THEN desc ELSE Place[k + 1]
  BY HandlerRotates, Zenon
<1>2. N \in Nat /\ N > 0 /\ 1 \in 1 .. N /\ N \in 1 .. N
  BY Counts, SMT
<1>3. \A k \in 1 .. N : k # N => k + 1 \in 1 .. N /\ k + 1 # 1
  BY <1>2, SMT
<1>4. \A k \in 1 .. N : k # 1 => k - 1 \in 1 .. N /\ k - 1 # N /\ (k - 1) + 1 = k
  BY <1>2, SMT
<1>5. /\ \A k \in 1 .. N : Place[k] \in Descs
      /\ \A j, k \in 1 .. N : Place[j] = Place[k] => j = k
      /\ \A d \in Descs : \E k \in 1 .. N : Place[k] = d
  BY Zenon DEF BuffersPlaced
<1> HIDE DEF N
<1> DEFINE P(k) == Place'[k]
<1>0. /\ P(N) = Place[1]
      /\ \A k \in 1 .. N : k # N => P(k) = Place[k + 1]
  BY <1>1, <1>2, Zenon
<1>6. \A k \in 1 .. N : Place'[k] \in Descs
  <2>1. \A k \in 1 .. N : P(k) \in Descs
    <3> HIDE DEF P
    <3> QED
      BY <1>0, <1>2, <1>3, <1>5, SMT
  <2> QED
    BY <2>1
<1>7. ASSUME NEW j \in 1 .. N, NEW k \in 1 .. N, Place'[j] = Place'[k]
      PROVE  j = k
  <2>0. P(j) = P(k)
    BY <1>7
  <2> HIDE DEF P
  <2>1. CASE j = N /\ k # N
    BY <1>0, <1>2, <1>3, <1>5, <2>0, <2>1, SMT
  <2>2. CASE j # N /\ k = N
    BY <1>0, <1>2, <1>3, <1>5, <2>0, <2>2, SMT
  <2>3. CASE j # N /\ k # N
    <3>1. j + 1 = k + 1
      BY <1>0, <1>3, <1>5, <2>0, <2>3, SMT
    <3> QED
      BY <1>2, <3>1, SMT
  <2> QED
    BY <2>1, <2>2, <2>3, Zenon
<1>8. ASSUME NEW d \in Descs
      PROVE  \E k \in 1 .. N : Place'[k] = d
  <2>1. PICK k \in 1 .. N : Place[k] = d
    BY <1>5
  <2>2. CASE k = 1
    BY <1>1, <1>2, <2>1, <2>2, Zenon
  <2>3. CASE k # 1
    <3>1. k - 1 \in 1 .. N /\ Place'[k - 1] = d
      BY <1>1, <1>4, <2>1, <2>3, Zenon
    <3> QED
      BY <3>1, Zenon
  <2> QED
    BY <2>2, <2>3
<1>9. rxbuf' = [rxbuf EXCEPT ![desc] = NoFrame] /\ flying' = Tail(flying)
  BY Zenon DEF HandlerFrame
<1>10. rxbuf \in [Descs -> Contents] /\ rxbuf' \in [Descs -> Contents]
  BY <1>9, Zenon DEF BuffersPlaced, Contents
<1>11. flying' = [k \in 1 .. Full' |-> rxbuf'[Place'[k]]]
  <2>1. Full \in Nat /\ Full <= N
    BY Counts, SMT DEF N
  <2>2. flying \in [1 .. Full -> Contents]
    BY FlyingFrames
  <2>3. Tail(flying) = [k \in 1 .. Full - 1 |-> flying[k + 1]]
    BY <1>1, <2>1, <2>2, Shortened
  <2>4. ASSUME NEW k \in 1 .. Full - 1
        PROVE  flying[k + 1] = rxbuf'[Place'[k]]
    <3>1. k \in 1 .. N /\ k # N /\ k + 1 \in 1 .. Full /\ k + 1 \in 1 .. N /\ k + 1 # 1
      BY <1>2, <2>1, SMT
    <3>2. flying[k + 1] = rxbuf[Place[k + 1]]
      BY <3>1, Zenon DEF BuffersPlaced
    <3>3. Place'[k] = Place[k + 1] /\ Place[k + 1] # desc /\ Place[k + 1] \in Descs
      BY <1>1, <1>2, <1>5, <3>1, Zenon
    <3> QED
      BY <1>9, <1>10, <3>2, <3>3, Zenon
  <2> QED
    BY <1>1, <1>9, <2>3, <2>4, Zenon
<1> QED
  BY <1>1, <1>6, <1>7, <1>8, <1>10, <1>11, Zenon DEF BuffersPlaced, N

\* The receive buffers keep their places, whatever the step.
LEMMA BuffersPlacedKept ==
  ASSUME Claims, BuffersPlaced, [Next]_vars
  PROVE  BuffersPlaced'
<1> USE DEF irqVars, kernelVars, queueVars, protoVars, handlerVars, devVars, histVars, Goto
<1>1. CASE UNCHANGED vars
  BY <1>1, ReceiveApart, Zenon DEF vars, receiveVars
<1>2. CASE KernelElsewhere \/ DeviceElsewhere \/ HandlerElsewhere
  BY <1>2, KernelApart, DeviceApart, HandlerApart, ReceiveApart, Zenon DEF sharedVars
<1>3. CASE PopFrame \/ ArpPollReply
  BY <1>3, ReceiveApart, Zenon DEF PopFrame, ArpPollReply, receiveVars
<1>4. CASE RxInterrupt
  <2>1. UNCHANGED <<rx, rxbuf, desc, flying, ipc>> /\ drx.at = "used" /\ drx'.at = "idle"
    <3>1. drx' = [at |-> "idle", desc |-> NoDesc]
      BY <1>4, Zenon DEF RxInterrupt
    <3>2. drx'.at = "idle"
      BY <3>1, SMT
    <3> QED
      BY <1>4, <3>2, Zenon DEF RxInterrupt
  <2>2. /\ Handling' = Handling /\ Useds' = Useds /\ Avails' = Avails
        /\ Filling = 0 /\ Filling' = 0
    BY <2>1, Zenon DEF Handling, Useds, Filling, Avails
  <2>3. Full' = Full /\ Full = Handling + Useds
    BY <2>2, Counts, SMT DEF Full
  <2>4. \A k \in 1 .. VIRTQ_ENTRY_NUM : Place'[k] = Place[k]
    BY <2>1, <2>2, <2>3, Stretches, Zenon
  <2>5. Place' = Place
    BY <2>4, Zenon DEF Place
  <2> QED
    BY <2>1, <2>2, <2>3, <2>5, ZenonT(60) DEF BuffersPlaced
<1> QED
  BY <1>1, <1>2, <1>3, <1>4, Steps, HandlerTakes, HandlerRequeues, DeviceReturns, DeviceFills, Zenon
\* There are as many indexes between two as the one is ahead of the other.
LEMMA RangeSize ==
  ASSUME NEW lo \in Indexes, NEW hi \in Indexes
  PROVE  Cardinality(IndexesFrom(lo, hi)) = Ahead(hi, lo)
<1> DEFINE n == Ahead(hi, lo)
           S == 0 .. n - 1
           T == IndexesFrom(lo, hi)
           f == [k \in S |-> (lo + k) % INDEX_MOD]
<1>1. INDEX_MOD \in Nat \ {0} /\ lo \in Int /\ n \in 0 .. INDEX_MOD - 1
  BY VirtqAssumption, Distance, SMT DEF Indexes
<1> HIDE DEF n
<1>2. IsFiniteSet(S) /\ Cardinality(S) = n
  <2>1. 0 \in Int /\ n - 1 \in Int
    BY <1>1, SMT
  <2>2. IsFiniteSet(S) /\ Cardinality(S) = IF 0 > n - 1 THEN 0 ELSE n - 1 - 0 + 1
    BY <2>1, FS_Interval, Zenon
  <2> QED
    BY <1>1, <2>2, SMT
<1>3. f \in Surjection(S, T)
  <2>1. T = {(lo + k) % INDEX_MOD : k \in S}
    BY DEF IndexesFrom, n
  <2>2. f \in [S -> T] /\ \A t \in T : \E k \in S : f[k] = t
    BY <2>1, Zenon
  <2> QED
    BY <2>2, Zenon DEF Surjection
<1>4. f \in Injection(S, T)
  <2>1. ASSUME NEW j \in S, NEW k \in S, j < k
        PROVE  f[j] # f[k]
    <3>1. lo + j \in Int /\ k - j \in 1 .. INDEX_MOD - 1 /\ (lo + j) + (k - j) = lo + k
      BY <1>1, <2>1, SMT
    <3>2. (lo + k) % INDEX_MOD # (lo + j) % INDEX_MOD
      BY <1>1, <3>1, ModNear, Zenon
    <3> QED
      BY <3>2, Zenon
  <2>2. ASSUME NEW j \in S, NEW k \in S, f[j] = f[k]
        PROVE  j = k
    <3>1. j < k \/ k < j \/ j = k
      BY <1>1, SMT
    <3> QED
      BY <2>1, <2>2, <3>1, Zenon
  <2>3. f \in [S -> T] /\ DOMAIN f = S
    BY <1>3, Zenon DEF Surjection
  <2> HIDE DEF f
  <2> QED
    BY <2>2, <2>3, Zenon DEF Injection, IsInjective
<1> HIDE DEF f, S, T
<1>5. Cardinality(T) = Cardinality(S)
  BY <1>2, <1>3, <1>4, FS_Surjection, Zenon
<1> QED
  BY <1>2, <1>5, Zenon DEF n, T

\* No receive buffer is lost or queued twice.
LEMMA PlacedConserved ==
  ASSUME BuffersPlaced
  PROVE  BuffersConserved
<1> DEFINE avail == IndexesFrom(rx.taken, rx.avail_index)
           used == IndexesFrom(rx.consumed_used_index, rx.used_index)
           held == (IF drx.at = "filled" THEN {drx.desc} ELSE {})
           handled == (IF ipc = "frame" THEN {desc} ELSE {})
           A == {rx.avail[Slot(k)] : k \in avail}
           U == {rx.used[Slot(k)] : k \in used}
           c == rx.consumed_used_index
           t == rx.taken
<1>1. /\ t \in Indexes /\ rx.avail_index \in Indexes /\ c \in Indexes
      /\ rx.used_index \in Indexes /\ rx.avail \in [Ring -> Descs] /\ rx.used \in [Ring -> Descs]
  BY SMT DEF BuffersPlaced, Queues
<1>2. Cardinality(avail) = Avails /\ Cardinality(used) = Useds
  BY <1>1, RangeSize, Zenon DEF Avails, Useds
<1>3. Cardinality(held) = Filling /\ Cardinality(handled) = Handling
  BY FS_EmptySet, FS_Singleton, Zenon DEF Filling, Handling
<1>4. Cardinality(avail) + Cardinality(used) + Cardinality(held) + Cardinality(handled)
        = VIRTQ_ENTRY_NUM
  BY <1>2, <1>3, Counts, SMT
<1>5. /\ \A i \in Indexes : \A k \in 0 .. INDEX_MOD - 1 :
           /\ Slot((i + k) % INDEX_MOD) = Slot(i + k)
           /\ Slot(i + k) \in Ring
  <2>1. \A k \in 0 .. INDEX_MOD - 1 : k \in Int
    BY VirtqAssumption, SMT
  <2> QED
    BY <2>1, RingSlots, Zenon
<1>6. /\ \A k \in 0 .. Avails - 1 : k \in 0 .. INDEX_MOD - 1
      /\ \A k \in 0 .. Useds - 1 : k \in 0 .. INDEX_MOD - 1
  BY Counts, SMT
<1>7. A = {rx.avail[Slot(t + k)] : k \in 0 .. Avails - 1}
  <2>1. avail = {(t + k) % INDEX_MOD : k \in 0 .. Avails - 1}
    BY DEF IndexesFrom, Avails
  <2>2. \A k \in 0 .. Avails - 1 : Slot((t + k) % INDEX_MOD) = Slot(t + k)
    BY <1>1, <1>5, <1>6, Zenon
  <2>3. A = {rx.avail[Slot((t + k) % INDEX_MOD)] : k \in 0 .. Avails - 1}
    <3> HIDE DEF avail
    <3> QED
      BY <2>1, Zenon
  <2> HIDE DEF A
  <2> QED
    BY <2>2, <2>3, Zenon
<1>8. U = {rx.used[Slot(c + k)] : k \in 0 .. Useds - 1}
  <2>1. used = {(c + k) % INDEX_MOD : k \in 0 .. Useds - 1}
    BY DEF IndexesFrom, Useds
  <2>2. \A k \in 0 .. Useds - 1 : Slot((c + k) % INDEX_MOD) = Slot(c + k)
    BY <1>1, <1>5, <1>6, Zenon
  <2>3. U = {rx.used[Slot((c + k) % INDEX_MOD)] : k \in 0 .. Useds - 1}
    <3> HIDE DEF used
    <3> QED
      BY <2>1, Zenon
  <2> HIDE DEF U
  <2> QED
    BY <2>2, <2>3, Zenon
<1>9. A \subseteq Descs /\ U \subseteq Descs
  <2> HIDE DEF A, U, c, t
  <2> QED
    BY <1>1, <1>5, <1>6, <1>7, <1>8, Zenon
<1>10. handled \subseteq Descs
  <2>1. CASE ipc = "frame"
    <3>1. 1 \in 1 .. VIRTQ_ENTRY_NUM /\ 1 <= Handling
      BY <2>1, Counts, SMT DEF Handling
    <3>2. Place[1] = desc
      BY <3>1, Stretches, Zenon
    <3>3. desc \in Descs
      BY <3>1, <3>2, Zenon DEF BuffersPlaced
    <3> QED
      BY <2>1, <3>3, Zenon
  <2> QED
    BY <2>1, Zenon
<1>11. held \subseteq Descs
  <2>1. CASE drx.at = "filled"
    <3> DEFINE m == Handling + Useds + 1
    <3>1. /\ m \in 1 .. VIRTQ_ENTRY_NUM /\ ~ (m <= Handling) /\ ~ (m <= Handling + Useds)
          /\ m <= Full
      <4>1. Filling = 1
        BY <2>1, Zenon DEF Filling
      <4> QED
        BY <4>1, Counts, SMT
    <3> HIDE DEF m
    <3>2. Place[m] = drx.desc
      BY <3>1, Stretches, Zenon
    <3>3. drx.desc \in Descs
      BY <3>1, <3>2, Zenon DEF BuffersPlaced
    <3> QED
      BY <2>1, <3>3, Zenon
  <2> QED
    BY <2>1, Zenon
<1>12. ASSUME NEW d \in Descs
       PROVE  d \in A \cup U \cup held \cup handled
  <2>1. PICK k \in 1 .. VIRTQ_ENTRY_NUM : Place[k] = d
    BY Zenon DEF BuffersPlaced
  <2> DEFINE i == k - Handling - 1
             j == k - Full - 1
  <2>2. d = IF k <= Handling THEN desc
            ELSE IF k <= Handling + Useds THEN rx.used[Slot(c + i)]
            ELSE IF k <= Full THEN drx.desc
            ELSE rx.avail[Slot(t + j)]
    BY <2>1, Stretches, Zenon
  <2>3. CASE k <= Handling
    <3>1. ipc = "frame"
      <4>1. Handling # 0
        BY <2>3, Counts, SMT
      <4> QED
        BY <4>1, Zenon DEF Handling
    <3> QED
      BY <2>2, <2>3, <3>1, Zenon
  <2>4. CASE ~ (k <= Handling) /\ k <= Handling + Useds
    <3>1. i \in 0 .. Useds - 1
      BY <2>4, Counts, SMT
    <3> HIDE DEF i, U, c
    <3>2. d = rx.used[Slot(c + i)]
      BY <2>2, <2>4, Zenon
    <3> QED
      BY <1>8, <3>1, <3>2, Zenon
  <2>5. CASE ~ (k <= Handling) /\ ~ (k <= Handling + Useds) /\ k <= Full
    <3>1. drx.at = "filled"
      <4>1. Filling # 0
        BY <2>5, Counts, SMT
      <4> QED
        BY <4>1, Zenon DEF Filling
    <3> QED
      BY <2>2, <2>5, <3>1, Zenon
  <2>6. CASE ~ (k <= Full)
    <3>1. j \in 0 .. Avails - 1 /\ ~ (k <= Handling) /\ ~ (k <= Handling + Useds)
      BY <2>6, Counts, SMT
    <3> HIDE DEF j, A, t
    <3>2. d = rx.avail[Slot(t + j)]
      BY <2>2, <2>6, <3>1, Zenon
    <3> QED
      BY <1>7, <3>1, <3>2, Zenon
  <2> QED
    BY <2>3, <2>4, <2>5, <2>6
<1>13. A \cup U \cup held \cup handled = Descs
  <2> HIDE DEF A, U, held, handled
  <2> QED
    BY <1>9, <1>10, <1>11, <1>12, Zenon
<1> QED
  BY <1>4, <1>13, Zenon DEF BuffersConserved
\* A sequence of one element or of none.
LEMMA AtMostOne ==
  ASSUME NEW S, NEW e, NEW b \in BOOLEAN, b => e \in S
  PROVE  LET a == IF b THEN <<e>> ELSE <<>>
         IN a \in Seq(S) /\ Len(a) = (IF b THEN 1 ELSE 0) /\ (b => a[1] = e)
<1>1. CASE b
  BY <1>1, SMT
<1>2. CASE ~ b
  BY <1>2, SMT
<1> QED
  BY <1>1, <1>2

\* Two sequences in a row.
LEMMA Joined ==
  ASSUME NEW S, NEW s \in Seq(S), NEW t \in Seq(S), NEW m, NEW n, Len(s) = m, Len(t) = n
  PROVE  /\ s \o t \in Seq(S) /\ Len(s \o t) = m + n
         /\ \A i \in 1 .. m + n : (s \o t)[i] = IF i <= m THEN s[i] ELSE t[i - m]
<1>1. /\ s \o t \in Seq(S) /\ Len(s \o t) = Len(s) + Len(t)
      /\ \A i \in 1 .. Len(s) + Len(t) :
           (s \o t)[i] = IF i <= Len(s) THEN s[i] ELSE t[i - Len(s)]
  BY ConcatProperties
<1> QED
  BY <1>1

\* The frames on their way are seen in the order they came.
LEMMA PlacedInOrder ==
  ASSUME BuffersPlaced
  PROVE  FramesInOrder
<1> DEFINE u == Ahead(rx.used_index, rx.consumed_used_index)
           a == (IF ipc = "frame" THEN <<rxbuf[desc]>> ELSE <<>>)
           b == [k \in 1 .. u |-> rxbuf[rx.used[Slot(rx.consumed_used_index + k - 1)]]]
           c == (IF drx.at = "filled" THEN <<rxbuf[drx.desc]>> ELSE <<>>)
           R == (a \o b) \o c
<1>1. /\ \A k \in 1 .. Full : k \in 1 .. VIRTQ_ENTRY_NUM /\ rxbuf[Place[k]] \in Contents
      /\ Full \in Nat
  <2>1. \A k \in 1 .. Full : k \in 1 .. VIRTQ_ENTRY_NUM
    BY Counts, SMT
  <2>2. Full \in Nat
    BY Counts, SMT
  <2> QED
    BY <2>1, <2>2, Zenon DEF BuffersPlaced
<1>2. a \in Seq(Contents) /\ Len(a) = Handling /\ (Handling = 1 => a[1] = rxbuf[Place[1]])
  <2>1. ASSUME ipc = "frame" PROVE Place[1] = desc /\ rxbuf[desc] \in Contents
    <3>1. 1 \in 1 .. Full /\ 1 <= Handling
      BY <2>1, Counts, SMT DEF Handling
    <3>2. Place[1] = desc
      BY <1>1, <3>1, Stretches, Zenon
    <3> QED
      BY <1>1, <3>1, <3>2, Zenon
  <2>2. (ipc = "frame") \in BOOLEAN /\ ((ipc = "frame") => rxbuf[desc] \in Contents)
    BY <2>1
  <2>3. a \in Seq(Contents) /\ Len(a) = Handling /\ (ipc = "frame" => a[1] = rxbuf[desc])
    BY <2>2, AtMostOne, Zenon DEF Handling
  <2>4. Handling = 1 => ipc = "frame"
    BY SMT DEF Handling
  <2> HIDE DEF a
  <2> QED
    BY <2>1, <2>3, <2>4, Zenon
<1>3. /\ b \in Seq(Contents) /\ Len(b) = Useds
      /\ \A k \in 1 .. Useds : b[k] = rxbuf[Place[k + Handling]]
  <2>1. ASSUME NEW k \in 1 .. Useds
        PROVE  /\ rxbuf[rx.used[Slot(rx.consumed_used_index + k - 1)]] = rxbuf[Place[k + Handling]]
               /\ rxbuf[Place[k + Handling]] \in Contents
    <3> DEFINE j == k + Handling
    <3>1. /\ j \in 1 .. Full /\ ~ (j <= Handling) /\ j <= Handling + Useds
          /\ j - Handling - 1 = k - 1
      BY Counts, SMT
    <3> HIDE DEF j
    <3>2. Place[j] = rx.used[Slot(rx.consumed_used_index + (j - Handling - 1))]
      BY <1>1, <3>1, Stretches, Zenon
    <3>3. rxbuf[Place[j]] \in Contents
      BY <1>1, <3>1, Zenon
    <3>4. Place[j] = rx.used[Slot(rx.consumed_used_index + k - 1)]
      BY <3>1, <3>2, Zenon
    <3> QED
      BY <3>3, <3>4, Zenon DEF j
  <2>2. Useds = u /\ u \in Nat
    BY Counts, SMT DEF Useds
  <2>3. b \in [1 .. Useds -> Contents] /\ \A k \in 1 .. Useds : b[k] = rxbuf[Place[k + Handling]]
    BY <2>1, <2>2, Zenon
  <2> HIDE DEF b
  <2>4. b \in Seq(Contents) /\ Len(b) = Useds
    BY <2>2, <2>3, SMT
  <2> QED
    BY <2>3, <2>4
<1>4. c \in Seq(Contents) /\ Len(c) = Filling /\ (Filling = 1 => c[1] = rxbuf[Place[Full]])
  <2>1. ASSUME drx.at = "filled" PROVE Place[Full] = drx.desc /\ rxbuf[drx.desc] \in Contents
    <3>1. Full \in 1 .. Full /\ ~ (Full <= Handling) /\ ~ (Full <= Handling + Useds) /\ Full <= Full
      <4>1. Filling = 1
        BY <2>1, Zenon DEF Filling
      <4> QED
        BY <4>1, Counts, SMT
    <3>2. Place[Full] = drx.desc
      BY <1>1, <3>1, Stretches, Zenon
    <3> QED
      BY <1>1, <3>1, <3>2, Zenon
  <2>2. (drx.at = "filled") \in BOOLEAN /\ ((drx.at = "filled") => rxbuf[drx.desc] \in Contents)
    BY <2>1
  <2>3. c \in Seq(Contents) /\ Len(c) = Filling /\ (drx.at = "filled" => c[1] = rxbuf[drx.desc])
    BY <2>2, AtMostOne, Zenon DEF Filling
  <2>4. Filling = 1 => drx.at = "filled"
    BY SMT DEF Filling
  <2> HIDE DEF c
  <2> QED
    BY <2>1, <2>3, <2>4, Zenon
<1> HIDE DEF a, b, c
<1>5. /\ a \o b \in Seq(Contents) /\ Len(a \o b) = Handling + Useds
      /\ \A i \in 1 .. Handling + Useds :
           (a \o b)[i] = IF i <= Handling THEN a[i] ELSE b[i - Handling]
  BY <1>2, <1>3, Joined
<1>6. /\ R \in Seq(Contents) /\ Len(R) = Full
      /\ \A i \in 1 .. Full :
           R[i] = IF i <= Handling + Useds THEN (a \o b)[i] ELSE c[i - (Handling + Useds)]
  <2>1. Full = (Handling + Useds) + Filling
    BY Counts, SMT
  <2> DEFINE s == a \o b
             m == Handling + Useds
  <2>2. s \in Seq(Contents) /\ Len(s) = m /\ c \in Seq(Contents) /\ Len(c) = Filling
    BY <1>4, <1>5
  <2> HIDE DEF s, m
  <2>3. /\ s \o c \in Seq(Contents) /\ Len(s \o c) = m + Filling
        /\ \A i \in 1 .. m + Filling : (s \o c)[i] = IF i <= m THEN s[i] ELSE c[i - m]
    BY <2>2, Joined
  <2> QED
    BY <2>1, <2>3, Zenon DEF s, m
<1> HIDE DEF R
<1>7. ASSUME NEW i \in 1 .. Full
      PROVE  R[i] = rxbuf[Place[i]]
  <2>1. CASE i <= Handling
    <3>1. i \in 1 .. Handling + Useds /\ i <= Handling + Useds /\ i = 1 /\ Handling = 1
      BY <2>1, Counts, SMT
    <3> QED
      BY <1>2, <1>5, <1>6, <2>1, <3>1, Zenon
  <2>2. CASE ~ (i <= Handling) /\ i <= Handling + Useds
    <3> DEFINE j == i - Handling
    <3>1. i \in 1 .. Handling + Useds /\ j \in 1 .. Useds /\ j + Handling = i
      BY <2>2, Counts, SMT
    <3>2. R[i] = b[j]
      BY <1>5, <1>6, <2>2, <3>1, Zenon
    <3> HIDE DEF j
    <3> QED
      BY <1>3, <3>1, <3>2, Zenon
  <2>3. CASE ~ (i <= Handling + Useds)
    <3>1. i = Full /\ i - (Handling + Useds) = 1 /\ Filling = 1
      BY <2>3, Counts, SMT
    <3> QED
      BY <1>4, <1>6, <2>3, <3>1, Zenon
  <2> QED
    BY <2>1, <2>2, <2>3
<1>8. R = [i \in 1 .. Full |-> R[i]]
  BY <1>6, LenProperties, Zenon
<1>9. R = flying
  BY <1>7, <1>8, Zenon DEF BuffersPlaced
<1> QED
  BY <1>9, Zenon DEF FramesInOrder, R, a, b, c
-----------------------------------------------------------------------------
(* The capture ring. *)

\* A record with the fields of the capture ring.
LEMMA Record ==
  ASSUME NEW a, NEW b, NEW c, NEW n
  PROVE  LET q == [slot |-> a, write |-> b, read |-> c]
         IN  /\ q.slot = a /\ q.write = b /\ q.read = c
             /\ [q EXCEPT !.slot = n] = [slot |-> n, write |-> b, read |-> c]
             /\ [q EXCEPT !.write = n] = [slot |-> a, write |-> n, read |-> c]
             /\ [q EXCEPT !.read = n] = [slot |-> a, write |-> b, read |-> n]
BY SMT

\* A frame written at the end of the capture ring, field by field.
LEMMA RingWritten ==
  ASSUME CaptureShape, NEW i \in CaptureSlots, NEW e, NEW n \in Indexes,
         capture' = [capture EXCEPT !.slot[i] = e, !.write = n]
  PROVE  /\ CaptureShape' /\ capture'.slot = [capture.slot EXCEPT ![i] = e]
         /\ capture'.write = n /\ capture'.read = capture.read
<1> DEFINE s == [capture.slot EXCEPT ![i] = e]
           p == [capture EXCEPT !.slot = s]
<1>1. capture' = [p EXCEPT !.write = n]
  OBVIOUS
<1>2. s = [j \in CaptureSlots |-> s[j]]
  BY Zenon DEF CaptureShape
<1>3. capture = [slot |-> capture.slot, write |-> capture.write, read |-> capture.read]
  BY DEF CaptureShape
<1> HIDE DEF s
<1>4. p = [slot |-> s, write |-> capture.write, read |-> capture.read]
  BY <1>3, SMT
<1> HIDE DEF p
<1>5. capture' = [slot |-> s, write |-> n, read |-> capture.read]
  BY <1>1, <1>4, Record, Zenon
<1>6. capture'.slot = s /\ capture'.write = n /\ capture'.read = capture.read
  <2> DEFINE q == [slot |-> s, write |-> n, read |-> capture.read]
  <2>1. q.slot = s /\ q.write = n /\ q.read = capture.read
    BY Record
  <2> HIDE DEF q
  <2>2. capture' = q
    BY <1>5 DEF q
  <2> QED
    BY <2>1, <2>2, Zenon
<1>7. capture' = [slot |-> capture'.slot, write |-> capture'.write, read |-> capture'.read]
  BY <1>5, <1>6, Zenon
<1> QED
  BY <1>2, <1>6, <1>7, Zenon DEF CaptureShape, s

\* A frame taken from the front of the capture ring, field by field.
LEMMA RingRead ==
  ASSUME CaptureShape, NEW i \in CaptureSlots, NEW e, NEW n \in Indexes,
         capture' = [capture EXCEPT !.slot[i] = e, !.read = n]
  PROVE  /\ CaptureShape' /\ capture'.slot = [capture.slot EXCEPT ![i] = e]
         /\ capture'.read = n /\ capture'.write = capture.write
<1> DEFINE s == [capture.slot EXCEPT ![i] = e]
           p == [capture EXCEPT !.slot = s]
<1>1. capture' = [p EXCEPT !.read = n]
  OBVIOUS
<1>2. s = [j \in CaptureSlots |-> s[j]]
  BY Zenon DEF CaptureShape
<1>3. capture = [slot |-> capture.slot, write |-> capture.write, read |-> capture.read]
  BY DEF CaptureShape
<1> HIDE DEF s
<1>4. p = [slot |-> s, write |-> capture.write, read |-> capture.read]
  BY <1>3, SMT
<1> HIDE DEF p
<1>5. capture' = [slot |-> s, write |-> capture.write, read |-> n]
  BY <1>1, <1>4, Record, Zenon
<1>6. capture'.slot = s /\ capture'.read = n /\ capture'.write = capture.write
  <2> DEFINE q == [slot |-> s, write |-> capture.write, read |-> n]
  <2>1. q.slot = s /\ q.read = n /\ q.write = capture.write
    BY Record
  <2> HIDE DEF q
  <2>2. capture' = q
    BY <1>5 DEF q
  <2> QED
    BY <2>1, <2>2, Zenon
<1>7. capture' = [slot |-> capture'.slot, write |-> capture'.write, read |-> capture'.read]
  BY <1>5, <1>6, Zenon
<1> QED
  BY <1>2, <1>6, <1>7, Zenon DEF CaptureShape, s

\* The slots of the capture ring, and the frames kept as a sequence.
LEMMA CaptureNumbers ==
  ASSUME CaptureShape, CaptureFifo
  PROVE  LET n == Ahead(capture.write, capture.read)
             c == NET_RX_CAPTURE_NUM
         IN  /\ c \in Nat \ {0} /\ c < INDEX_MOD /\ INDEX_MOD \in Nat /\ n \in Nat /\ n <= c
             /\ \A k \in Int : (capture.read + k) % c \in CaptureSlots
             /\ (capture.read + 0) % c = capture.read % c
             /\ \A k \in Int : (Incr(capture.read) + k) % c = (capture.read + (k + 1)) % c
             /\ capture.write % c = (capture.read + n) % c
             /\ \A k, m \in Int : k < m /\ m - k < c
                                    => (capture.read + k) % c # (capture.read + m) % c
<1> DEFINE c == NET_RX_CAPTURE_NUM
           r == capture.read
           w == capture.write
<1>1. /\ c \in Nat \ {0} /\ INDEX_MOD % c = 0 /\ INDEX_MOD \in Nat /\ INDEX_MOD > c
      /\ r \in Indexes /\ w \in Indexes
  BY NetAssumption, VirtqAssumption, Zenon DEF CaptureShape
<1>2. Ahead(w, r) \in Nat /\ Ahead(w, r) <= c /\ r + 0 = r /\ c < INDEX_MOD
  <2>1. Ahead(w, r) \in Indexes
    BY <1>1, Distance
  <2>2. Ahead(w, r) <= c
    BY DEF CaptureFifo
  <2> QED
    BY <1>1, <2>1, <2>2, SMT DEF Indexes
<1> HIDE DEF c, r, w
<1>3. /\ \A k \in Int : r + k \in Int /\ (r + k) % c \in 0 .. c - 1
      /\ \A k \in Int : (Incr(r) + k) % c = (r + (k + 1)) % c
      /\ \A j \in Indexes : j % c = (r + Ahead(j, r)) % c
      /\ \A k, m \in Int : k < m /\ m - k < c => (r + k) % c # (r + m) % c
  BY <1>1, Slots
<1> QED
  BY <1>1, <1>2, <1>3, Zenon DEF c, r, w, CaptureSlots

\* virtio_net_capture_rx appends to the frames kept.
LEMMA CaptureAppends ==
  ASSUME CaptureShape, CaptureFifo, ~ CaptureFull, NEW f,
         capture' = [capture EXCEPT !.slot[capture.write % NET_RX_CAPTURE_NUM] = f,
                                    !.write = Incr(@)],
         kept' = Append(kept, f)
  PROVE  CaptureShape' /\ CaptureFifo'
<1> DEFINE n == Ahead(capture.write, capture.read)
           c == NET_RX_CAPTURE_NUM
           r == capture.read
           s == capture.slot
           e == capture.write % c
<1>1. /\ c \in Nat \ {0} /\ c < INDEX_MOD /\ INDEX_MOD \in Nat /\ n \in Nat /\ n <= c
      /\ \A k \in Int : (r + k) % c \in CaptureSlots
      /\ e = (r + n) % c
      /\ \A k, m \in Int : k < m /\ m - k < c => (r + k) % c # (r + m) % c
  BY CaptureNumbers, Zenon
<1>2. n < c
  <2>1. ~ (n >= c)
    BY DEF CaptureFull, Ahead
  <2> QED
    BY <1>1, <2>1, SMT
<1>3. capture.write \in Indexes /\ r \in Indexes /\ Incr(capture.write) \in Indexes
      /\ s = [i \in CaptureSlots |-> s[i]]
  BY NextIndex, Zenon DEF CaptureShape
<1>4. e \in CaptureSlots
  BY <1>1, SMT
<1>5. /\ CaptureShape' /\ capture'.slot = [s EXCEPT ![e] = f]
      /\ capture'.write = Incr(capture.write) /\ capture'.read = r
  BY <1>3, <1>4, RingWritten, Zenon
<1>6. Ahead(capture'.write, capture'.read) = n + 1
  <2>1. n + 1 < INDEX_MOD
    BY <1>1, <1>2, SMT
  <2> QED
    BY <1>3, <1>5, <2>1, Moved, ZenonT(60)
<1>7. kept = [k \in 1 .. n |-> s[(r + (k - 1)) % c]]
  BY Zenon DEF CaptureFifo
<1> HIDE DEF n, c, r, s, e
<1>8. kept' = [k \in 1 .. n + 1 |-> IF k <= n THEN kept[k] ELSE f]
  <2> DEFINE S == {kept[k] : k \in 1 .. n} \cup {f}
  <2>1. kept \in [1 .. n -> S] /\ f \in S
    BY <1>7, Zenon
  <2> HIDE DEF S
  <2>2. Append(kept, f) = [k \in 1 .. n + 1 |-> IF k <= n THEN kept[k] ELSE f]
    BY <1>1, <2>1, Appended
  <2> QED
    BY <2>2
<1>9. ASSUME NEW k \in 1 .. n + 1
      PROVE  (IF k <= n THEN kept[k] ELSE f) = capture'.slot[(r + (k - 1)) % c]
  <2> DEFINE j == k - 1
  <2>1. j \in Int /\ n \in Int
    BY <1>1, SMT
  <2>2. CASE k <= n
    <3>1. j < n /\ n - j < c /\ k \in 1 .. n
      BY <1>1, <1>2, <2>2, SMT
    <3>2. kept[k] = s[(r + j) % c]
      BY <1>7, <3>1, Zenon
    <3> HIDE DEF j
    <3>3. (r + j) % c # e /\ (r + j) % c \in CaptureSlots
      BY <1>1, <2>1, <3>1, Zenon
    <3>4. capture'.slot[(r + j) % c] = s[(r + j) % c]
      BY <1>3, <1>5, <3>3, ZenonT(60)
    <3> QED
      BY <2>2, <3>2, <3>4, Zenon DEF j
  <2>3. CASE ~ (k <= n)
    <3>1. j = n
      BY <2>1, <2>3, SMT
    <3>2. capture'.slot[(r + j) % c] = f
      BY <1>1, <1>3, <1>4, <1>5, <3>1, Zenon
    <3> QED
      BY <2>3, <3>2, Zenon
  <2> QED
    BY <2>2, <2>3
<1>10. kept' = [k \in 1 .. n + 1 |-> capture'.slot[(r + (k - 1)) % c]]
  BY <1>8, <1>9, Zenon
<1>11. n + 1 <= c
  BY <1>1, <1>2, SMT
<1> QED
  BY <1>5, <1>6, <1>10, <1>11, Zenon DEF CaptureFifo, c
\* virtio_net_pop_rx_frame takes the oldest of the frames kept.
LEMMA CapturePops ==
  ASSUME CaptureShape, CaptureFifo, capture.read # capture.write,
         capture' = [capture EXCEPT !.slot[capture.read % NET_RX_CAPTURE_NUM] = NoFrame,
                                    !.read = Incr(@)],
         kept' = Tail(kept)
  PROVE  CaptureShape' /\ CaptureFifo'
<1> DEFINE n == Ahead(capture.write, capture.read)
           c == NET_RX_CAPTURE_NUM
           r == capture.read
           s == capture.slot
           e == r % c
<1>1. /\ c \in Nat \ {0} /\ n \in Nat /\ n <= c
      /\ \A k \in Int : (r + k) % c \in CaptureSlots
      /\ (r + 0) % c = e
      /\ \A k \in Int : (Incr(r) + k) % c = (r + (k + 1)) % c
      /\ \A k, m \in Int : k < m /\ m - k < c => (r + k) % c # (r + m) % c
  BY CaptureNumbers, Zenon
<1>2. capture.write \in Indexes /\ r \in Indexes /\ Incr(r) \in Indexes
      /\ s = [i \in CaptureSlots |-> s[i]]
  BY NextIndex, Zenon DEF CaptureShape
<1>3. n > 0 /\ Ahead(capture.write, Incr(r)) = n - 1
  BY <1>2, Moved, Zenon
<1>4. e \in CaptureSlots
  BY <1>1, SMT
<1>5. /\ CaptureShape' /\ capture'.slot = [s EXCEPT ![e] = NoFrame]
      /\ capture'.read = Incr(r) /\ capture'.write = capture.write
  BY <1>2, <1>4, RingRead, Zenon
<1>6. kept = [k \in 1 .. n |-> s[(r + (k - 1)) % c]]
  BY Zenon DEF CaptureFifo
<1>7. Ahead(capture'.write, capture'.read) = n - 1
  BY <1>3, <1>5, Zenon
<1> HIDE DEF n, c, r, s, e
<1>8. kept' = [k \in 1 .. n - 1 |-> kept[k + 1]]
  <2> DEFINE S == {kept[k] : k \in 1 .. n}
  <2>1. kept \in [1 .. n -> S]
    BY <1>6, Zenon
  <2> HIDE DEF S
  <2>2. n \in Nat /\ n > 0
    BY <1>1, <1>3
  <2>3. Tail(kept) = [k \in 1 .. n - 1 |-> kept[k + 1]]
    BY <2>1, <2>2, Shortened
  <2> QED
    BY <2>3
<1>9. ASSUME NEW k \in 1 .. n - 1
      PROVE  kept[k + 1] = capture'.slot[(Incr(r) + (k - 1)) % c]
  <2> DEFINE j == k - 1
             m == k + 1
  <2>1. /\ j \in Int /\ m \in 1 .. n /\ j + 1 = m - 1 /\ j + 1 \in Int
        /\ 0 < j + 1 /\ (j + 1) - 0 < c /\ 0 \in Int
    BY <1>1, <1>3, SMT
  <2> HIDE DEF j, m
  <2>2. kept[m] = s[(r + (j + 1)) % c]
    BY <1>6, <2>1, Zenon
  <2>3. (r + (j + 1)) % c # e /\ (r + (j + 1)) % c \in CaptureSlots
    <3> DEFINE i == j + 1
    <3>1. i \in Int /\ 0 \in Int /\ 0 < i /\ i - 0 < c
      BY <2>1
    <3> HIDE DEF i
    <3>2. (r + 0) % c # (r + i) % c /\ (r + i) % c \in CaptureSlots
      BY <1>1, <3>1, Zenon
    <3> QED
      BY <1>1, <3>2, Zenon DEF i
  <2>4. capture'.slot[(r + (j + 1)) % c] = s[(r + (j + 1)) % c]
    BY <1>2, <1>5, <2>3, Zenon
  <2>5. (Incr(r) + j) % c = (r + (j + 1)) % c
    BY <1>1, <2>1, Zenon
  <2> QED
    BY <2>2, <2>4, <2>5, Zenon DEF j, m
<1>10. kept' = [k \in 1 .. n - 1 |-> capture'.slot[(capture'.read + (k - 1)) % c]]
  BY <1>5, <1>8, <1>9, Zenon
<1>11. n - 1 <= c
  BY <1>1, <1>3, SMT
<1> QED
  BY <1>5, <1>7, <1>10, <1>11, Zenon DEF CaptureFifo, c

\* The capture ring is a FIFO, whatever the step.
LEMMA CaptureKept ==
  ASSUME Claims, CaptureShape, CaptureFifo, [Next]_vars
  PROVE  CaptureShape' /\ CaptureFifo'
<1>1. ASSUME UNCHANGED <<capture, kept>> PROVE CaptureShape' /\ CaptureFifo'
  BY <1>1, Zenon DEF CaptureShape, CaptureFifo
<1>2. CASE KernelElsewhere \/ DeviceElsewhere \/ HandlerElsewhere
  BY <1>1, <1>2, KernelApart, DeviceApart, HandlerApart, Zenon DEF sharedVars, captureVars
<1>3. CASE UNCHANGED vars
  BY <1>1, <1>3, Zenon DEF vars, protoVars, histVars
<1>4. CASE ArpPollReply \/ HandlerPopRx
  BY <1>1, <1>4, Zenon DEF ArpPollReply, HandlerPopRx, protoVars, histVars
<1>5. CASE RxUsed \/ RxInterrupt \/ \E f \in Frames : RxArrive(f)
  BY <1>1, <1>5, Zenon DEF RxUsed, RxInterrupt, RxArrive, protoVars, histVars
<1>6. CASE PopFrame
  <2>1. CASE capture.read = capture.write
    BY <1>1, <1>6, <2>1, Zenon DEF PopFrame
  <2>2. CASE capture.read # capture.write
    BY <1>6, <2>2, CapturePops, Zenon DEF PopFrame
  <2> QED
    BY <2>1, <2>2
<1>7. CASE HandlerFrame
  <2> DEFINE f == rxbuf[desc]
  <2>1. /\ capture' = IF f.kind = "runt" THEN capture ELSE Captured(f)
        /\ kept' = IF f.kind = "runt" \/ CaptureFull THEN kept ELSE Append(kept, f)
    BY <1>7, Zenon DEF HandlerFrame
  <2> HIDE DEF f
  <2>2. CASE f.kind = "runt" \/ CaptureFull
    BY <1>1, <2>1, <2>2, Zenon DEF Captured
  <2>3. CASE ~ (f.kind = "runt") /\ ~ CaptureFull
    <3>1. /\ kept' = Append(kept, f)
          /\ capture' = [capture EXCEPT !.slot[capture.write % NET_RX_CAPTURE_NUM] = f,
                                        !.write = Incr(@)]
      BY <2>1, <2>3, Zenon DEF Captured
    <3> QED
      BY <2>3, <3>1, CaptureAppends, Zenon
  <2> QED
    BY <2>2, <2>3
<1> QED
  BY <1>2, <1>3, <1>4, <1>5, <1>6, <1>7, Steps, Zenon
-----------------------------------------------------------------------------
(* The ARP cache. *)

\* The first entry of a set of entries is one of them.
LEMMA FirstEntry ==
  ASSUME NEW S \in SUBSET CacheSlots, S # {}
  PROVE  Min(S) \in S
<1>1. S \in SUBSET Nat
  BY ArpAssumption, SMT DEF CacheSlots
<1>2. IsWellFoundedOn(OpToRel(<, Nat), Nat)
  BY NatLessThanWellFounded, Zenon
<1>3. PICK x \in S : \A y \in S : ~ (<<y, x>> \in OpToRel(<, Nat))
  BY <1>1, <1>2, WFMin, Zenon
<1>4. \A y \in S : x <= y
  <2> TAKE y \in S
  <2>1. ~ (<<y, x>> \in {ss \in Nat \X Nat : ss[1] < ss[2]})
    BY <1>3, Zenon DEF OpToRel
  <2> QED
    BY <1>1, <2>1, SMT
<1> QED
  BY <1>4, Zenon DEF Min

\* The hosts heard are finitely many.
LEMMA HostsFinite ==
  IsFiniteSet(Hosts) /\ Cardinality(Hosts) \in Nat
<1>1. Hosts \in SUBSET Ips
  BY DEF Hosts
<1>2. IsFiniteSet(Hosts)
  BY <1>1, ArpAssumption, FS_Subset, Zenon
<1> QED
  BY <1>2, FS_CardinalityType, Zenon

\* What arp_lookup searches for, in the words of the invariant.
LEMMA Matches ==
  ASSUME HostsCached, NEW ip
  PROVE  /\ Matching(arp.cache, ip) = {i \in CacheSlots : Entry(i, ip)}
         /\ Invalid(arp.cache) = {i \in CacheSlots : arp.cache[i].valid = FALSE}
<1>1. \A i \in CacheSlots : arp.cache[i].valid = FALSE \/ arp.cache[i].valid = TRUE
  BY Zenon DEF HostsCached, Entry
<1>2. \A i \in CacheSlots : (arp.cache[i].valid <=> arp.cache[i].valid = TRUE)
  BY <1>1, Zenon
<1> QED
  BY <1>1, <1>2, Zenon DEF Matching, Invalid, Entry

\* The entry arp_cache_update writes: the one of the host if there is one, else
\* a free one if there is one.
Written(ip) ==
  IF Matching(arp.cache, ip) # {} THEN Min(Matching(arp.cache, ip))
  ELSE IF Invalid(arp.cache) # {} THEN Min(Invalid(arp.cache))
  ELSE 0
LEMMA WrittenEntry ==
  ASSUME HostsCached, NEW ip
  PROVE  /\ Written(ip) \in CacheSlots
         /\ (\E j \in CacheSlots : Entry(j, ip)) => Entry(Written(ip), ip)
         /\ (\E j \in CacheSlots : arp.cache[j].valid = FALSE)
              /\ ~ (\E j \in CacheSlots : Entry(j, ip))
              => arp.cache[Written(ip)].valid = FALSE
<1> DEFINE M == Matching(arp.cache, ip)
           I == Invalid(arp.cache)
<1>1. M = {i \in CacheSlots : Entry(i, ip)} /\ I = {i \in CacheSlots : arp.cache[i].valid = FALSE}
  BY Matches
<1>2. 0 \in CacheSlots
  BY ArpAssumption, SMT DEF CacheSlots
<1>3. Written(ip) = IF M # {} THEN Min(M) ELSE IF I # {} THEN Min(I) ELSE 0
  BY DEF Written
<1> HIDE DEF M, I
<1>4. M \in SUBSET CacheSlots /\ I \in SUBSET CacheSlots
  BY <1>1, Zenon
<1>5. CASE M # {}
  <2>1. Written(ip) \in M
    BY <1>3, <1>4, <1>5, FirstEntry, Zenon
  <2> QED
    BY <1>1, <2>1, Zenon
<1>6. CASE M = {} /\ I # {}
  <2>1. Written(ip) \in I
    BY <1>3, <1>4, <1>6, FirstEntry, Zenon
  <2> QED
    BY <1>1, <1>6, <2>1, Zenon
<1>7. CASE M = {} /\ I = {}
  BY <1>1, <1>2, <1>3, <1>7, Zenon
<1> QED
  BY <1>5, <1>6, <1>7

\* A full cache holds as many hosts as it has entries.
LEMMA FullCache ==
  ASSUME HostsCached, \A j \in CacheSlots : arp.cache[j].valid # FALSE
  PROVE  ARP_CACHE_SIZE <= Cardinality(Hosts)
<1> DEFINE g == [j \in CacheSlots |-> arp.cache[j].ip]
<1>1. \A j \in CacheSlots : arp.cache[j].ip \in Hosts /\ Entry(j, arp.cache[j].ip)
  <2> TAKE j \in CacheSlots
  <2>1. PICK x \in Hosts : Entry(j, x)
    BY Zenon DEF HostsCached
  <2>2. arp.cache[j].ip = x
    BY <2>1 DEF Entry
  <2> QED
    BY <2>1, <2>2, Zenon
<1>2. g \in [CacheSlots -> Hosts] /\ DOMAIN g = CacheSlots
  BY <1>1, Zenon
<1>3. \A j, k \in CacheSlots : g[j] = g[k] => j = k
  <2>1. Hosts \subseteq Ips
    BY DEF Hosts
  <2> QED
    BY <1>1, <2>1, Zenon DEF HostsCached
<1> HIDE DEF g
<1>4. g \in Injection(CacheSlots, Hosts)
  BY <1>2, <1>3, Zenon DEF Injection, IsInjective
<1>5. Cardinality(CacheSlots) <= Cardinality(Hosts)
  BY <1>4, HostsFinite, FS_Injection, Zenon
<1>6. Cardinality(CacheSlots) = ARP_CACHE_SIZE
  <2>1. 0 \in Int /\ ARP_CACHE_SIZE - 1 \in Int /\ ARP_CACHE_SIZE \in Nat \ {0}
    BY ArpAssumption, SMT
  <2>2. Cardinality(CacheSlots)
          = IF 0 > ARP_CACHE_SIZE - 1 THEN 0 ELSE ARP_CACHE_SIZE - 1 - 0 + 1
    BY <2>1, FS_Interval, Zenon DEF CacheSlots
  <2> QED
    BY <2>1, <2>2, SMT
<1> QED
  BY <1>5, <1>6, Zenon
\* arp_cache_update keeps the cache coherent with what was heard.
LEMMA CacheUpdated ==
  ASSUME HostsCached, NEW ip \in Ips, NEW mac \in Macs,
         arp' = [cache |-> arp'.cache, reply |-> arp'.reply],
         arp'.cache = arp_cache_update(arp.cache, ip, mac),
         heard' = [heard EXCEPT ![ip] = mac]
  PROVE  HostsCached'
<1> DEFINE e == [valid |-> TRUE, ip |-> ip, mac |-> mac]
<1>0. PICK i \in CacheSlots : i = Written(ip)
  BY WrittenEntry, Zenon
<1>1. /\ i \in CacheSlots
      /\ (\E j \in CacheSlots : Entry(j, ip)) => Entry(i, ip)
      /\ (\E j \in CacheSlots : arp.cache[j].valid = FALSE)
           /\ ~ (\E j \in CacheSlots : Entry(j, ip))
           => arp.cache[i].valid = FALSE
  BY <1>0, WrittenEntry, Zenon
<1>2. arp'.cache = [arp.cache EXCEPT ![i] = e]
  BY <1>0, Zenon DEF arp_cache_update, Written
<1>3. e.valid = TRUE /\ e.ip = ip /\ e.mac = mac
  BY SMT
<1> HIDE DEF e
<1>4. arp.cache = [j \in CacheSlots |-> arp.cache[j]] /\ heard \in [Ips -> Macs \cup {NoMac}]
  BY Zenon DEF HostsCached
<1>5. /\ arp'.cache = [j \in CacheSlots |-> arp'.cache[j]]
      /\ arp'.cache[i] = e
      /\ \A j \in CacheSlots : j # i => arp'.cache[j] = arp.cache[j]
  BY <1>1, <1>2, <1>4, Zenon
<1>6. /\ heard' \in [Ips -> Macs \cup {NoMac}] /\ heard'[ip] = mac
      /\ \A x \in Ips : x # ip => heard'[x] = heard[x]
  BY <1>4, Zenon
<1>7. Hosts' = Hosts \cup {ip} /\ Hosts \subseteq Ips
  BY <1>6, NetAssumption, Zenon DEF Hosts
<1>8. /\ \A x : Entry(i, x)' <=> x = ip
      /\ \A j \in CacheSlots : j # i => \A x : Entry(j, x)' <=> Entry(j, x)
  BY <1>3, <1>5, Zenon DEF Entry
<1>9. /\ \A j, k \in CacheSlots : \A x \in Ips : Entry(j, x) /\ Entry(k, x) => j = k
      /\ \A j \in CacheSlots :
           \/ arp.cache[j].valid = FALSE
           \/ \E x \in Hosts : Entry(j, x) /\ arp.cache[j].mac = heard[x]
  BY Zenon DEF HostsCached
<1>10. ASSUME NEW j \in CacheSlots, j # i PROVE ~ Entry(j, ip)
  BY <1>1, <1>9, <1>10, Zenon
<1>11. ASSUME NEW j \in CacheSlots
       PROVE  \/ arp'.cache[j].valid = FALSE
              \/ \E x \in Hosts' : Entry(j, x)' /\ arp'.cache[j].mac = heard'[x]
  <2>1. CASE j = i
    BY <1>3, <1>5, <1>6, <1>7, <1>8, <2>1, Zenon
  <2>2. CASE j # i /\ arp.cache[j].valid = FALSE
    BY <1>5, <2>2, Zenon
  <2>3. CASE j # i /\ arp.cache[j].valid # FALSE
    <3>1. PICK x \in Hosts : Entry(j, x) /\ arp.cache[j].mac = heard[x]
      BY <1>9, <2>3, Zenon
    <3>2. x # ip /\ x \in Ips /\ x \in Hosts'
      BY <1>7, <1>10, <2>3, <3>1, Zenon
    <3> QED
      BY <1>5, <1>6, <1>8, <2>3, <3>1, <3>2, Zenon
  <2> QED
    BY <2>1, <2>2, <2>3
<1>12. ASSUME NEW j \in CacheSlots, NEW k \in CacheSlots, NEW x \in Ips, Entry(j, x)', Entry(k, x)'
       PROVE  j = k
  <2>1. CASE j = i /\ k # i
    BY <1>8, <1>10, <1>12, <2>1, Zenon
  <2>2. CASE k = i /\ j # i
    BY <1>8, <1>10, <1>12, <2>2, Zenon
  <2>3. CASE j # i /\ k # i
    BY <1>8, <1>9, <1>12, <2>3, Zenon
  <2> QED
    BY <2>1, <2>2, <2>3
<1>13. \/ \A x \in Hosts' : \E j \in CacheSlots : Entry(j, x)'
       \/ Cardinality(Hosts') > ARP_CACHE_SIZE
  <2>1. ASSUME \A x \in Hosts : \E j \in CacheSlots : Entry(j, x),
               \A x \in Ips : x # ip => ~ Entry(i, x)
        PROVE  \A x \in Hosts' : \E j \in CacheSlots : Entry(j, x)'
    <3> TAKE x \in Hosts'
    <3>1. CASE x = ip
      BY <1>1, <1>8, <3>1, Zenon
    <3>2. CASE x # ip
      <4>1. x \in Hosts /\ x \in Ips
        BY <1>7, <3>2, Zenon
      <4>2. PICK j \in CacheSlots : Entry(j, x)
        BY <2>1, <4>1
      <4>3. j # i
        BY <2>1, <3>2, <4>1, <4>2, Zenon
      <4> QED
        BY <1>8, <4>2, <4>3, Zenon
    <3> QED
      BY <3>1, <3>2
  <2>2. ARP_CACHE_SIZE \in Nat /\ Cardinality(Hosts) \in Nat /\ IsFiniteSet(Hosts)
    BY HostsFinite, ArpAssumption, SMT
  <2>3. CASE Cardinality(Hosts) > ARP_CACHE_SIZE
    <3>1. Cardinality(Hosts') = IF ip \in Hosts THEN Cardinality(Hosts) ELSE Cardinality(Hosts) + 1
      BY <1>7, <2>2, FS_AddElement, Zenon
    <3> QED
      BY <2>2, <2>3, <3>1, SMT
  <2>4. CASE \A x \in Hosts : \E j \in CacheSlots : Entry(j, x)
    <3>1. CASE \E j \in CacheSlots : Entry(j, ip)
      <4>1. Entry(i, ip)
        BY <1>1, <3>1, Zenon
      <4>2. \A x \in Ips : x # ip => ~ Entry(i, x)
        BY <4>1, Zenon DEF Entry
      <4> QED
        BY <2>1, <2>4, <4>2, Zenon
    <3>2. CASE ~ (\E j \in CacheSlots : Entry(j, ip))
               /\ \E j \in CacheSlots : arp.cache[j].valid = FALSE
      <4>1. arp.cache[i].valid = FALSE
        BY <1>1, <3>2, Zenon
      <4>2. \A x \in Ips : x # ip => ~ Entry(i, x)
        BY <4>1, Zenon DEF Entry
      <4> QED
        BY <2>1, <2>4, <4>2, Zenon
    <3>3. CASE ~ (\E j \in CacheSlots : Entry(j, ip))
               /\ ~ (\E j \in CacheSlots : arp.cache[j].valid = FALSE)
      <4>1. ARP_CACHE_SIZE <= Cardinality(Hosts)
        BY <3>3, FullCache, Zenon
      <4>2. ip \notin Hosts
        BY <2>4, <3>3, Zenon
      <4>3. Cardinality(Hosts') = Cardinality(Hosts) + 1
        BY <1>7, <2>2, <4>2, FS_AddElement, Zenon
      <4> QED
        BY <2>2, <4>1, <4>3, SMT
    <3> QED
      BY <3>1, <3>2, <3>3, Zenon
  <2> QED
    BY <2>3, <2>4, Zenon DEF HostsCached
<1> QED
  BY <1>5, <1>6, <1>11, <1>12, <1>13, Zenon DEF HostsCached
\* An ARP frame comes from a host and names its address.
LEMMA ArpFrame ==
  ASSUME NEW f \in Contents, f.kind = "arp"
  PROVE  f.arp.ip \in Ips /\ f.arp.mac \in Macs /\ f.arp.valid \in BOOLEAN
<1>1. f # NoFrame
  <2>1. NoFrame.kind # "arp"
    BY SMT DEF NoFrame
  <2> QED
    BY <2>1, Zenon
<1>2. f \in [kind : {"runt", "data"}] \cup [kind : {"arp"}, arp : Packets]
  BY <1>1, NetAssumption, Zenon DEF Contents
<1>3. f \in [kind : {"runt", "data"}] => f.kind \in {"runt", "data"}
  BY SMT
<1>4. f \in [kind : {"arp"}, arp : Packets]
  BY <1>2, <1>3, Zenon
<1>5. f.arp \in Packets
  BY <1>4, SMT
<1> QED
  BY <1>5, SMT DEF Packets

\* A record with the fields of the ARP state.
LEMMA ArpRecord ==
  ASSUME NEW a, NEW b, NEW n
  PROVE  LET q == [cache |-> a, reply |-> b]
         IN  q.cache = a /\ q.reply = b /\ [q EXCEPT !.reply = n] = [cache |-> a, reply |-> n]
BY SMT

\* The ARP cache follows what is heard, whatever the step.
LEMMA HostsKept ==
  ASSUME Claims, BuffersPlaced, HostsCached, [Next]_vars
  PROVE  HostsCached'
<1>1. ASSUME arp' = [cache |-> arp'.cache, reply |-> arp'.reply], arp'.cache = arp.cache,
             UNCHANGED heard
      PROVE  HostsCached'
  <2>1. Hosts' = Hosts
    BY <1>1, Zenon DEF Hosts
  <2>2. \A i, ip : Entry(i, ip)' <=> Entry(i, ip)
    BY <1>1, Zenon DEF Entry
  <2>3. /\ \A i \in CacheSlots :
             \/ arp'.cache[i].valid = FALSE
             \/ \E ip \in Hosts' : Entry(i, ip)' /\ arp'.cache[i].mac = heard'[ip]
        /\ \A i, j \in CacheSlots : \A ip \in Ips : Entry(i, ip)' /\ Entry(j, ip)' => i = j
        /\ \/ \A ip \in Hosts' : \E i \in CacheSlots : Entry(i, ip)'
           \/ Cardinality(Hosts') > ARP_CACHE_SIZE
    BY <1>1, <2>1, <2>2, ZenonT(60) DEF HostsCached
  <2> QED
    BY <1>1, <2>3, Zenon DEF HostsCached
<1>2. ASSUME UNCHANGED <<arp, heard>> PROVE HostsCached'
  BY <1>1, <1>2, Zenon DEF HostsCached
<1>3. CASE KernelElsewhere \/ DeviceElsewhere \/ HandlerElsewhere
  BY <1>2, <1>3, KernelApart, DeviceApart, HandlerApart, Zenon DEF sharedVars, hostVars
<1>4. CASE UNCHANGED vars
  BY <1>2, <1>4, Zenon DEF vars, protoVars, histVars
<1>5. CASE PopFrame \/ HandlerPopRx
  BY <1>2, <1>5, Zenon DEF PopFrame, HandlerPopRx, protoVars, histVars
<1>6. CASE RxUsed \/ RxInterrupt \/ \E f \in Frames : RxArrive(f)
  BY <1>2, <1>6, Zenon DEF RxUsed, RxInterrupt, RxArrive, protoVars, histVars
<1>7. CASE ArpPollReply
  <2>1. arp' = [arp EXCEPT !.reply = NoReply] /\ UNCHANGED heard
    BY <1>7, Zenon DEF ArpPollReply, arp_take_reply, histVars
  <2> DEFINE a == arp.cache
             b == arp.reply
             q == [cache |-> a, reply |-> b]
             p == [cache |-> a, reply |-> NoReply]
  <2>2. arp = q
    BY DEF HostsCached
  <2> HIDE DEF a, b
  <2>3. [q EXCEPT !.reply = NoReply] = p /\ p.cache = a /\ p.reply = NoReply
    BY ArpRecord
  <2>4. arp' = p
    BY <2>1, <2>2, <2>3, Zenon
  <2> HIDE DEF q
  <2>5. arp'.cache = a /\ arp'.reply = NoReply
    BY <2>3, <2>4, Zenon
  <2>6. arp' = [cache |-> arp'.cache, reply |-> arp'.reply]
    BY <2>4, <2>5, Zenon
  <2> QED
    BY <1>1, <2>1, <2>5, <2>6, Zenon DEF a
<1>8. CASE HandlerFrame
  <2> DEFINE f == rxbuf[desc]
  <2>1. /\ arp' = IF f.kind = "arp" THEN arp_receive(arp, f.arp) ELSE arp
        /\ heard' = IF f.kind = "arp" /\ f.arp.valid
                    THEN [heard EXCEPT ![f.arp.ip] = f.arp.mac] ELSE heard
    BY <1>8, Zenon DEF HandlerFrame
  <2>2. f \in Contents
    <3>1. Place[1] = desc /\ 1 \in 1 .. VIRTQ_ENTRY_NUM
      BY <1>8, HandlerRotates, Counts, SMT
    <3> QED
      BY <3>1, Zenon DEF BuffersPlaced
  <2>3. CASE ~ (f.kind = "arp" /\ f.arp.valid)
    BY <1>2, <2>1, <2>3, Zenon DEF arp_receive
  <2>4. CASE f.kind = "arp" /\ f.arp.valid
    <3>1. PICK ip \in Ips, mac \in Macs : ip = f.arp.ip /\ mac = f.arp.mac
      BY <2>2, <2>4, ArpFrame, Zenon
    <3> DEFINE a == arp_cache_update(arp.cache, ip, mac)
               b == IF Asks(f.arp)
                    THEN [pending |-> TRUE, ip |-> ip, mac |-> mac]
                    ELSE arp.reply
               q == [cache |-> a, reply |-> b]
    <3>2. arp' = q /\ heard' = [heard EXCEPT ![ip] = mac]
      BY <2>1, <2>4, <3>1, Zenon DEF arp_receive
    <3> HIDE DEF a, b
    <3>3. q.cache = a /\ q.reply = b
      BY ArpRecord
    <3>4. arp'.cache = a /\ arp'.reply = b
      BY <3>2, <3>3, Zenon
    <3>5. arp' = [cache |-> arp'.cache, reply |-> arp'.reply]
      BY <3>2, <3>4, Zenon
    <3> QED
      BY <3>2, <3>4, <3>5, CacheUpdated, Zenon DEF a
  <2> QED
    BY <2>3, <2>4
<1> QED
  BY <1>3, <1>4, <1>5, <1>6, <1>7, <1>8, Steps, Zenon

\* What arp_lookup answers.
LEMMA CachedCoherent ==
  ASSUME HostsCached
  PROVE  CacheCoherent
<1>1. ASSUME NEW ip \in Ips, Matching(arp.cache, ip) # {}
      PROVE  /\ arp_lookup(arp.cache, ip).found = TRUE
             /\ arp_lookup(arp.cache, ip).mac = heard[ip]
  <2> DEFINE m == Min(Matching(arp.cache, ip))
             e == arp.cache[m].mac
             r == [found |-> TRUE, mac |-> e]
  <2>1. Matching(arp.cache, ip) = {i \in CacheSlots : Entry(i, ip)}
    BY Matches
  <2>2. m \in CacheSlots /\ Entry(m, ip)
    <3>1. Matching(arp.cache, ip) \in SUBSET CacheSlots
      BY <2>1, Zenon
    <3>2. m \in Matching(arp.cache, ip)
      BY <1>1, <3>1, FirstEntry, Zenon
    <3> QED
      BY <2>1, <3>2, Zenon
  <2>3. e = heard[ip]
    <3> HIDE DEF m
    <3>1. arp.cache[m].valid = TRUE /\ arp.cache[m].ip = ip
      BY <2>2 DEF Entry
    <3>2. PICK x \in Hosts : Entry(m, x) /\ arp.cache[m].mac = heard[x]
      BY <2>2, <3>1, Zenon DEF HostsCached
    <3>3. x = ip
      BY <3>1, <3>2, Zenon DEF Entry
    <3> QED
      BY <3>2, <3>3, Zenon
  <2>4. arp_lookup(arp.cache, ip) = r
    BY <1>1, Zenon DEF arp_lookup
  <2> HIDE DEF e
  <2>5. r.found = TRUE /\ r.mac = e
    BY SMT
  <2> QED
    BY <2>3, <2>4, <2>5, Zenon
<1>2. ASSUME NEW ip \in Ips, Matching(arp.cache, ip) = {}
      PROVE  arp_lookup(arp.cache, ip).found = FALSE
  <2>1. arp_lookup(arp.cache, ip) = [found |-> FALSE]
    BY <1>2, Zenon DEF arp_lookup
  <2> QED
    BY <2>1, SMT
<1>3. \A ip \in Ips : arp_lookup(arp.cache, ip).found => arp_lookup(arp.cache, ip).mac = heard[ip]
  BY <1>1, <1>2, Zenon
<1>4. ASSUME Cardinality(Hosts) <= ARP_CACHE_SIZE, NEW ip \in Ips, heard[ip] # NoMac
      PROVE  arp_lookup(arp.cache, ip).found
  <2>1. ip \in Hosts
    BY <1>4 DEF Hosts
  <2>2. ~ (Cardinality(Hosts) > ARP_CACHE_SIZE)
    BY <1>4, HostsFinite, ArpAssumption, SMT
  <2>3. \E i \in CacheSlots : Entry(i, ip)
    BY <2>1, <2>2, Zenon DEF HostsCached
  <2>4. Matching(arp.cache, ip) # {}
    BY <2>3, Matches, Zenon
  <2> QED
    BY <1>1, <2>4, Zenon
<1> QED
  BY <1>3, <1>4, Zenon DEF CacheCoherent, Hosts
-----------------------------------------------------------------------------
(* The initial states, and the theorems. *)

\* virtio_net_init leaves every receive descriptor available, in order.
LEMMA InitPlaced ==
  ASSUME Init
  PROVE  BuffersPlaced
<1> DEFINE N == VIRTQ_ENTRY_NUM
<1>1. N \in Nat \ {0} /\ INDEX_MOD \in Nat /\ INDEX_MOD > N
  BY VirtqAssumption
<1>2. 0 \in Indexes /\ N \in Indexes /\ 0 \in Descs /\ Ring = Descs
  BY <1>1, SMT DEF Indexes, Descs, Ring
<1>3. /\ rx \in Queues /\ rx.avail = [k \in Ring |-> k] /\ rx.avail_index = N
      /\ rx.taken = 0 /\ rx.used_index = 0 /\ rx.consumed_used_index = 0
  <2> DEFINE a == [k \in Ring |-> k]
             z == [k \in Ring |-> 0]
             q == [avail |-> z, avail_index |-> 0, used |-> z, used_index |-> 0,
                   submitted_index |-> 0, consumed_used_index |-> 0, taken |-> 0]
             p == [q EXCEPT !.avail = a]
  <2>1. rx = [p EXCEPT !.avail_index = N]
    BY Zenon DEF Init, virtio_net_init_rx, virtq_init
  <2>2. a \in [Ring -> Descs] /\ z \in [Ring -> Descs]
    BY <1>2, Zenon
  <2> HIDE DEF a, z
  <2>3. p = [avail |-> a, avail_index |-> 0, used |-> z, used_index |-> 0,
             submitted_index |-> 0, consumed_used_index |-> 0, taken |-> 0]
    BY SMT
  <2> HIDE DEF p
  <2>4. rx = [avail |-> a, avail_index |-> N, used |-> z, used_index |-> 0,
              submitted_index |-> 0, consumed_used_index |-> 0, taken |-> 0]
    BY <2>1, <2>3, SMT
  <2> HIDE DEF N
  <2>5. /\ rx \in Queues /\ rx.avail = a /\ rx.avail_index = N
        /\ rx.taken = 0 /\ rx.used_index = 0 /\ rx.consumed_used_index = 0
    BY <1>2, <2>2, <2>4, SMT DEF Queues
  <2> QED
    BY <2>5 DEF a
<1>4. ipc = "none" /\ drx.at = "idle" /\ rxbuf = [d \in Descs |-> NoFrame] /\ flying = <<>>
  BY SMT DEF Init, IrqInit
<1>5. rxbuf \in [Descs -> Contents]
  BY <1>4, Zenon DEF Contents
<1>6. Handling = 0 /\ Filling = 0
  BY <1>4, Zenon DEF Handling, Filling
<1>7. Useds = 0 /\ Avails = N
  <2>1. Ahead(0, 0) = 0 /\ Ahead(N, 0) = IF N >= 0 THEN N - 0 ELSE N - 0 + INDEX_MOD
    BY <1>2, Moved, Distance, Zenon
  <2>2. Ahead(N, 0) = N
    BY <1>1, <2>1, SMT
  <2> QED
    BY <1>3, <2>1, <2>2, Zenon DEF Useds, Avails
<1>8. Full = 0 /\ Full + Avails = N
  BY <1>1, <1>6, <1>7, SMT DEF Full
<1>9. ASSUME NEW k \in 1 .. N
      PROVE  Place[k] = k - 1 /\ k - 1 \in Descs
  <2>1. ~ (k <= 0) /\ ~ (k <= 0 + 0) /\ k - 1 \in Ring /\ 0 + (k - 0 - 1) = k - 1
    BY <1>1, SMT DEF Ring
  <2>2. Slot(k - 1) = k - 1
    BY <1>1, <2>1, SMT DEF Slot, Ring
  <2>3. Place[k] = IF k <= 0 THEN desc
                   ELSE IF k <= 0 + 0
                   THEN rx.used[Slot(rx.consumed_used_index + (k - 0 - 1))]
                   ELSE IF k <= 0 THEN drx.desc
                   ELSE rx.avail[Slot(0 + (k - 0 - 1))]
    BY <1>3, <1>6, <1>7, <1>8, Stretches, Zenon
  <2>4. Place[k] = rx.avail[Slot(0 + (k - 0 - 1))]
    BY <2>1, <2>3, Zenon
  <2>5. Place[k] = rx.avail[k - 1]
    BY <2>1, <2>2, <2>4, Zenon
  <2> QED
    BY <1>2, <1>3, <2>1, <2>5, Zenon
<1>10. \A j, k \in 1 .. N : Place[j] = Place[k] => j = k
  <2> SUFFICES ASSUME NEW j \in 1 .. N, NEW k \in 1 .. N, Place[j] = Place[k] PROVE j = k
    OBVIOUS
  <2>1. j - 1 = k - 1
    BY <1>9, Zenon
  <2> QED
    BY <1>1, <2>1, SMT
<1>11. ASSUME NEW d \in Descs PROVE \E k \in 1 .. N : Place[k] = d
  <2>1. d + 1 \in 1 .. N /\ (d + 1) - 1 = d
    BY <1>1, SMT DEF Descs, Ring
  <2>2. Place[d + 1] = (d + 1) - 1
    BY <1>9, <2>1, Zenon
  <2> QED
    BY <2>1, <2>2, Zenon
<1>12. flying = [k \in 1 .. Full |-> rxbuf[Place[k]]]
  <2>1. 1 .. 0 = {}
    BY SMT
  <2> QED
    BY <1>4, <1>8, <2>1, SMT
<1> QED
  BY <1>3, <1>5, <1>8, <1>9, <1>10, <1>11, <1>12, ZenonT(60) DEF BuffersPlaced
\* The driver starts with empty queues of frames and with nothing heard.
LEMMA InitRest ==
  ASSUME Init
  PROVE  Claims /\ OneFrame /\ CaptureShape /\ CaptureFifo /\ HostsCached
<1>1. INDEX_MOD \in Nat /\ INDEX_MOD > 0 /\ 0 \in Indexes /\ 0 \in Descs
  BY VirtqAssumption, SMT DEF Indexes, Descs, Ring
<1>2. Claims
  BY SMTT(30) DEF Init, IrqInit, Claims, Sources
<1>3. OneFrame
  <2> DEFINE z == [k \in Ring |-> 0]
  <2>1. tx = [avail |-> z, avail_index |-> 0, used |-> z, used_index |-> 0,
              submitted_index |-> 0, consumed_used_index |-> 0, taken |-> 0]
    BY Zenon DEF Init, virtq_init
  <2>2. z \in [Ring -> Descs]
    BY <1>1, Zenon
  <2> HIDE DEF z
  <2>3. /\ tx \in Queues /\ tx.avail_index = 0 /\ tx.submitted_index = 0 /\ tx.taken = 0
        /\ tx.used_index = 0 /\ tx.consumed_used_index = 0
    BY <1>1, <2>1, <2>2, SMT DEF Queues
  <2>4. kpc = "idle" /\ ret = "idle" /\ tx_done = FALSE /\ dtx = "idle"
    BY Zenon DEF Init, IrqInit
  <2>5. TxFree
    BY <2>3, <2>4, Zenon DEF TxFree
  <2>6. kpc \in Before /\ kpc \notin During /\ kpc \notin After /\ kpc # "tx_kick"
    BY <2>4 DEF Before, During, After
  <2> QED
    BY <2>3, <2>4, <2>5, <2>6, Zenon DEF OneFrame
<1>4. CaptureShape /\ CaptureFifo
  <2> DEFINE e == [i \in CaptureSlots |-> NoFrame]
  <2>1. capture = [slot |-> e, write |-> 0, read |-> 0] /\ kept = <<>>
    BY Zenon DEF Init
  <2>2. e = [i \in CaptureSlots |-> e[i]]
    BY Zenon
  <2> HIDE DEF e
  <2>3. capture.slot = e /\ capture.write = 0 /\ capture.read = 0
    BY <2>1, SMT
  <2>4. CaptureShape
    BY <1>1, <2>1, <2>2, <2>3, Zenon DEF CaptureShape
  <2>5. Ahead(capture.write, capture.read) = 0
    BY <1>1, <2>3, Moved, Zenon
  <2>6. 0 <= NET_RX_CAPTURE_NUM /\ 1 .. 0 = {}
    BY NetAssumption, SMT
  <2>7. kept = [k \in 1 .. 0 |-> capture.slot[(capture.read + (k - 1)) % NET_RX_CAPTURE_NUM]]
    BY <2>1, <2>6, SMT
  <2> QED
    BY <2>4, <2>5, <2>6, <2>7, Zenon DEF CaptureFifo
<1>5. HostsCached
  <2> DEFINE c == [i \in CacheSlots |-> EmptyEntry]
  <2>1. arp = [cache |-> c, reply |-> NoReply] /\ heard = [i \in Ips |-> NoMac]
    BY Zenon DEF Init, arp_init
  <2>2. c = [i \in CacheSlots |-> c[i]] /\ \A i \in CacheSlots : c[i] = EmptyEntry
    BY Zenon
  <2> HIDE DEF c
  <2>3. arp.cache = c /\ arp.reply = NoReply
    BY <2>1, SMT
  <2>4. EmptyEntry.valid = FALSE
    BY SMT DEF EmptyEntry
  <2>5. \A i \in CacheSlots : arp.cache[i].valid = FALSE
    BY <2>2, <2>3, <2>4, Zenon
  <2>6. \A i \in CacheSlots : \A ip : ~ Entry(i, ip)
    BY <2>5, Zenon DEF Entry
  <2>7. Hosts = {}
    BY <2>1, Zenon DEF Hosts
  <2>8. /\ arp = [cache |-> arp.cache, reply |-> arp.reply]
        /\ arp.cache = [i \in CacheSlots |-> arp.cache[i]]
        /\ heard \in [Ips -> Macs \cup {NoMac}]
    BY <2>1, <2>2, <2>3, Zenon
  <2> QED
    BY <2>5, <2>6, <2>7, <2>8, Zenon DEF HostsCached
<1> QED
  BY <1>2, <1>3, <1>4, <1>5

\* The transmit queue, the receive buffers, the capture ring and the ARP cache
\* are as NetInvariant says in every reachable state.
THEOREM DriverInvariant == Spec => []IInv
<1>1. Init => IInv
  BY InitPlaced, InitRest, Zenon DEF IInv
<1>2. IInv /\ [Next]_vars => IInv'
  BY ClaimsKept, OneFrameKept, BuffersPlacedKept, CaptureKept, HostsKept, Zenon DEF IInv
<1> QED
  BY <1>1, <1>2, PTL DEF Spec

\* For any number of descriptors, each is always in exactly one of the two rings,
\* the device and the handler's hands: virtio_net_drain_rx neither loses nor
\* doubles a receive buffer.
THEOREM BuffersNeverLost == Spec => []BuffersConserved
<1>1. IInv => BuffersConserved
  BY PlacedConserved DEF IInv
<1> QED
  BY <1>1, DriverInvariant, PTL

\* virtio_net_drain_rx handles every frame once, in the order of delivery, with
\* the contents it was delivered with.
THEOREM FramesNeverReordered == Spec => []FramesInOrder
<1>1. IInv => FramesInOrder
  BY PlacedInOrder DEF IInv
<1> QED
  BY <1>1, DriverInvariant, PTL

\* The capture ring between virtio_net_capture_rx and virtio_net_pop_rx_frame is
\* a FIFO of any size that divides the index range, across the index wrap.
THEOREM CapturesInOrder == Spec => []CaptureFifo
<1>1. IInv => CaptureFifo
  BY DEF IInv
<1> QED
  BY <1>1, DriverInvariant, PTL

\* arp_lookup answers with the last mapping heard, and knows every host while
\* the hosts heard fit the cache.
THEOREM CacheNeverStale == Spec => []CacheCoherent
<1>1. IInv => CacheCoherent
  BY CachedCoherent DEF IInv
<1> QED
  BY <1>1, DriverInvariant, PTL

\* virtio_net_send_ethernet never fills the transmit buffer under the device.
THEOREM TransmitBufferNeverShared == Spec => []TxBufferExclusive
<1>1. IInv => TxBufferExclusive
  BY TransmitPromises DEF IInv
<1> QED
  BY <1>1, DriverInvariant, PTL

\* The wait of virtio_net_send_ethernet never ends on the completion of an
\* earlier frame.
THEOREM SendNeverEarly == Spec => []TxDoneMeansSent
<1>1. IInv => TxDoneMeansSent
  BY TransmitPromises DEF IInv
<1> QED
  BY <1>1, DriverInvariant, PTL
=============================================================================
