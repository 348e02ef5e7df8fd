-------------------------- MODULE ProcessesProofs --------------------------
(***************************************************************************)
(* Theorems about Processes, for every size of the tables and of the RAM,  *)
(* every number of processes and any set of keys.  The loops of            *)
(* create_process, shm_process_cleanup and release_process are recursive   *)
(* functions, so each needs two things: that the function exists, and an   *)
(* induction over its rounds.                                              *)
(***************************************************************************)
EXTENDS ProcessesInvariant, RegionsProofs, FiniteSetTheorems

Memories == [regions : Tables, panic : Status]

-----------------------------------------------------------------------------
(* The region table. *)

\* alloc_region adds one region to the allocated ones, in a slot that held
\* none, and leaves the others where they are.
LEMMA AllocKeeps ==
  ASSUME NEW rs \in Tables, CanAlloc(rs, 1)
  PROVE  /\ alloc_region(rs, 1) \in Tables
         /\ find_unused_region_slot(rs) \in Slots \ AllocatedSlots(rs)
         /\ AllocatedSlots(alloc_region(rs, 1))
              = AllocatedSlots(rs) \cup {find_unused_region_slot(rs)}
         /\ \A i \in AllocatedSlots(rs) : alloc_region(rs, 1)[i] = rs[i]
<1> DEFINE t == alloc_region(rs, 1)
           v == find_unused_region_slot(rs)
<1>1. IsTable(rs) /\ Partition(rs) /\ 1 \in Nat \ {0}
  BY SMT DEF Tables, IsTable
<1>2. t \in Tables
  BY <1>1, AllocPartition, Zenon DEF Tables, IsTable
<1>3. PICK f \in SuitableSlots(rs, 1), u \in UnusedSlots(rs) :
           /\ u = v
           /\ f # u
           /\ t[u] = [start |-> rs[f].start, size |-> 1, state |-> "ALLOCATED"]
           /\ t[f] = Shrink(rs[f], 1)
           /\ \A i \in Slots \ {f, u} : t[i] = rs[i]
  BY <1>1, AllocEntries
<1>4. /\ f \in Slots /\ rs[f].state = "FREE" /\ u \in Slots /\ rs[u].state = "UNUSED"
      /\ t[u].state = "ALLOCATED"
  BY <1>3, SMT DEF SuitableSlots, UnusedSlots
<1>5. t[f].state # "ALLOCATED"
  <2>1. CASE rs[f].size = 1
    BY <1>3, <2>1, SMT DEF Shrink, UnusedRegion
  <2>2. CASE rs[f].size # 1
    BY <1>3, <2>2, SMT DEF Shrink
  <2> QED
    BY <2>1, <2>2, Zenon
<1> HIDE DEF t, v
<1>6. \A i \in Slots : i \in AllocatedSlots(t) <=> i \in AllocatedSlots(rs) \/ i = u
  BY <1>3, <1>4, <1>5, SMT DEF AllocatedSlots
<1>7. AllocatedSlots(t) = AllocatedSlots(rs) \cup {u}
  BY <1>4, <1>6, Zenon DEF AllocatedSlots
<1>8. \A i \in AllocatedSlots(rs) : i \in Slots \ {f, u}
  BY <1>4, SMT DEF AllocatedSlots
<1>9. u \notin AllocatedSlots(rs)
  BY <1>4, SMT DEF AllocatedSlots
<1> QED
  BY <1>2, <1>3, <1>4, <1>7, <1>8, <1>9, Zenon DEF t, v

\* The first page of an allocated region is a page of the RAM, and the region
\* is its owner.
LEMMA StartOwned ==
  ASSUME NEW rs \in Tables, NEW r \in AllocatedSlots(rs)
  PROVE  rs[r].start \in Pages /\ OwnerOf(rs, rs[r].start) = r
<1>1. IsTable(rs) /\ Partition(rs) /\ rs \in [Slots -> Region]
  BY Zenon DEF Tables, IsTable
<1>2. r \in Slots /\ InUse(rs, r)
  BY SMT DEF AllocatedSlots, InUse
<1>3. /\ rs[r].size > 0 /\ FREE_RAM <= rs[r].start /\ rs[r].start + rs[r].size <= FREE_RAM_END
  BY <1>1, <1>2, Zenon DEF Partition, InRam, End
<1>4. rs[r].start \in Nat /\ rs[r].size \in Nat
  BY <1>1, <1>2, RegionsAssumption, SMT DEF Region, RamSize
<1>5. rs[r].start \in Pages
  BY <1>3, <1>4, RegionsAssumption, SMT DEF Pages
<1>6. Covers(rs[r], rs[r].start)
  BY <1>3, <1>4, SMT DEF Covers, End
<1>7. r \in Holders(rs, rs[r].start)
  BY <1>6, Zenon DEF Holders
<1> QED
  BY <1>1, <1>5, <1>7, OwnerIsHolder, Zenon

-----------------------------------------------------------------------------
(* Allocations for a list. *)

\* The slots N are allocated in t on top of those of rs.
Grown(rs, t, N) ==
  /\ t \in Tables
  /\ AllocatedSlots(t) = AllocatedSlots(rs) \cup N
  /\ N \cap AllocatedSlots(rs) = {}
  /\ \A i \in AllocatedSlots(rs) : t[i] = rs[i]

Allocations == [mem : Memories, list : Seq(Slots)]

\* Appending a region adds it to what is listed, and a new one keeps the list
\* free of repetition.
LEMMA ListedAppend ==
  ASSUME NEW S, NEW l \in Seq(S), NEW x \in S
  PROVE  /\ Append(l, x) \in Seq(S)
         /\ Listed(Append(l, x)) = Listed(l) \cup {x}
         /\ x \notin Listed(l) /\ Distinct(l) => Distinct(Append(l, x))
<1> DEFINE a == Append(l, x)
<1>1. /\ a \in Seq(S) /\ Len(l) \in Nat /\ Len(a) = Len(l) + 1 /\ a[Len(l) + 1] = x
      /\ \A i \in 1 .. Len(l) : a[i] = l[i]
  BY SMT
<1>2. \A i \in 1 .. Len(a) : i = Len(l) + 1 \/ i \in 1 .. Len(l)
  BY <1>1, SMT
<1>3. /\ Len(l) + 1 \in 1 .. Len(a) /\ \A i \in 1 .. Len(l) : i \in 1 .. Len(a)
      /\ Len(l) + 1 \notin 1 .. Len(l)
  BY <1>1, SMT
<1> HIDE DEF a
<1>4. Listed(a) \subseteq Listed(l) \cup {x}
  BY <1>1, <1>2, Zenon DEF Listed
<1>5. Listed(l) \cup {x} \subseteq Listed(a)
  BY <1>1, <1>3, Zenon DEF Listed
<1>6. ASSUME x \notin Listed(l), Distinct(l), NEW i \in 1 .. Len(a), NEW j \in 1 .. Len(a),
             a[i] = a[j]
      PROVE  i = j
  <2>1. CASE i \in 1 .. Len(l) /\ j \in 1 .. Len(l)
    BY <1>1, <1>6, <2>1, Zenon DEF Distinct
  <2>2. CASE i \in 1 .. Len(l) /\ j = Len(l) + 1
    BY <1>1, <1>6, <2>2, Zenon DEF Listed
  <2>3. CASE j \in 1 .. Len(l) /\ i = Len(l) + 1
    BY <1>1, <1>6, <2>3, Zenon DEF Listed
  <2> QED
    BY <1>2, <2>1, <2>2, <2>3, Zenon
<1> QED
  BY <1>1, <1>4, <1>5, <1>6, Zenon DEF a, Distinct

\* The list of a new process.
LEMMA ListedEmpty ==
  /\ <<>> \in Seq(Slots) /\ Listed(<<>>) = {} /\ Distinct(<<>>)
<1>1. Len(<<>>) = 0 /\ \A i \in 1 .. 0 : FALSE
  BY SMT
<1>2. <<>> \in Seq(Slots)
  BY SMT
<1> QED
  BY <1>1, <1>2, Zenon DEF Listed, Distinct

\* alloc_pages for a list ends in PANIC with everything as it was, or adds
\* one new region to the table and to the list.
LEMMA AllocIntoKeeps ==
  ASSUME NEW m \in Memories, NEW l \in Seq(Slots)
  PROVE  /\ AllocInto(m, l) \in Allocations
         /\ \/ /\ m.panic = Running /\ AllocInto(m, l).mem.panic = Running
               /\ \E u \in Slots : /\ AllocInto(m, l).list = Append(l, u)
                                   /\ Grown(m.regions, AllocInto(m, l).mem.regions, {u})
            \/ /\ AllocInto(m, l).mem.panic \in {m.panic, OutOfMemory} \ {Running}
               /\ AllocInto(m, l).mem.regions = m.regions
               /\ AllocInto(m, l).list = l
<1> DEFINE a == AllocInto(m, l)
<1>1. m.regions \in Tables /\ m.panic \in Status /\ m = [regions |-> m.regions, panic |-> m.panic]
  BY SMT DEF Memories
<1>2. OutOfMemory \in Status /\ OutOfMemory # Running
  BY SMT DEF Status, OutOfMemory, Running
<1>3. CASE m.panic # Running
  <2>1. a = [mem |-> m, list |-> l]
    BY <1>3, Zenon DEF AllocInto
  <2>2. a.mem = m /\ a.list = l /\ a \in Allocations
    BY <2>1, SMT DEF Allocations
  <2> QED
    BY <1>3, <2>2, Zenon
<1>4. CASE m.panic = Running /\ ~ CanAlloc(m.regions, 1)
  <2> DEFINE n == [m EXCEPT !.panic = OutOfMemory]
  <2>1. a = [mem |-> n, list |-> l]
    BY <1>4, Zenon DEF AllocInto
  <2>2. n \in Memories /\ n.panic = OutOfMemory /\ n.regions = m.regions
    BY <1>1, <1>2, SMT DEF Memories
  <2> HIDE DEF n
  <2>3. a.mem = n /\ a.list = l /\ a \in Allocations
    BY <2>1, <2>2, SMT DEF Allocations
  <2> QED
    BY <1>2, <2>2, <2>3, Zenon
<1>5. CASE m.panic = Running /\ CanAlloc(m.regions, 1)
  <2> DEFINE t == alloc_region(m.regions, 1)
             u == find_unused_region_slot(m.regions)
             n == [m EXCEPT !.regions = t]
  <2>1. a = [mem |-> n, list |-> Append(l, u)]
    BY <1>5, Zenon DEF AllocInto
  <2>2. /\ u \in Slots /\ Grown(m.regions, t, {u}) /\ t \in Tables
    BY <1>1, <1>5, AllocKeeps, Zenon DEF Grown
  <2> HIDE DEF t, u
  <2>3. n \in Memories /\ n.panic = Running /\ n.regions = t
    BY <1>1, <1>5, <2>2, SMT DEF Memories
  <2>4. Append(l, u) \in Seq(Slots)
    BY <2>2, ListedAppend, Zenon
  <2> HIDE DEF n
  <2>5. a.mem = n /\ a.list = Append(l, u) /\ a \in Allocations
    BY <2>1, <2>3, <2>4, SMT DEF Allocations
  <2> QED
    BY <1>5, <2>2, <2>3, <2>5, Zenon
<1> QED
  BY <1>3, <1>4, <1>5, Zenon

GrowRun(f, m, n) ==
  f = [k \in 0 .. n |-> IF k = 0 THEN [mem |-> m, list |-> <<>>]
                        ELSE AllocInto(f[k - 1].mem, f[k - 1].list)]

\* The loop of AllocMany has a run, from which its result comes.
LEMMA GrowRuns ==
  ASSUME NEW m \in Memories, NEW n \in Nat
  PROVE  \E f : /\ AllocMany(m, n) = f[n]
                /\ f[0] = [mem |-> m, list |-> <<>>]
                /\ \A k \in 1 .. n : f[k] = AllocInto(f[k - 1].mem, f[k - 1].list)
<1> DEFINE X == Allocations
           x0 == [mem |-> m, list |-> <<>>]
           step == [y \in X \X (1 .. n) |-> AllocInto(y[1].mem, y[1].list)]
           f == CHOOSE g : GrowRun(g, m, n)
<1>1. x0 \in X
  BY ListedEmpty, SMT DEF Allocations
<1>2. ASSUME NEW a \in X PROVE AllocInto(a.mem, a.list) \in X
  <2>1. a.mem \in Memories /\ a.list \in Seq(Slots)
    BY SMT DEF Allocations
  <2> QED
    BY <2>1, AllocIntoKeeps, Zenon
<1> HIDE DEF X, x0
<1>3. step \in [X \X (1 .. n) -> X]
  <2>1. ASSUME NEW y \in X \X (1 .. n) PROVE AllocInto(y[1].mem, y[1].list) \in X
    BY <1>2, Zenon
  <2> QED
    BY <2>1, Zenon
<1>4. PICK g : IsLoop(g, n, X, x0, step)
  <2> HIDE DEF step
  <2> QED
    BY <1>1, <1>3, LoopExists, Zenon
<1>5. GrowRun(g, m, n)
  <2>1. ASSUME NEW k \in 0 .. n, k # 0
        PROVE  step[<<g[k - 1], k>>] = AllocInto(g[k - 1].mem, g[k - 1].list)
    <3>1. k \in 1 .. n /\ k - 1 \in 0 .. n
      BY <2>1, SMT
    <3>2. <<g[k - 1], k>> \in X \X (1 .. n)
      BY <1>4, <3>1 DEF IsLoop
    <3> QED
      BY <3>2
  <2>2. \A k \in 0 .. n :
          (IF k = 0 THEN x0 ELSE step[<<g[k - 1], k>>])
            = (IF k = 0 THEN x0 ELSE AllocInto(g[k - 1].mem, g[k - 1].list))
    BY <2>1, Zenon
  <2> HIDE DEF step
  <2>3. g = [k \in 0 .. n |-> IF k = 0 THEN x0 ELSE AllocInto(g[k - 1].mem, g[k - 1].list)]
    BY <1>4, <2>2, Zenon DEF IsLoop
  <2> QED
    BY <2>3, Zenon DEF GrowRun, x0
<1>6. GrowRun(f, m, n)
  <2> HIDE DEF step
  <2> QED
    BY <1>5, Zenon
<1>7. AllocMany(m, n) = f[n]
  BY Zenon DEF AllocMany, GrowRun
<1> HIDE DEF f, step
<1>8. ASSUME NEW k \in 1 .. n PROVE k \in 0 .. n /\ k # 0
  BY SMT
<1>9. 0 \in 0 .. n
  BY SMT
<1> QED
  BY <1>6, <1>7, <1>8, <1>9, Zenon DEF GrowRun

\* What the allocations for a new list have done: they are in the list, each
\* once, and nothing else was allocated.
Built(m, a) ==
  /\ a \in Allocations
  /\ a.mem.panic \in {m.panic, OutOfMemory}
  /\ Grown(m.regions, a.mem.regions, Listed(a.list))
  /\ Distinct(a.list)

\* Before the first alloc_pages nothing is listed and nothing has changed.
LEMMA BuiltStart ==
  ASSUME NEW m \in Memories
  PROVE  Built(m, [mem |-> m, list |-> <<>>])
<1> DEFINE a == [mem |-> m, list |-> <<>>]
<1>1. a.mem = m /\ a.list = <<>> /\ a \in Allocations /\ m.regions \in Tables
  BY ListedEmpty, SMT DEF Allocations, Memories
<1> HIDE DEF a
<1>2. Grown(m.regions, m.regions, {})
  BY <1>1, Zenon DEF Grown
<1> QED
  BY <1>1, <1>2, ListedEmpty, Zenon DEF Built, a

\* One more alloc_pages for the list keeps what Built says.
LEMMA BuiltStep ==
  ASSUME NEW m \in Memories, NEW a, Built(m, a)
  PROVE  Built(m, AllocInto(a.mem, a.list))
<1> DEFINE b == AllocInto(a.mem, a.list)
<1>1. a.mem \in Memories /\ a.list \in Seq(Slots)
  BY SMT DEF Built, Allocations
<1>2. /\ b \in Allocations
      /\ \/ /\ a.mem.panic = Running /\ b.mem.panic = Running
            /\ \E u \in Slots : b.list = Append(a.list, u)
                                /\ Grown(a.mem.regions, b.mem.regions, {u})
         \/ /\ b.mem.panic \in {a.mem.panic, OutOfMemory} \ {Running}
            /\ b.mem.regions = a.mem.regions /\ b.list = a.list
  BY <1>1, AllocIntoKeeps, Zenon
<1> HIDE DEF b
<1>3. ASSUME b.mem.panic \in {a.mem.panic, OutOfMemory} \ {Running},
             b.mem.regions = a.mem.regions, b.list = a.list
      PROVE  Built(m, b)
  BY <1>2, <1>3, Zenon DEF Built
<1>4. ASSUME a.mem.panic = Running, b.mem.panic = Running, NEW u \in Slots,
             b.list = Append(a.list, u), Grown(a.mem.regions, b.mem.regions, {u})
      PROVE  Built(m, b)
  <2>1. u \notin Listed(a.list)
    BY <1>4, Zenon DEF Built, Grown
  <2>2. Listed(b.list) = Listed(a.list) \cup {u} /\ Distinct(b.list)
    <3>1. /\ Listed(Append(a.list, u)) = Listed(a.list) \cup {u}
          /\ u \notin Listed(a.list) /\ Distinct(a.list) => Distinct(Append(a.list, u))
      BY <1>1, ListedAppend
    <3> QED
      BY <1>4, <2>1, <3>1, Zenon DEF Built
  <2>3. Grown(m.regions, b.mem.regions, Listed(b.list))
    <3>1. /\ AllocatedSlots(a.mem.regions) = AllocatedSlots(m.regions) \cup Listed(a.list)
          /\ AllocatedSlots(b.mem.regions) = AllocatedSlots(a.mem.regions) \cup {u}
          /\ u \notin AllocatedSlots(a.mem.regions) /\ b.mem.regions \in Tables
          /\ Listed(a.list) \cap AllocatedSlots(m.regions) = {}
          /\ \A i \in AllocatedSlots(m.regions) : a.mem.regions[i] = m.regions[i]
          /\ \A i \in AllocatedSlots(a.mem.regions) : b.mem.regions[i] = a.mem.regions[i]
      BY <1>4, Zenon DEF Built, Grown
    <3>2. AllocatedSlots(b.mem.regions) = AllocatedSlots(m.regions) \cup Listed(b.list)
      BY <2>2, <3>1, Zenon
    <3>3. Listed(b.list) \cap AllocatedSlots(m.regions) = {}
      BY <2>2, <3>1, Zenon
    <3>4. \A i \in AllocatedSlots(m.regions) : b.mem.regions[i] = m.regions[i]
      BY <3>1, Zenon
    <3> QED
      BY <3>1, <3>2, <3>3, <3>4, Zenon DEF Grown
  <2> QED
    BY <1>2, <1>4, <2>2, <2>3, Zenon DEF Built
<1>5. Built(m, b)
  BY <1>2, <1>3, <1>4, Zenon
<1> QED
  BY <1>5, Zenon DEF b

\* The allocations of create_process, however many there are.
LEMMA AllocManyKeeps ==
  ASSUME NEW m \in Memories, NEW n \in Nat
  PROVE  Built(m, AllocMany(m, n))
<1>1. PICK f : /\ AllocMany(m, n) = f[n]
               /\ f[0] = [mem |-> m, list |-> <<>>]
               /\ \A k \in 1 .. n : f[k] = AllocInto(f[k - 1].mem, f[k - 1].list)
  BY GrowRuns, Zenon
<1> DEFINE T == {k \in 0 .. n : Built(m, f[k])}
<1>2. 0 \in T
  <2>1. 0 \in 0 .. n
    BY SMT
  <2> QED
    BY <1>1, <2>1, BuiltStart, Zenon
<1>3. ASSUME NEW k \in 1 .. n, k - 1 \in T PROVE k \in T
  <2>1. k \in 0 .. n
    BY SMT
  <2> QED
    BY <1>1, <1>3, <2>1, BuiltStep, Zenon
<1>4. n \in T
  <2>1. 0 .. n \subseteq T /\ n \in 0 .. n
    <3> HIDE DEF T
    <3>1. n \in 0 .. n
      BY SMT
    <3> QED
      BY <1>2, <1>3, <3>1, Rounds, Zenon
  <2> QED
    BY <2>1, Zenon
<1> QED
  BY <1>1, <1>4, Zenon

-----------------------------------------------------------------------------
(* The allocations of the drivers at boot. *)

\* After k allocations at boot: slots 1 to k, as long as there was memory.
Booted(a, k) ==
  /\ a \in Allocations
  /\ a.mem.panic \in {Running, OutOfMemory}
  /\ AllocatedSlots(a.mem.regions) \subseteq 1 .. k
  /\ FreeSlots(a.mem.regions) \subseteq {0}
  /\ a.mem.panic = Running => AllocatedSlots(a.mem.regions) = 1 .. k

\* One more alloc_pages of the drivers takes the next slot.
LEMMA BootedStep ==
  ASSUME NEW k \in Nat, NEW a, Booted(a, k)
  PROVE  Booted(AllocInto(a.mem, a.list), k + 1)
<1> DEFINE b == AllocInto(a.mem, a.list)
           rs == a.mem.regions
<1>1. a.mem \in Memories /\ a.list \in Seq(Slots) /\ rs \in Tables
  BY SMT DEF Booted, Allocations, Memories
<1>2. b \in Allocations
  BY <1>1, AllocIntoKeeps, Zenon
<1>3. 1 .. k \subseteq 1 .. k + 1 /\ 1 .. k + 1 = 1 .. k \cup {k + 1}
  BY SMT
<1>4. CASE /\ b.mem.panic \in {a.mem.panic, OutOfMemory} \ {Running}
           /\ b.mem.regions = rs
  BY <1>2, <1>3, <1>4, Zenon DEF Booted
<1>5. CASE a.mem.panic = Running /\ CanAlloc(rs, 1)
  <2> DEFINE t == alloc_region(rs, 1)
             u == find_unused_region_slot(rs)
  <2>1. b.mem.regions = t /\ b.mem.panic = Running
    <3>1. b = [mem |-> [a.mem EXCEPT !.regions = t], list |-> Append(a.list, u)]
      BY <1>5, Zenon DEF AllocInto
    <3>2. b.mem = [a.mem EXCEPT !.regions = t]
      BY <3>1, SMT
    <3> QED
      BY <1>1, <1>5, <3>2, SMT DEF Memories
  <2>2. AllocatedSlots(t) = AllocatedSlots(rs) \cup {u}
    BY <1>1, <1>5, AllocKeeps, Zenon
  <2>3. IsTable(rs) /\ 1 \in Nat \ {0}
    BY <1>1, SMT DEF Tables, IsTable
  <2>4. PICK f \in SuitableSlots(rs, 1), v \in UnusedSlots(rs) :
             /\ v = u /\ f # v
             /\ t[v] = [start |-> rs[f].start, size |-> 1, state |-> "ALLOCATED"]
             /\ \A i \in Slots \ {f, v} : t[i] = rs[i]
    BY <1>5, <2>3, AllocEntries
  <2>5. f = 0
    BY Zenon DEF SuitableSlots, FreeSlots, Booted
  <2>6. u = k + 1
    <3>1. UnusedSlots(rs) = {i \in Slots : i > k}
      <4>1. rs \in [Slots -> Region]
        BY <1>1, Zenon DEF Tables
      <4>2. ASSUME NEW i \in Slots PROVE i \in UnusedSlots(rs) <=> i > k
        <5>1. i \in Nat
          BY SMT DEF Slots
        <5>2. rs[i].state \in {"UNUSED", "FREE", "ALLOCATED"}
          BY <4>1, SMT DEF Region, RegionState
        <5>3. rs[i].state = "ALLOCATED" <=> i \in 1 .. k
          BY <1>5, Zenon DEF Booted, AllocatedSlots
        <5>4. rs[i].state = "FREE" <=> i = 0
          BY <2>4, <2>5, Zenon DEF Booted, FreeSlots, SuitableSlots
        <5> QED
          BY <5>1, <5>2, <5>3, <5>4, SMT DEF UnusedSlots
      <4> QED
        BY <4>2, Zenon DEF UnusedSlots
    <3>2. u \in UnusedSlots(rs) /\ \A y \in UnusedSlots(rs) : u <= y
      <4>1. UnusedSlots(rs) \in SUBSET Nat /\ UnusedSlots(rs) # {}
        BY <1>5, SMT DEF UnusedSlots, Slots, CanAlloc
      <4> QED
        BY <4>1, MinIsFirst, Zenon DEF find_unused_region_slot
    <3> HIDE DEF u
    <3>3. u > k /\ u \in 0 .. MAX_REGIONS - 1
      BY <3>1, <3>2, Zenon DEF Slots
    <3>4. k + 1 \in Slots /\ k + 1 > k
      BY <3>3, RegionsAssumption, SMT DEF Slots
    <3>5. u <= k + 1
      BY <3>1, <3>2, <3>4, Zenon
    <3> QED
      BY <3>3, <3>5, SMT
  <2> HIDE DEF t
  <2>7. FreeSlots(t) \subseteq {0}
    <3> SUFFICES ASSUME NEW i \in FreeSlots(t), i # 0 PROVE FALSE
      BY Zenon
    <3>1. i \in Slots /\ t[i].state = "FREE"
      BY Zenon DEF FreeSlots
    <3>2. i # v
      BY <2>4, <3>1, SMT
    <3>3. t[i] = rs[i]
      BY <2>4, <2>5, <3>1, <3>2, Zenon
    <3> QED
      BY <3>1, <3>3, Zenon DEF Booted, FreeSlots
  <2> QED
    BY <1>2, <1>3, <1>5, <2>1, <2>2, <2>6, <2>7, Zenon DEF Booted
<1>6. (a.mem.panic = Running /\ CanAlloc(rs, 1))
      \/ (b.mem.panic \in {a.mem.panic, OutOfMemory} \ {Running} /\ b.mem.regions = rs)
  <2>1. CASE a.mem.panic # Running
    <3>1. b = [mem |-> a.mem, list |-> a.list]
      BY <2>1, Zenon DEF AllocInto
    <3>2. b.mem = a.mem
      BY <3>1, SMT
    <3> QED
      BY <2>1, <3>2, Zenon
  <2>2. CASE a.mem.panic = Running /\ ~ CanAlloc(rs, 1)
    <3>1. b = [mem |-> [a.mem EXCEPT !.panic = OutOfMemory], list |-> a.list]
      BY <2>2, Zenon DEF AllocInto
    <3>2. b.mem = [a.mem EXCEPT !.panic = OutOfMemory]
      BY <3>1, SMT
    <3>3. OutOfMemory # Running
      BY SMT DEF OutOfMemory, Running
    <3>4. b.mem.panic = OutOfMemory /\ b.mem.regions = rs
      BY <1>1, <3>2, SMT DEF Memories
    <3> QED
      BY <3>3, <3>4, Zenon
  <2> QED
    BY <2>1, <2>2, Zenon
<1> QED
  BY <1>4, <1>5, <1>6, Zenon

-----------------------------------------------------------------------------
(* Who owns which region. *)

\* One list gets the regions of N; the objects have the regions they had.
Lengthened(ps, qs, c, N) ==
  /\ \A p \in PSlots \ {c} : qs[p].regions = ps[p].regions
  /\ Listed(qs[c].regions) = Listed(ps[c].regions) \cup N
  /\ Distinct(qs[c].regions)
SameRegions(tb, ub) ==
  \A o \in OSlots : ub[o].used = tb[o].used /\ ub[o].region_idx = tb[o].region_idx

\* Regions that are allocated for a process go to its list.
LEMMA ListGrows ==
  ASSUME NEW rs, NEW ps, NEW tb, Owned(rs, ps, tb), Kept(rs, ps, tb), BootKept(rs),
         NEW t, NEW N, Grown(rs, t, N), NEW c \in PSlots, NEW qs, Lengthened(ps, qs, c, N),
         NEW ub, SameRegions(tb, ub)
  PROVE  Owned(t, qs, ub) /\ Kept(t, qs, ub) /\ BootKept(t)
<1> USE DEF Lengthened, SameRegions
<1>1. /\ AllocatedSlots(t) = AllocatedSlots(rs) \cup N
      /\ N \cap AllocatedSlots(rs) = {}
  BY Zenon DEF Grown
<1>2. N \cap (1 .. BOOT_REGIONS) = {}
  BY <1>1, Zenon DEF BootKept
<1>3. Held(t) = Held(rs) \cup N /\ N \cap Held(rs) = {}
  BY <1>1, <1>2, Zenon DEF Held
<1>4. \A p \in PSlots : Listed(ps[p].regions) \subseteq Held(rs)
  BY Zenon DEF Owned
<1>5. \A o \in OSlots : tb[o].used => tb[o].region_idx \in Held(rs)
  BY Zenon DEF Owned
<1>6. \A p \in PSlots : Listed(qs[p].regions) =
        IF p = c THEN Listed(ps[c].regions) \cup N ELSE Listed(ps[p].regions)
  BY Zenon
<1>7. \A p \in PSlots : Listed(qs[p].regions) \subseteq Held(t) /\ Distinct(qs[p].regions)
  <2> SUFFICES ASSUME NEW p \in PSlots
               PROVE  Listed(qs[p].regions) \subseteq Held(t) /\ Distinct(qs[p].regions)
    BY Zenon
  <2>1. CASE p = c
    BY <1>3, <1>4, <1>6, <2>1, Zenon
  <2>2. CASE p # c
    BY <1>3, <1>4, <1>6, <2>2, Zenon DEF Owned
  <2> QED
    BY <2>1, <2>2, Zenon
<1>8. ASSUME NEW p \in PSlots, NEW q \in PSlots, p # q
      PROVE  Listed(qs[p].regions) \cap Listed(qs[q].regions) = {}
  <2>1. Listed(ps[p].regions) \cap Listed(ps[q].regions) = {}
    BY <1>8, Zenon DEF Owned
  <2>2. CASE p = c
    BY <1>3, <1>4, <1>6, <1>8, <2>1, <2>2, Zenon
  <2>3. CASE q = c
    BY <1>3, <1>4, <1>6, <1>8, <2>1, <2>3, Zenon
  <2>4. CASE p # c /\ q # c
    BY <1>6, <2>1, <2>4, Zenon
  <2> QED
    BY <2>2, <2>3, <2>4, Zenon
<1>9. ASSUME NEW o \in OSlots, ub[o].used
      PROVE  /\ ub[o].region_idx \in Held(t)
             /\ \A p \in PSlots : ub[o].region_idx \notin Listed(qs[p].regions)
             /\ \A x \in OSlots \ {o} : ub[x].used => ub[x].region_idx # ub[o].region_idx
  <2>1. tb[o].used /\ ub[o].region_idx = tb[o].region_idx /\ tb[o].region_idx \in Held(rs)
    BY <1>5, <1>9, Zenon
  <2>2. \A p \in PSlots : tb[o].region_idx \notin Listed(qs[p].regions)
    BY <1>3, <1>6, <2>1, Zenon DEF Owned
  <2>3. \A x \in OSlots \ {o} : ub[x].used => ub[x].region_idx # ub[o].region_idx
    BY <2>1, Zenon DEF Owned
  <2> QED
    BY <1>3, <2>1, <2>2, <2>3, Zenon
<1>10. Owned(t, qs, ub)
  BY <1>7, <1>8, <1>9, Zenon DEF Owned
<1>11. Kept(t, qs, ub)
  <2> SUFFICES ASSUME NEW r \in Held(t) \ {0}
               PROVE  \/ \E p \in PSlots : r \in Listed(qs[p].regions)
                      \/ \E o \in OSlots : ub[o].used /\ ub[o].region_idx = r
    BY Zenon DEF Kept
  <2>1. CASE r \in N
    BY <1>6, <2>1, Zenon
  <2>2. CASE r \in Held(rs)
    <3>1. CASE \E p \in PSlots : r \in Listed(ps[p].regions)
      BY <1>6, <3>1, Zenon
    <3>2. CASE \E o \in OSlots : tb[o].used /\ tb[o].region_idx = r
      BY <3>2, Zenon
    <3> QED
      BY <2>2, <3>1, <3>2, Zenon DEF Kept
  <2> QED
    BY <1>3, <2>1, <2>2, Zenon
<1> QED
  BY <1>1, <1>10, <1>11, Zenon DEF BootKept

\* A free entry of the shm table is used.
Filled(tb, ub, o) ==
  /\ ~ tb[o].used /\ ub[o].used
  /\ \A x \in OSlots \ {o} : ub[x] = tb[x]

\* The region that shm_get allocates goes to the new object.
LEMMA ObjectGrows ==
  ASSUME NEW rs, NEW ps, NEW tb, Owned(rs, ps, tb), Kept(rs, ps, tb), BootKept(rs),
         NEW t, NEW o \in OSlots, NEW ub, Filled(tb, ub, o), Grown(rs, t, {ub[o].region_idx})
  PROVE  Owned(t, ps, ub) /\ Kept(t, ps, ub) /\ BootKept(t)
<1> USE DEF Filled
<1> DEFINE u == ub[o].region_idx
<1>1. /\ AllocatedSlots(t) = AllocatedSlots(rs) \cup {u} /\ u \notin AllocatedSlots(rs)
  BY Zenon DEF Grown
<1>2. u \notin 1 .. BOOT_REGIONS
  BY <1>1, Zenon DEF BootKept
<1>3. Held(t) = Held(rs) \cup {u} /\ u \notin Held(rs)
  BY <1>1, <1>2, Zenon DEF Held
<1>4. \A p \in PSlots : Listed(ps[p].regions) \subseteq Held(rs)
  BY Zenon DEF Owned
<1>5. \A x \in OSlots : tb[x].used => tb[x].region_idx \in Held(rs)
  BY Zenon DEF Owned
<1>6. ASSUME NEW x \in OSlots, ub[x].used
      PROVE  /\ ub[x].region_idx \in Held(t)
             /\ \A p \in PSlots : ub[x].region_idx \notin Listed(ps[p].regions)
             /\ \A y \in OSlots \ {x} : ub[y].used => ub[y].region_idx # ub[x].region_idx
  <2>1. CASE x = o
    BY <1>3, <1>4, <1>5, <2>1, Zenon
  <2>2. CASE x # o
    <3>1. ub[x] = tb[x] /\ tb[x].used /\ tb[x].region_idx \in Held(rs)
      BY <1>5, <1>6, <2>2, Zenon
    <3>2. \A y \in OSlots \ {x} : ub[y].used => ub[y].region_idx # ub[x].region_idx
      <4> SUFFICES ASSUME NEW y \in OSlots \ {x}, ub[y].used
                   PROVE  ub[y].region_idx # ub[x].region_idx
        BY Zenon
      <4>1. CASE y = o
        BY <1>3, <3>1, <4>1, Zenon
      <4>2. CASE y # o
        BY <3>1, <4>2, Zenon DEF Owned
      <4> QED
        BY <4>1, <4>2, Zenon
    <3>3. \A p \in PSlots : tb[x].region_idx \notin Listed(ps[p].regions)
      BY <3>1, Zenon DEF Owned
    <3> QED
      BY <1>3, <3>1, <3>2, <3>3, Zenon
  <2> QED
    BY <2>1, <2>2, Zenon
<1>7. Owned(t, ps, ub)
  <2>1. \A p \in PSlots : Listed(ps[p].regions) \subseteq Held(t) /\ Distinct(ps[p].regions)
    BY <1>3, <1>4, Zenon DEF Owned
  <2>2. \A p, q \in PSlots : p # q => Listed(ps[p].regions) \cap Listed(ps[q].regions) = {}
    BY Zenon DEF Owned
  <2> QED
    BY <1>6, <2>1, <2>2, Zenon DEF Owned
<1>8. Kept(t, ps, ub)
  <2> SUFFICES ASSUME NEW r \in Held(t) \ {0}
               PROVE  \/ \E p \in PSlots : r \in Listed(ps[p].regions)
                      \/ \E x \in OSlots : ub[x].used /\ ub[x].region_idx = r
    BY Zenon DEF Kept
  <2>1. CASE r = u
    BY <2>1, Zenon
  <2>2. CASE r \in Held(rs)
    <3>1. CASE \E p \in PSlots : r \in Listed(ps[p].regions)
      BY <3>1, Zenon
    <3>2. CASE \E x \in OSlots : tb[x].used /\ tb[x].region_idx = r
      BY <3>2, Zenon
    <3> QED
      BY <2>2, <3>1, <3>2, Zenon DEF Kept
  <2> QED
    BY <1>3, <2>1, <2>2, Zenon
<1> QED
  BY <1>1, <1>7, <1>8, Zenon DEF BootKept

\* The regions of M leave the lists, a list as a whole, and the objects.
Emptied(ps, qs, M) ==
  \A p \in PSlots : \/ qs[p].regions = ps[p].regions /\ Listed(ps[p].regions) \cap M = {}
                    \/ /\ Listed(qs[p].regions) = {} /\ Distinct(qs[p].regions)
                       /\ Listed(ps[p].regions) \subseteq M \cup {0}
Dropped(tb, ub, M) ==
  \A o \in OSlots : \/ /\ ub[o].used = tb[o].used /\ ub[o].region_idx = tb[o].region_idx
                       /\ tb[o].used => tb[o].region_idx \notin M
                    \/ ~ ub[o].used /\ (tb[o].used => tb[o].region_idx \in M)

\* Regions that are given back: those of M, all of which belonged to a list or
\* to an object that has them no longer.
LEMMA OwnersShrink ==
  ASSUME NEW rs, NEW ps, NEW tb, Owned(rs, ps, tb), Kept(rs, ps, tb), BootKept(rs),
         NEW t, NEW M, AllocatedSlots(t) = AllocatedSlots(rs) \ M,
         M \cap (1 .. BOOT_REGIONS) = {}, NEW qs, NEW ub,
         Emptied(ps, qs, M), Dropped(tb, ub, M)
  PROVE  Owned(t, qs, ub) /\ Kept(t, qs, ub) /\ BootKept(t)
<1>1. Held(t) = Held(rs) \ M
  BY Zenon DEF Held
<1>2. BootKept(t)
  BY Zenon DEF BootKept
<1>3. \A p \in PSlots : Listed(qs[p].regions) \subseteq Listed(ps[p].regions)
  BY Zenon DEF Emptied
<1>4. \A p \in PSlots : Listed(qs[p].regions) \subseteq Held(t) /\ Distinct(qs[p].regions)
  <2> SUFFICES ASSUME NEW p \in PSlots
               PROVE  Listed(qs[p].regions) \subseteq Held(t) /\ Distinct(qs[p].regions)
    BY Zenon
  <2>1. Listed(ps[p].regions) \subseteq Held(rs) /\ Distinct(ps[p].regions)
    BY Zenon DEF Owned
  <2> QED
    BY <1>1, <2>1, Zenon DEF Emptied
<1>5. \A p, q \in PSlots : p # q => Listed(qs[p].regions) \cap Listed(qs[q].regions) = {}
  BY <1>3, Zenon DEF Owned
<1>6. ASSUME NEW o \in OSlots, ub[o].used
      PROVE  /\ ub[o].region_idx \in Held(t)
             /\ \A p \in PSlots : ub[o].region_idx \notin Listed(qs[p].regions)
             /\ \A x \in OSlots \ {o} : ub[x].used => ub[x].region_idx # ub[o].region_idx
  <2>1. /\ tb[o].used /\ ub[o].region_idx = tb[o].region_idx /\ tb[o].region_idx \notin M
        /\ tb[o].region_idx \in Held(rs)
    BY <1>6, Zenon DEF Owned, Dropped
  <2>2. \A p \in PSlots : tb[o].region_idx \notin Listed(qs[p].regions)
    BY <1>3, <2>1, Zenon DEF Owned
  <2>3. \A x \in OSlots \ {o} : tb[x].used => tb[x].region_idx # tb[o].region_idx
    BY <2>1, Zenon DEF Owned
  <2>4. \A x \in OSlots : ub[x].used => tb[x].used /\ ub[x].region_idx = tb[x].region_idx
    BY Zenon DEF Dropped
  <2> QED
    BY <1>1, <2>1, <2>2, <2>3, <2>4, Zenon
<1>7. Owned(t, qs, ub)
  BY <1>4, <1>5, <1>6, Zenon DEF Owned
<1>8. Kept(t, qs, ub)
  <2> SUFFICES ASSUME NEW r \in Held(t) \ {0}
               PROVE  \/ \E p \in PSlots : r \in Listed(qs[p].regions)
                      \/ \E o \in OSlots : ub[o].used /\ ub[o].region_idx = r
    BY Zenon DEF Kept
  <2>1. r \in Held(rs) /\ r \notin M /\ r # 0
    BY <1>1, Zenon
  <2>2. ASSUME NEW p \in PSlots, r \in Listed(ps[p].regions)
        PROVE  r \in Listed(qs[p].regions)
    BY <2>1, <2>2, Zenon DEF Emptied
  <2>3. ASSUME NEW o \in OSlots, tb[o].used, tb[o].region_idx = r
        PROVE  ub[o].used /\ ub[o].region_idx = r
    BY <2>1, <2>3, Zenon DEF Dropped
  <2> QED
    BY <2>1, <2>2, <2>3, Zenon DEF Kept
<1> QED
  BY <1>2, <1>7, <1>8, Zenon

SameLists(ps, qs) == \A p \in PSlots : qs[p].regions = ps[p].regions

\* Nothing of the ownership changes.
LEMMA OwnersStay ==
  ASSUME NEW rs, NEW ps, NEW tb, Owned(rs, ps, tb), Kept(rs, ps, tb), NEW qs, NEW ub,
         SameLists(ps, qs), SameRegions(tb, ub)
  PROVE  Owned(rs, qs, ub) /\ Kept(rs, qs, ub)
<1> USE DEF SameLists, SameRegions
<1>1. \A p \in PSlots : Listed(qs[p].regions) \subseteq Held(rs) /\ Distinct(qs[p].regions)
  BY Zenon DEF Owned
<1>2. \A p, q \in PSlots : p # q => Listed(qs[p].regions) \cap Listed(qs[q].regions) = {}
  BY Zenon DEF Owned
<1>3. ASSUME NEW o \in OSlots, ub[o].used
      PROVE  /\ ub[o].region_idx \in Held(rs)
             /\ \A p \in PSlots : ub[o].region_idx \notin Listed(qs[p].regions)
             /\ \A x \in OSlots \ {o} : ub[x].used => ub[x].region_idx # ub[o].region_idx
  <2>1. tb[o].used /\ ub[o].region_idx = tb[o].region_idx
    BY <1>3, Zenon
  <2>2. /\ tb[o].region_idx \in Held(rs)
        /\ \A p \in PSlots : tb[o].region_idx \notin Listed(ps[p].regions)
        /\ \A x \in OSlots \ {o} : tb[x].used => tb[x].region_idx # tb[o].region_idx
    BY <2>1, Zenon DEF Owned
  <2> QED
    BY <2>1, <2>2, Zenon
<1>4. Owned(rs, qs, ub)
  BY <1>1, <1>2, <1>3, Zenon DEF Owned
<1>5. Kept(rs, qs, ub)
  <2> SUFFICES ASSUME NEW r \in Held(rs) \ {0}
               PROVE  \/ \E p \in PSlots : r \in Listed(qs[p].regions)
                      \/ \E o \in OSlots : ub[o].used /\ ub[o].region_idx = r
    BY Zenon DEF Kept
  <2>1. CASE \E p \in PSlots : r \in Listed(ps[p].regions)
    BY <2>1, Zenon
  <2>2. CASE \E o \in OSlots : tb[o].used /\ tb[o].region_idx = r
    BY <2>2, Zenon
  <2> QED
    BY <2>1, <2>2, Zenon DEF Kept
<1> QED
  BY <1>4, <1>5, Zenon

-----------------------------------------------------------------------------
(* The shm table and the mappings. *)

\* There are finitely many mappings, so that they can be counted.
LEMMA MapsFinite ==
  ASSUME NEW ps, NEW id
  PROVE  IsFiniteSet(Maps(ps, id)) /\ Cardinality(Maps(ps, id)) \in Nat
<1>1. IsFiniteSet(PSlots) /\ IsFiniteSet(MSlots)
  <2>1. PROCS_MAX - 1 \in Int /\ PROC_SHM_MAX - 1 \in Int /\ 0 \in Int
    BY SchedulerAssumption, ProcessesAssumption, SMT
  <2> QED
    BY <2>1, FS_Interval, Zenon DEF PSlots, MSlots
<1>2. IsFiniteSet(PSlots \X MSlots)
  BY <1>1, FS_Product, Zenon
<1>3. Maps(ps, id) \in SUBSET (PSlots \X MSlots)
  BY Zenon DEF Maps
<1>4. IsFiniteSet(Maps(ps, id))
  BY <1>2, <1>3, FS_Subset, Zenon
<1> QED
  BY <1>4, FS_CardinalityType, Zenon

\* The same mappings, and objects whose regions stay where they are.
SameMappings(ps, qs) ==
  \A p \in PSlots, i \in MSlots : qs[p].shm_mappings[i] = ps[p].shm_mappings[i]
InPlace(tb, rs, t) == \A o \in OSlots : tb[o].used => t[tb[o].region_idx] = rs[tb[o].region_idx]

\* The mappings of an object depend on nothing but the shm_mappings arrays.
LEMMA MapsSame ==
  ASSUME NEW ps, NEW qs, NEW id, SameMappings(ps, qs)
  PROVE  Maps(qs, id) = Maps(ps, id)
<1> USE DEF SameMappings
<1>1. ASSUME NEW m \in PSlots \X MSlots
      PROVE  qs[m[1]].shm_mappings[m[2]] = ps[m[1]].shm_mappings[m[2]]
  <2>1. m[1] \in PSlots /\ m[2] \in MSlots
    BY Zenon
  <2> QED
    BY <2>1, Zenon
<1> QED
  BY <1>1, Zenon DEF Maps

\* The objects of tb with their ids and pages.
Outlast(tb, ub) ==
  \A o \in OSlots : tb[o].used => ub[o].used /\ ub[o].id = tb[o].id /\ ub[o].pa = tb[o].pa

\* A mapping stays one of an object while the object keeps its id and page.
LEMMA OfObjectStays ==
  ASSUME NEW map, NEW tb, OfObject(map, tb), NEW ub, Outlast(tb, ub)
  PROVE  OfObject(map, ub)
<1> USE DEF Outlast
<1>1. ASSUME map.used
      PROVE  \E o \in OSlots : ub[o].used /\ ub[o].id = map.shm_id /\ ub[o].pa = map.pa
  <2>1. PICK o \in OSlots : tb[o].used /\ tb[o].id = map.shm_id /\ tb[o].pa = map.pa
    BY <1>1, Zenon DEF OfObject
  <2> QED
    BY <2>1, Zenon
<1>2. ~ map.used => map = NoMapping
  BY Zenon DEF OfObject
<1> QED
  BY <1>1, <1>2, Zenon DEF OfObject

\* Nothing of shared memory changes: the objects' regions stay in place.
LEMMA SharedStays ==
  ASSUME NEW rs, NEW ps, NEW tb, NEW nx, Shared(rs, ps, tb, nx), NEW t, NEW qs,
         SameMappings(ps, qs), InPlace(tb, rs, t)
  PROVE  Shared(t, qs, tb, nx)
<1> USE DEF SameMappings, InPlace
<1>1. \A id : Maps(qs, id) = Maps(ps, id)
  BY MapsSame, Zenon
<1>2. ASSUME NEW o \in OSlots, tb[o].used
      PROVE  /\ tb[o].id \in 1 .. nx - 1
             /\ tb[o].pa = t[tb[o].region_idx].start
             /\ tb[o].refcount = Cardinality(Maps(qs, tb[o].id))
             /\ \A x \in OSlots \ {o} : tb[x].used => tb[x].id # tb[o].id
  BY <1>1, <1>2, Zenon DEF Shared
<1>3. ASSUME NEW p \in PSlots, NEW i \in MSlots
      PROVE  OfObject(qs[p].shm_mappings[i], tb)
  BY Zenon DEF Shared
<1> QED
  BY <1>2, <1>3, Zenon DEF Shared

\* A new object has an id that no mapping has.
LEMMA SharedNew ==
  ASSUME NEW rs, NEW ps, NEW tb, NEW nx \in Nat, Shared(rs, ps, tb, nx), nx >= 1, NEW t,
         InPlace(tb, rs, t), NEW o \in OSlots, NEW ub, Filled(tb, ub, o),
         ub[o].id = nx, ub[o].pa = t[ub[o].region_idx].start, ub[o].refcount = 0
  PROVE  Shared(t, ps, ub, nx + 1)
<1> USE DEF InPlace, Filled
<1>1. /\ \A x \in OSlots : tb[x].used => tb[x].id \in 1 .. nx - 1
      /\ \A p \in PSlots, i \in MSlots :
           OfObject(ps[p].shm_mappings[i], tb)
  BY Zenon DEF Shared
<1>2. nx \notin 1 .. nx - 1 /\ nx \in 1 .. (nx + 1) - 1 /\ 1 .. nx - 1 \subseteq 1 .. (nx + 1) - 1
  BY SMT
<1>3. Maps(ps, nx) = {}
  <2>1. ASSUME NEW m \in Maps(ps, nx) PROVE FALSE
    <3>1. /\ m[1] \in PSlots /\ m[2] \in MSlots /\ ps[m[1]].shm_mappings[m[2]].used
          /\ ps[m[1]].shm_mappings[m[2]].shm_id = nx
      BY Zenon DEF Maps
    <3>2. PICK x \in OSlots : tb[x].used /\ tb[x].id = ps[m[1]].shm_mappings[m[2]].shm_id
      <4>1. OfObject(ps[m[1]].shm_mappings[m[2]], tb)
        BY <1>1, <3>1, Zenon
      <4> QED
        BY <3>1, <4>1, Zenon DEF OfObject
    <3> QED
      BY <1>1, <1>2, <3>1, <3>2, Zenon
  <2> QED
    BY <2>1, Zenon
<1>4. Cardinality(Maps(ps, nx)) = 0
  BY <1>3, FS_EmptySet, Zenon
<1>5. ASSUME NEW x \in OSlots, ub[x].used
      PROVE  /\ ub[x].id \in 1 .. (nx + 1) - 1
             /\ ub[x].pa = t[ub[x].region_idx].start
             /\ ub[x].refcount = Cardinality(Maps(ps, ub[x].id))
             /\ \A y \in OSlots \ {x} : ub[y].used => ub[y].id # ub[x].id
  <2>1. CASE x = o
    BY <1>1, <1>2, <1>4, <2>1, Zenon
  <2>2. CASE x # o
    <3>1. ub[x] = tb[x] /\ tb[x].used /\ tb[x].id \in 1 .. nx - 1
      BY <1>1, <1>5, <2>2, Zenon
    <3>2. tb[x].pa = t[tb[x].region_idx].start /\ tb[x].refcount = Cardinality(Maps(ps, tb[x].id))
      BY <3>1, Zenon DEF Shared
    <3>3. ASSUME NEW y \in OSlots \ {x}, ub[y].used PROVE ub[y].id # ub[x].id
      <4>1. CASE y = o
        BY <1>2, <3>1, <4>1, Zenon
      <4>2. CASE y # o
        <5>1. ub[y] = tb[y] /\ tb[y].used
          BY <3>3, <4>2, Zenon
        <5>2. \A z \in OSlots \ {x} : tb[z].used => tb[z].id # tb[x].id
          BY <3>1, Zenon DEF Shared
        <5> QED
          BY <3>1, <3>3, <5>1, <5>2, Zenon
      <4> QED
        BY <4>1, <4>2, Zenon
    <3> QED
      BY <1>2, <3>1, <3>2, <3>3, Zenon
  <2> QED
    BY <2>1, <2>2, Zenon
<1>6. ASSUME NEW p \in PSlots, NEW i \in MSlots
      PROVE  OfObject(ps[p].shm_mappings[i], ub)
  <2>1. Outlast(tb, ub)
    BY Zenon DEF Outlast
  <2>2. OfObject(ps[p].shm_mappings[i], tb)
    BY <1>1, Zenon
  <2> QED
    BY <2>1, <2>2, OfObjectStays, Zenon
<1> QED
  BY <1>5, <1>6, Zenon DEF Shared

\* The one mapping that differs, and the one count.
Mapped(ps, qs, c, s, map) ==
  /\ qs[c].shm_mappings[s] = map
  /\ \A p \in PSlots, i \in MSlots :
       ~ (p = c /\ i = s) => qs[p].shm_mappings[i] = ps[p].shm_mappings[i]
Counts(tb, ub, o, n) ==
  /\ \A x \in OSlots \ {o} : ub[x] = tb[x]
  /\ ub[o].used /\ ub[o].id = tb[o].id /\ ub[o].pa = tb[o].pa
  /\ ub[o].region_idx = tb[o].region_idx /\ ub[o].refcount = n

\* One mapping more, and the count of its object with it.
LEMMA SharedAttach ==
  ASSUME NEW rs, NEW ps, NEW tb, NEW nx, Shared(rs, ps, tb, nx), NEW t,
         InPlace(tb, rs, t), NEW o \in OSlots, tb[o].used, NEW ub, Counts(tb, ub, o, tb[o].refcount + 1),
         NEW c \in PSlots, NEW s \in MSlots, ~ ps[c].shm_mappings[s].used,
         NEW map, map.used, map.shm_id = tb[o].id, map.pa = tb[o].pa,
         NEW qs, Mapped(ps, qs, c, s, map)
  PROVE  Shared(t, qs, ub, nx)
<1> USE DEF Mapped, Counts, InPlace
<1>1. \A x \in OSlots : ub[x].used = tb[x].used /\ ub[x].id = tb[x].id /\ ub[x].pa = tb[x].pa
                        /\ ub[x].region_idx = tb[x].region_idx
  <2> SUFFICES ASSUME NEW x \in OSlots
               PROVE  ub[x].used = tb[x].used /\ ub[x].id = tb[x].id /\ ub[x].pa = tb[x].pa
                      /\ ub[x].region_idx = tb[x].region_idx
    BY Zenon
  <2>1. CASE x = o
    BY <2>1, Zenon
  <2>2. CASE x # o
    BY <2>2, Zenon
  <2> QED
    BY <2>1, <2>2, Zenon
<1>2. <<c, s>> \in PSlots \X MSlots /\ <<c, s>>[1] = c /\ <<c, s>>[2] = s
  BY SMT
<1>3. ASSUME NEW m \in PSlots \X MSlots
      PROVE  /\ m[1] \in PSlots /\ m[2] \in MSlots
             /\ m = <<c, s>> <=> m[1] = c /\ m[2] = s
  BY SMT
<1>4. <<c, s>> \notin Maps(ps, tb[o].id)
  BY <1>2, Zenon DEF Maps
<1>5. Maps(qs, tb[o].id) = Maps(ps, tb[o].id) \cup {<<c, s>>}
  <2>1. ASSUME NEW m \in PSlots \X MSlots
        PROVE  m \in Maps(qs, tb[o].id) <=> m \in Maps(ps, tb[o].id) \/ m = <<c, s>>
    <3>1. CASE m = <<c, s>>
      BY <1>2, <3>1, Zenon DEF Maps
    <3>2. CASE m # <<c, s>>
      BY <1>3, <3>2, Zenon DEF Maps
    <3> QED
      BY <3>1, <3>2, Zenon
  <2>2. \A id : Maps(qs, id) \subseteq PSlots \X MSlots /\ Maps(ps, id) \subseteq PSlots \X MSlots
    BY Zenon DEF Maps
  <2> QED
    BY <1>2, <2>1, <2>2, Zenon
<1>6. ASSUME NEW id, id # tb[o].id PROVE Maps(qs, id) = Maps(ps, id)
  <2>1. ASSUME NEW m \in PSlots \X MSlots
        PROVE  m \in Maps(qs, id) <=> m \in Maps(ps, id)
    <3>1. CASE m = <<c, s>>
      BY <1>2, <1>6, <3>1, Zenon DEF Maps
    <3>2. CASE m # <<c, s>>
      BY <1>3, <3>2, Zenon DEF Maps
    <3> QED
      BY <3>1, <3>2, Zenon
  <2>2. Maps(qs, id) \subseteq PSlots \X MSlots /\ Maps(ps, id) \subseteq PSlots \X MSlots
    BY Zenon DEF Maps
  <2> QED
    BY <2>1, <2>2, Zenon
<1>7. Cardinality(Maps(qs, tb[o].id)) = Cardinality(Maps(ps, tb[o].id)) + 1
  <2>1. IsFiniteSet(Maps(ps, tb[o].id))
    BY MapsFinite, Zenon
  <2> QED
    BY <1>4, <1>5, <2>1, FS_AddElement, Zenon
<1>8. ASSUME NEW x \in OSlots, ub[x].used
      PROVE  /\ ub[x].id \in 1 .. nx - 1
             /\ ub[x].pa = t[ub[x].region_idx].start
             /\ ub[x].refcount = Cardinality(Maps(qs, ub[x].id))
             /\ \A y \in OSlots \ {x} : ub[y].used => ub[y].id # ub[x].id
  <2>1. /\ tb[x].used /\ tb[x].id \in 1 .. nx - 1 /\ tb[x].pa = rs[tb[x].region_idx].start
        /\ tb[x].refcount = Cardinality(Maps(ps, tb[x].id))
        /\ \A y \in OSlots \ {x} : tb[y].used => tb[y].id # tb[x].id
    BY <1>1, <1>8, Zenon DEF Shared
  <2>2. ub[x].refcount = Cardinality(Maps(qs, tb[x].id))
    <3>1. CASE x = o
      BY <1>7, <2>1, <3>1, Zenon
    <3>2. CASE x # o
      BY <1>6, <2>1, <3>2, Zenon
    <3> QED
      BY <3>1, <3>2, Zenon
  <2>3. /\ ub[x].id = tb[x].id /\ ub[x].pa = tb[x].pa /\ ub[x].region_idx = tb[x].region_idx
        /\ \A y \in OSlots : ub[y].used = tb[y].used /\ ub[y].id = tb[y].id
        /\ t[tb[x].region_idx] = rs[tb[x].region_idx]
    BY <1>1, <2>1, Zenon
  <2>4. ub[x].id \in 1 .. nx - 1 /\ ub[x].pa = t[ub[x].region_idx].start
    BY <2>1, <2>3, Zenon
  <2>5. \A y \in OSlots \ {x} : ub[y].used => ub[y].id # ub[x].id
    BY <2>1, <2>3, Zenon
  <2> QED
    BY <2>2, <2>3, <2>4, <2>5, Zenon
<1>9. ASSUME NEW p \in PSlots, NEW i \in MSlots
      PROVE  OfObject(qs[p].shm_mappings[i], ub)
  <2>1. CASE p = c /\ i = s
    BY <2>1, Zenon DEF OfObject
  <2>2. CASE ~ (p = c /\ i = s)
    <3>1. qs[p].shm_mappings[i] = ps[p].shm_mappings[i]
      BY <2>2, Zenon
    <3>2. OfObject(ps[p].shm_mappings[i], tb)
      BY Zenon DEF Shared
    <3>3. Outlast(tb, ub)
      BY <1>1, Zenon DEF Outlast
    <3> QED
      BY <3>1, <3>2, <3>3, OfObjectStays, Zenon
  <2> QED
    BY <2>1, <2>2, Zenon
<1> QED
  BY <1>8, <1>9, Zenon DEF Shared

\* One mapping of the object d less.
OneLess(ps, qs, d) ==
  /\ Cardinality(Maps(qs, d)) = Cardinality(Maps(ps, d)) - 1
  /\ \A id : id # d => Maps(qs, id) = Maps(ps, id)

\* Clearing one used mapping takes it from the mappings of its id.
LEMMA MapsDrop ==
  ASSUME NEW ps, NEW c \in PSlots, NEW s \in MSlots, ps[c].shm_mappings[s].used, NEW qs,
         Mapped(ps, qs, c, s, NoMapping)
  PROVE  OneLess(ps, qs, ps[c].shm_mappings[s].shm_id)
<1> DEFINE d == ps[c].shm_mappings[s].shm_id
<1> USE DEF Mapped
<1>1. <<c, s>> \in PSlots \X MSlots /\ <<c, s>>[1] = c /\ <<c, s>>[2] = s
  BY SMT
<1>2. ASSUME NEW m \in PSlots \X MSlots
      PROVE  /\ m[1] \in PSlots /\ m[2] \in MSlots
             /\ m = <<c, s>> <=> m[1] = c /\ m[2] = s
  BY SMT
<1>3. <<c, s>> \in Maps(ps, d)
  BY <1>1, Zenon DEF Maps
<1>4. ~ NoMapping.used
  BY SMT DEF NoMapping
<1>5. \A id : Maps(qs, id) \subseteq PSlots \X MSlots /\ Maps(ps, id) \subseteq PSlots \X MSlots
  BY Zenon DEF Maps
<1>6. \A id : <<c, s>> \notin Maps(qs, id)
  BY <1>1, <1>4, Zenon DEF Maps
<1>7. \A id, m : m \in PSlots \X MSlots /\ m # <<c, s>> =>
                   (m \in Maps(qs, id) <=> m \in Maps(ps, id))
  BY <1>2, ZenonT(40) DEF Maps
<1>8. Maps(qs, d) = Maps(ps, d) \ {<<c, s>>}
  BY <1>5, <1>6, <1>7, Zenon
<1>9. Cardinality(Maps(qs, d)) = Cardinality(Maps(ps, d)) - 1
  <2>1. IsFiniteSet(Maps(ps, d))
    BY MapsFinite, Zenon
  <2> HIDE DEF d
  <2>2. Cardinality(Maps(ps, d) \ {<<c, s>>}) = Cardinality(Maps(ps, d)) - 1
    BY <1>3, <2>1, FS_RemoveElement, Zenon
  <2> QED
    BY <1>8, <2>2, Zenon
<1>10. ASSUME NEW id, id # d PROVE Maps(qs, id) = Maps(ps, id)
  <2>1. <<c, s>> \notin Maps(ps, id)
    BY <1>1, <1>10, Zenon DEF Maps
  <2> HIDE DEF d
  <2>2. ASSUME NEW m \in PSlots \X MSlots PROVE m \in Maps(qs, id) <=> m \in Maps(ps, id)
    <3>1. CASE m = <<c, s>>
      BY <1>6, <2>1, <3>1, Zenon
    <3>2. CASE m # <<c, s>>
      BY <1>7, <3>2, Zenon
    <3> QED
      BY <3>1, <3>2, Zenon
  <2> QED
    BY <1>5, <2>2, Zenon
<1> QED
  BY <1>9, <1>10, Zenon DEF OneLess

\* A mapping goes and others of its object stay.
LEMMA SharedDetach ==
  ASSUME NEW rs, NEW ps, NEW tb, NEW nx, Shared(rs, ps, tb, nx),
         NEW o \in OSlots, tb[o].used, NEW ub, Counts(tb, ub, o, tb[o].refcount - 1),
         NEW c \in PSlots, NEW s \in MSlots, ps[c].shm_mappings[s].used,
         tb[o].id = ps[c].shm_mappings[s].shm_id, NEW qs, Mapped(ps, qs, c, s, NoMapping)
  PROVE  Shared(rs, qs, ub, nx)
<1>1. /\ Cardinality(Maps(qs, tb[o].id)) = Cardinality(Maps(ps, tb[o].id)) - 1
      /\ \A id : id # tb[o].id => Maps(qs, id) = Maps(ps, id)
  <2>1. OneLess(ps, qs, ps[c].shm_mappings[s].shm_id)
    BY MapsDrop, Zenon
  <2> QED
    BY <2>1, Zenon DEF OneLess
<1> USE DEF Counts, Mapped
<1>2. \A x \in OSlots : ub[x].used = tb[x].used /\ ub[x].id = tb[x].id /\ ub[x].pa = tb[x].pa
                        /\ ub[x].region_idx = tb[x].region_idx
  <2> SUFFICES ASSUME NEW x \in OSlots
               PROVE  ub[x].used = tb[x].used /\ ub[x].id = tb[x].id /\ ub[x].pa = tb[x].pa
                      /\ ub[x].region_idx = tb[x].region_idx
    BY Zenon
  <2>1. CASE x = o
    BY <2>1, Zenon
  <2>2. CASE x # o
    BY <2>2, Zenon
  <2> QED
    BY <2>1, <2>2, Zenon
<1>3. ASSUME NEW x \in OSlots, ub[x].used
      PROVE  /\ ub[x].id \in 1 .. nx - 1
             /\ ub[x].pa = rs[ub[x].region_idx].start
             /\ ub[x].refcount = Cardinality(Maps(qs, ub[x].id))
             /\ \A y \in OSlots \ {x} : ub[y].used => ub[y].id # ub[x].id
  <2>1. /\ tb[x].used /\ tb[x].id \in 1 .. nx - 1 /\ tb[x].pa = rs[tb[x].region_idx].start
        /\ tb[x].refcount = Cardinality(Maps(ps, tb[x].id))
        /\ \A y \in OSlots \ {x} : tb[y].used => tb[y].id # tb[x].id
    BY <1>2, <1>3, Zenon DEF Shared
  <2>2. ub[x].refcount = Cardinality(Maps(qs, tb[x].id))
    <3>1. CASE x = o
      BY <1>1, <2>1, <3>1, Zenon
    <3>2. CASE x # o
      BY <1>1, <2>1, <3>2, Zenon
    <3> QED
      BY <3>1, <3>2, Zenon
  <2> QED
    BY <1>2, <2>1, <2>2, Zenon
<1>4. ASSUME NEW p \in PSlots, NEW i \in MSlots
      PROVE  OfObject(qs[p].shm_mappings[i], ub)
  <2>1. CASE p = c /\ i = s
    <3>1. ~ NoMapping.used
      BY SMT DEF NoMapping
    <3> QED
      BY <2>1, <3>1, Zenon DEF OfObject
  <2>2. CASE ~ (p = c /\ i = s)
    <3>1. qs[p].shm_mappings[i] = ps[p].shm_mappings[i]
      BY <2>2, Zenon
    <3>2. OfObject(ps[p].shm_mappings[i], tb)
      BY Zenon DEF Shared
    <3>3. Outlast(tb, ub)
      BY <1>2, Zenon DEF Outlast
    <3> QED
      BY <3>1, <3>2, <3>3, OfObjectStays, Zenon
  <2> QED
    BY <2>1, <2>2, Zenon
<1> QED
  BY <1>3, <1>4, Zenon DEF Shared

\* An object goes, and the regions of the others stay where they are.
Removed(tb, ub, o, rs, t) ==
  /\ ~ ub[o].used /\ \A x \in OSlots \ {o} : ub[x] = tb[x]
  /\ \A x \in OSlots \ {o} : tb[x].used => t[tb[x].region_idx] = rs[tb[x].region_idx]

\* The last mapping goes, and its object with it.
LEMMA SharedLast ==
  ASSUME NEW rs, NEW ps, NEW tb, NEW nx, Shared(rs, ps, tb, nx), NEW t,
         NEW o \in OSlots, tb[o].used, NEW ub, Removed(tb, ub, o, rs, t),
         ~ (tb[o].refcount - 1 > 0),
         NEW c \in PSlots, NEW s \in MSlots, ps[c].shm_mappings[s].used,
         tb[o].id = ps[c].shm_mappings[s].shm_id, NEW qs, Mapped(ps, qs, c, s, NoMapping)
  PROVE  Shared(t, qs, ub, nx)
<1>1. /\ Cardinality(Maps(qs, tb[o].id)) = Cardinality(Maps(ps, tb[o].id)) - 1
      /\ \A id : id # tb[o].id => Maps(qs, id) = Maps(ps, id)
  <2>1. OneLess(ps, qs, ps[c].shm_mappings[s].shm_id)
    BY MapsDrop, Zenon
  <2> QED
    BY <2>1, Zenon DEF OneLess
<1> USE DEF Removed, Mapped
<1>2. Maps(qs, tb[o].id) = {}
  <2>1. tb[o].refcount = Cardinality(Maps(ps, tb[o].id))
    BY Zenon DEF Shared
  <2>2. /\ Cardinality(Maps(ps, tb[o].id)) \in Nat
        /\ Cardinality(Maps(qs, tb[o].id)) \in Nat /\ IsFiniteSet(Maps(qs, tb[o].id))
    BY MapsFinite, Zenon
  <2>3. Cardinality(Maps(qs, tb[o].id)) = 0
    BY <1>1, <2>1, <2>2, SMT
  <2> QED
    BY <2>2, <2>3, FS_EmptySet, Zenon
<1>3. ASSUME NEW x \in OSlots, ub[x].used
      PROVE  /\ ub[x].id \in 1 .. nx - 1
             /\ ub[x].pa = t[ub[x].region_idx].start
             /\ ub[x].refcount = Cardinality(Maps(qs, ub[x].id))
             /\ \A y \in OSlots \ {x} : ub[y].used => ub[y].id # ub[x].id
  <2>1. x # o /\ ub[x] = tb[x] /\ tb[x].used
    BY <1>3, Zenon
  <2>2. /\ tb[x].id \in 1 .. nx - 1 /\ tb[x].pa = rs[tb[x].region_idx].start
        /\ tb[x].refcount = Cardinality(Maps(ps, tb[x].id))
        /\ \A y \in OSlots \ {x} : tb[y].used => tb[y].id # tb[x].id
    BY <2>1, Zenon DEF Shared
  <2>3. tb[x].id # tb[o].id
    BY <2>1, <2>2, Zenon
  <2>4. \A y \in OSlots : ub[y].used => ub[y] = tb[y]
    BY Zenon
  <2>5. Maps(qs, tb[x].id) = Maps(ps, tb[x].id)
    BY <1>1, <2>3, Zenon
  <2>6. t[tb[x].region_idx] = rs[tb[x].region_idx]
    BY <2>1, Zenon
  <2>7. \A y \in OSlots \ {x} : ub[y].used => ub[y].id # ub[x].id
    BY <2>1, <2>2, <2>4, Zenon
  <2> QED
    BY <2>1, <2>2, <2>5, <2>6, <2>7, Zenon
<1>4. ASSUME NEW p \in PSlots, NEW i \in MSlots
      PROVE  OfObject(qs[p].shm_mappings[i], ub)
  <2>1. CASE p = c /\ i = s
    <3>1. ~ NoMapping.used
      BY SMT DEF NoMapping
    <3> QED
      BY <2>1, <3>1, Zenon DEF OfObject
  <2>2. CASE ~ (p = c /\ i = s)
    <3> DEFINE map == qs[p].shm_mappings[i]
    <3>1. map = ps[p].shm_mappings[i]
      BY <2>2, Zenon
    <3>2. OfObject(map, tb)
      BY <3>1, Zenon DEF Shared
    <3>3. ASSUME map.used PROVE map.shm_id # tb[o].id
      <4>1. <<p, i>> \in PSlots \X MSlots /\ <<p, i>>[1] = p /\ <<p, i>>[2] = i
        BY SMT
      <4>2. map.shm_id = tb[o].id => <<p, i>> \in Maps(qs, tb[o].id)
        BY <3>3, <4>1, Zenon DEF Maps
      <4> QED
        BY <1>2, <4>2, Zenon
    <3> HIDE DEF map
    <3>4. ASSUME map.used
          PROVE  \E x \in OSlots : ub[x].used /\ ub[x].id = map.shm_id /\ ub[x].pa = map.pa
      <4>1. PICK x \in OSlots : tb[x].used /\ tb[x].id = map.shm_id /\ tb[x].pa = map.pa
        BY <3>2, <3>4, Zenon DEF OfObject
      <4>2. x # o
        BY <3>3, <3>4, <4>1, Zenon
      <4>3. ub[x] = tb[x]
        BY <4>2, Zenon
      <4> QED
        BY <4>1, <4>3, Zenon
    <3>5. OfObject(map, ub)
      BY <3>2, <3>4, Zenon DEF OfObject
    <3> QED
      BY <3>5, Zenon DEF map
  <2> QED
    BY <2>1, <2>2, Zenon
<1> QED
  BY <1>3, <1>4, Zenon DEF Shared

-----------------------------------------------------------------------------
(* Detaching. *)

\* What Detach works on: the memory, the process and the shm table.
Kernels == [mem : Memories, proc : Process, table : [OSlots -> ShmObject]]

\* release_pages of an allocated region, and its PANIC for any other.
LEMMA ReleaseType ==
  ASSUME NEW m \in Memories, NEW r
  PROVE  /\ Release(m, r) \in Memories
         /\ m.panic = Running /\ r \in AllocatedSlots(m.regions) =>
              /\ Release(m, r).panic = Running
              /\ AllocatedSlots(Release(m, r).regions) = AllocatedSlots(m.regions) \ {r}
              /\ \A i \in AllocatedSlots(m.regions) \ {r} : Release(m, r).regions[i] = m.regions[i]
<1>1. m.regions \in Tables /\ m.panic \in Status /\ m = [regions |-> m.regions, panic |-> m.panic]
  BY SMT DEF Memories
<1>2. CASE m.panic # Running
  BY <1>2, Zenon DEF Release
<1>3. CASE m.panic = Running /\ r \notin AllocatedSlots(m.regions)
  <2>1. Release(m, r) = [m EXCEPT !.panic = NotAllocated]
    BY <1>3, Zenon DEF Release
  <2>2. NotAllocated \in Status
    BY Zenon DEF Status
  <2>3. [m EXCEPT !.panic = NotAllocated] \in Memories
    BY <1>1, <2>2, SMT DEF Memories
  <2> QED
    BY <1>3, <2>1, <2>3, Zenon
<1>4. CASE m.panic = Running /\ r \in AllocatedSlots(m.regions)
  <2> DEFINE t == release_pages(m.regions, r)
  <2>1. Release(m, r) = [m EXCEPT !.regions = t]
    BY <1>4, Zenon DEF Release
  <2>2. /\ t \in Tables /\ AllocatedSlots(t) = AllocatedSlots(m.regions) \ {r}
        /\ \A i \in AllocatedSlots(m.regions) \ {r} : t[i] = m.regions[i]
    BY <1>1, <1>4, ReleaseKeeps, Zenon
  <2> HIDE DEF t
  <2>3. [m EXCEPT !.regions = t] \in Memories /\ [m EXCEPT !.regions = t].regions = t
        /\ [m EXCEPT !.regions = t].panic = m.panic
    BY <1>1, <2>2, SMT DEF Memories
  <2> QED
    BY <1>4, <2>1, <2>2, <2>3, Zenon
<1> QED
  BY <1>2, <1>3, <1>4, Zenon

\* A process with one mapping cleared.
Cleared(p, i) == [p EXCEPT !.shm_mappings[i] = NoMapping]

\* Clearing a mapping touches nothing else of the process.
LEMMA ClearedIs ==
  ASSUME NEW p \in Process, NEW i \in MSlots
  PROVE  /\ Cleared(p, i) \in Process
         /\ Cleared(p, i).regions = p.regions /\ Cleared(p, i).shm_mappings[i] = NoMapping
         /\ \A j \in MSlots \ {i} : Cleared(p, i).shm_mappings[j] = p.shm_mappings[j]
<1>1. NoMapping \in Mapping
  BY ProcessesAssumption, SMT DEF NoMapping, Mapping
<1> QED
  BY <1>1, SMT DEF Cleared, Process

\* The results of Detach.
LEMMA DetachCases ==
  ASSUME NEW k \in Kernels, NEW i \in MSlots
  PROVE  \/ /\ find_by_id(k.table, k.proc.shm_mappings[i].shm_id) = {}
            /\ Detach(k, i) = [mem |-> k.mem, proc |-> Cleared(k.proc, i), table |-> k.table]
         \/ \E o \in find_by_id(k.table, k.proc.shm_mappings[i].shm_id) :
              /\ k.table[o].refcount - 1 > 0
              /\ Detach(k, i) = [mem |-> k.mem, proc |-> Cleared(k.proc, i),
                                 table |-> [k.table EXCEPT ![o].refcount =
                                              k.table[o].refcount - 1]]
         \/ \E o \in find_by_id(k.table, k.proc.shm_mappings[i].shm_id) :
              /\ ~ (k.table[o].refcount - 1 > 0)
              /\ Detach(k, i) = [mem |-> Release(k.mem, k.table[o].region_idx),
                                 proc |-> Cleared(k.proc, i),
                                 table |-> [k.table EXCEPT ![o] = NoObject]]
<1> DEFINE objs == find_by_id(k.table, k.proc.shm_mappings[i].shm_id)
           o == Min(objs)
           p == Cleared(k.proc, i)
           count == k.table[o].refcount - 1
<1>1. k = [mem |-> k.mem, proc |-> k.proc, table |-> k.table]
  BY SMT DEF Kernels
<1>2. Detach(k, i) = IF objs = {} THEN [k EXCEPT !.proc = p]
                     ELSE IF count > 0
                     THEN [mem |-> k.mem, proc |-> p,
                           table |-> [k.table EXCEPT ![o].refcount = count]]
                     ELSE [mem |-> Release(k.mem, k.table[o].region_idx), proc |-> p,
                           table |-> [k.table EXCEPT ![o] = NoObject]]
  BY Zenon DEF Detach, Cleared
<1>3. ASSUME objs # {} PROVE o \in objs
  <2>1. objs \in SUBSET Nat
    BY SMT DEF find_by_id, OSlots
  <2> QED
    BY <1>3, <2>1, MinIsFirst, Zenon
<1> HIDE DEF objs, o, p, count
<1>4. CASE objs = {}
  <2>1. [k EXCEPT !.proc = p] = [mem |-> k.mem, proc |-> p, table |-> k.table]
    BY <1>1, SMT
  <2> QED
    BY <1>2, <1>4, <2>1, Zenon DEF objs, p
<1>5. CASE objs # {} /\ count > 0
  BY <1>2, <1>3, <1>5, Zenon DEF objs, p, count
<1>6. CASE objs # {} /\ ~ (count > 0)
  BY <1>2, <1>3, <1>6, Zenon DEF objs, p, count
<1> QED
  BY <1>4, <1>5, <1>6, Zenon

\* Detach gives kernel tables of the right types and clears the mapping,
\* whichever way it goes.
LEMMA DetachType ==
  ASSUME NEW k \in Kernels, NEW i \in MSlots
  PROVE  Detach(k, i) \in Kernels /\ Detach(k, i).proc = Cleared(k.proc, i)
<1>1. k.mem \in Memories /\ k.proc \in Process /\ k.table \in [OSlots -> ShmObject]
  BY SMT DEF Kernels
<1>2. Cleared(k.proc, i) \in Process
  BY <1>1, ClearedIs, Zenon
<1>3. ASSUME NEW m \in Memories, NEW tb \in [OSlots -> ShmObject],
             Detach(k, i) = [mem |-> m, proc |-> Cleared(k.proc, i), table |-> tb]
      PROVE  Detach(k, i) \in Kernels /\ Detach(k, i).proc = Cleared(k.proc, i)
  BY <1>2, <1>3, SMT DEF Kernels
<1>4. ASSUME NEW o \in find_by_id(k.table, k.proc.shm_mappings[i].shm_id)
      PROVE  /\ o \in OSlots
             /\ k.table[o].refcount - 1 > 0 =>
                  [k.table EXCEPT ![o].refcount = k.table[o].refcount - 1] \in [OSlots -> ShmObject]
             /\ [k.table EXCEPT ![o] = NoObject] \in [OSlots -> ShmObject]
             /\ Release(k.mem, k.table[o].region_idx) \in Memories
  <2>1. o \in OSlots
    BY Zenon DEF find_by_id
  <2>2. k.table[o].refcount - 1 > 0 =>
          [k.table EXCEPT ![o].refcount = k.table[o].refcount - 1] \in [OSlots -> ShmObject]
    BY <1>1, <2>1, SMT DEF ShmObject
  <2>3. NoObject \in ShmObject
    BY ProcessesAssumption, RegionsAssumption, SMT DEF NoObject, ShmObject, Slots
  <2>4. [k.table EXCEPT ![o] = NoObject] \in [OSlots -> ShmObject]
    BY <1>1, <2>1, <2>3, Zenon
  <2> QED
    BY <1>1, <2>1, <2>2, <2>4, ReleaseType, Zenon
<1> QED
  BY <1>1, <1>3, <1>4, DetachCases, Zenon

\* The process table with p in slot c.
Placed(ps, c, p) == [ps EXCEPT ![c] = p]

\* Putting a process in a slot touches no other slot.
LEMMA PlacedIs ==
  ASSUME NEW ps \in [PSlots -> Process], NEW c \in PSlots, NEW p \in Process
  PROVE  /\ Placed(ps, c, p) \in [PSlots -> Process] /\ Placed(ps, c, p)[c] = p
         /\ \A q \in PSlots \ {c} : Placed(ps, c, p)[q] = ps[q]
  BY SMT DEF Placed

\* What holds between two detaches of one system call: the tables are sound
\* with the process as it is by then.
Good(k, ps, c, nx) ==
  /\ k \in Kernels /\ k.mem.panic = Running /\ BootKept(k.mem.regions)
  /\ Owned(k.mem.regions, Placed(ps, c, k.proc), k.table)
  /\ Kept(k.mem.regions, Placed(ps, c, k.proc), k.table)
  /\ Shared(k.mem.regions, Placed(ps, c, k.proc), k.table, nx)

\* Clearing a mapping changes no list of regions and no other mapping.
LEMMA ClearedPlaced ==
  ASSUME NEW ps \in [PSlots -> Process], NEW c \in PSlots, NEW p \in Process, NEW i \in MSlots
  PROVE  /\ Mapped(Placed(ps, c, p), Placed(ps, c, Cleared(p, i)), c, i, NoMapping)
         /\ SameLists(Placed(ps, c, p), Placed(ps, c, Cleared(p, i)))
<1> DEFINE qs == Placed(ps, c, p)
           ts == Placed(ps, c, Cleared(p, i))
<1>1. /\ Cleared(p, i) \in Process
      /\ Cleared(p, i).regions = p.regions /\ Cleared(p, i).shm_mappings[i] = NoMapping
      /\ \A j \in MSlots \ {i} : Cleared(p, i).shm_mappings[j] = p.shm_mappings[j]
  BY ClearedIs, Zenon
<1>2. qs[c] = p /\ \A q \in PSlots \ {c} : qs[q] = ps[q]
  BY Zenon DEF Placed
<1>3. ts[c] = Cleared(p, i) /\ \A q \in PSlots \ {c} : ts[q] = ps[q]
  <2> DEFINE x == Cleared(p, i)
  <2> HIDE DEF x
  <2>1. Placed(ps, c, x)[c] = x /\ \A q \in PSlots \ {c} : Placed(ps, c, x)[q] = ps[q]
    BY Zenon DEF Placed
  <2> QED
    BY <2>1, Zenon DEF x
<1> HIDE DEF qs, ts
<1>4. ASSUME NEW q \in PSlots, NEW j \in MSlots, ~ (q = c /\ j = i)
      PROVE  ts[q].shm_mappings[j] = qs[q].shm_mappings[j]
  <2>1. CASE q = c
    BY <1>1, <1>2, <1>3, <1>4, <2>1, Zenon
  <2>2. CASE q # c
    BY <1>2, <1>3, <2>2, Zenon
  <2> QED
    BY <2>1, <2>2, Zenon
<1>5. ASSUME NEW q \in PSlots PROVE ts[q].regions = qs[q].regions
  <2>1. CASE q = c
    BY <1>1, <1>2, <1>3, <2>1, Zenon
  <2>2. CASE q # c
    BY <1>2, <1>3, <2>2, Zenon
  <2> QED
    BY <2>1, <2>2, Zenon
<1> QED
  BY <1>1, <1>3, <1>4, <1>5, Zenon DEF qs, ts, Mapped, SameLists

\* Detaching a used mapping keeps all of it, whether or not it was the last
\* mapping of its object, and clears just that mapping.
LEMMA DetachKeeps ==
  ASSUME NEW ps \in [PSlots -> Process], NEW c \in PSlots, NEW nx, NEW k,
         Good(k, ps, c, nx), NEW i \in MSlots, k.proc.shm_mappings[i].used
  PROVE  Good(Detach(k, i), ps, c, nx)
<1> DEFINE rs == k.mem.regions
           tb == k.table
           p == k.proc
           qs == Placed(ps, c, p)
           ts == Placed(ps, c, Cleared(p, i))
           d == Detach(k, i)
           id == p.shm_mappings[i].shm_id
<1>1. /\ k.mem \in Memories /\ p \in Process /\ tb \in [OSlots -> ShmObject] /\ k \in Kernels
  BY SMT DEF Good, Kernels
<1>2. /\ BootKept(rs) /\ Owned(rs, qs, tb) /\ Kept(rs, qs, tb) /\ Shared(rs, qs, tb, nx)
      /\ k.mem.panic = Running
  BY Zenon DEF Good
<1>3. d \in Kernels /\ d.proc = Cleared(p, i)
  BY <1>1, DetachType, Zenon
<1>4. qs[c] = p
  BY <1>1, PlacedIs, Zenon
<1>5. Mapped(qs, ts, c, i, NoMapping) /\ SameLists(qs, ts)
  BY <1>1, ClearedPlaced, Zenon
<1>6. find_by_id(tb, id) # {}
  <2>1. OfObject(qs[c].shm_mappings[i], tb)
    BY <1>2, Zenon DEF Shared
  <2> QED
    BY <1>4, <2>1, Zenon DEF OfObject, find_by_id
<1>7. qs[c].shm_mappings[i].used /\ qs[c].shm_mappings[i].shm_id = id
  BY <1>4, Zenon
<1>8. SUFFICES /\ d.mem.panic = Running /\ BootKept(d.mem.regions)
               /\ Owned(d.mem.regions, ts, d.table) /\ Kept(d.mem.regions, ts, d.table)
               /\ Shared(d.mem.regions, ts, d.table, nx)
  BY <1>3, Zenon DEF Good
<1>9. ASSUME NEW o \in find_by_id(tb, id) PROVE o \in OSlots /\ tb[o].used /\ tb[o].id = id
  BY Zenon DEF find_by_id
<1>10. \/ \E o \in find_by_id(tb, id) :
            /\ tb[o].refcount - 1 > 0
            /\ d = [mem |-> k.mem, proc |-> Cleared(p, i),
                    table |-> [tb EXCEPT ![o].refcount = tb[o].refcount - 1]]
       \/ \E o \in find_by_id(tb, id) :
            /\ ~ (tb[o].refcount - 1 > 0)
            /\ d = [mem |-> Release(k.mem, tb[o].region_idx), proc |-> Cleared(p, i),
                    table |-> [tb EXCEPT ![o] = NoObject]]
  BY <1>1, <1>6, DetachCases, Zenon
<1> HIDE DEF rs, tb, p, qs, ts, d, id
<1>11. ASSUME NEW o \in find_by_id(tb, id), tb[o].refcount - 1 > 0,
              d = [mem |-> k.mem, proc |-> Cleared(p, i),
                   table |-> [tb EXCEPT ![o].refcount = tb[o].refcount - 1]]
       PROVE  /\ d.mem.panic = Running /\ BootKept(d.mem.regions)
              /\ Owned(d.mem.regions, ts, d.table) /\ Kept(d.mem.regions, ts, d.table)
              /\ Shared(d.mem.regions, ts, d.table, nx)
  <2> DEFINE ub == [tb EXCEPT ![o].refcount = tb[o].refcount - 1]
  <2>1. d.mem = k.mem /\ d.table = ub
    BY <1>11, SMT
  <2>2. d.mem.regions = rs
    BY <2>1, Zenon DEF rs
  <2>3. o \in OSlots /\ tb[o].used /\ tb[o].id = id
    BY <1>9, Zenon
  <2>4. /\ \A x \in OSlots \ {o} : ub[x] = tb[x]
        /\ ub[o].used = tb[o].used /\ ub[o].id = tb[o].id /\ ub[o].pa = tb[o].pa
        /\ ub[o].region_idx = tb[o].region_idx /\ ub[o].refcount = tb[o].refcount - 1
    <3> HIDE DEF ub
    <3>1. \A x \in OSlots \ {o} : ub[x] = tb[x]
      BY <1>1, <2>3, Zenon DEF ub
    <3>2. ub[o] = [tb[o] EXCEPT !.refcount = tb[o].refcount - 1]
      BY <1>1, <2>3, Zenon DEF ub
    <3>3. tb[o] \in ShmObject
      BY <1>1, <2>3, Zenon
    <3> QED
      BY <3>1, <3>2, <3>3, SMT DEF ShmObject
  <2> HIDE DEF ub
  <2>5. Shared(rs, ts, ub, nx)
    <3>1. Counts(tb, ub, o, tb[o].refcount - 1) /\ tb[o].id = qs[c].shm_mappings[i].shm_id
      BY <1>7, <2>3, <2>4, Zenon DEF Counts
    <3> QED
      BY <1>2, <1>5, <1>7, <2>3, <3>1, SharedDetach, Zenon
  <2>6. Owned(rs, ts, ub) /\ Kept(rs, ts, ub)
    <3>1. SameRegions(tb, ub)
      BY <2>4, Zenon DEF SameRegions
    <3> QED
      BY <1>2, <1>5, <3>1, OwnersStay, Zenon
  <2> QED
    BY <1>2, <2>1, <2>2, <2>5, <2>6, Zenon
<1>12. ASSUME NEW o \in find_by_id(tb, id), ~ (tb[o].refcount - 1 > 0),
              d = [mem |-> Release(k.mem, tb[o].region_idx), proc |-> Cleared(p, i),
                   table |-> [tb EXCEPT ![o] = NoObject]]
       PROVE  /\ d.mem.panic = Running /\ BootKept(d.mem.regions)
              /\ Owned(d.mem.regions, ts, d.table) /\ Kept(d.mem.regions, ts, d.table)
              /\ Shared(d.mem.regions, ts, d.table, nx)
  <2> DEFINE ub == [tb EXCEPT ![o] = NoObject]
             r == tb[o].region_idx
             t == d.mem.regions
  <2>1. d.mem = Release(k.mem, r) /\ d.table = ub
    BY <1>12, SMT
  <2>2. o \in OSlots /\ tb[o].used /\ tb[o].id = id
    BY <1>9, Zenon
  <2>3. /\ \A x \in OSlots \ {o} : ub[x] = tb[x]
        /\ ~ ub[o].used
    BY <1>1, <2>2, SMT DEF NoObject
  <2>4. /\ r \in Held(rs) /\ \A q \in PSlots : r \notin Listed(qs[q].regions)
        /\ \A x \in OSlots \ {o} : tb[x].used => tb[x].region_idx # r
    BY <1>2, <2>2, Zenon DEF Owned
  <2>5. r \in AllocatedSlots(rs) /\ r \notin 1 .. BOOT_REGIONS
    BY <2>4, Zenon DEF Held
  <2>6. /\ d.mem.panic = Running /\ AllocatedSlots(t) = AllocatedSlots(rs) \ {r}
        /\ \A j \in AllocatedSlots(rs) \ {r} : t[j] = rs[j]
    <3> HIDE DEF r
    <3>1. /\ Release(k.mem, r).panic = Running
          /\ AllocatedSlots(Release(k.mem, r).regions) = AllocatedSlots(k.mem.regions) \ {r}
          /\ \A j \in AllocatedSlots(k.mem.regions) \ {r} :
               Release(k.mem, r).regions[j] = k.mem.regions[j]
      <4>1. r \in AllocatedSlots(k.mem.regions)
        BY <2>5, Zenon DEF rs
      <4> QED
        BY <1>1, <1>2, <4>1, ReleaseType, Zenon
    <3> QED
      BY <2>1, <3>1, Zenon DEF rs
  <2> HIDE DEF ub, r, t
  <2>7. Shared(t, ts, ub, nx)
    <3>1. \A x \in OSlots \ {o} : tb[x].used => t[tb[x].region_idx] = rs[tb[x].region_idx]
      <4>1. \A x \in OSlots : tb[x].used => tb[x].region_idx \in AllocatedSlots(rs)
        BY <1>2, Zenon DEF Owned, Held
      <4> QED
        BY <2>4, <2>6, <4>1, Zenon
    <3>2. tb[o].id = qs[c].shm_mappings[i].shm_id
      BY <1>7, <2>2, Zenon
    <3>3. Removed(tb, ub, o, rs, t) /\ ~ (tb[o].refcount - 1 > 0)
      BY <1>12, <2>3, <3>1, Zenon DEF Removed
    <3> QED
      BY <1>2, <1>5, <1>7, <2>2, <3>2, <3>3, SharedLast, Zenon
  <2>8. Owned(t, ts, ub) /\ Kept(t, ts, ub) /\ BootKept(t)
    <3> DEFINE M == {r}
    <3>1. M \cap (1 .. BOOT_REGIONS) = {}
      BY <2>5, Zenon
    <3>2. Emptied(qs, ts, M)
      BY <1>5, <2>4, Zenon DEF Emptied, SameLists
    <3>3. Dropped(tb, ub, M)
      BY <2>3, <2>4, Zenon DEF Dropped, r
    <3>4. AllocatedSlots(t) = AllocatedSlots(rs) \ M
      BY <2>6, Zenon
    <3> HIDE DEF M
    <3> QED
      BY <1>2, <3>1, <3>2, <3>3, <3>4, OwnersShrink, Zenon
  <2> QED
    BY <2>1, <2>6, <2>7, <2>8, Zenon DEF t
<1> QED
  BY <1>10, <1>11, <1>12, Zenon

-----------------------------------------------------------------------------
(* shm_process_cleanup. *)

CleanStep(k, i) == IF k.proc.shm_mappings[i - 1].used THEN Detach(k, i - 1) ELSE k
CleanRun(f, k0) ==
  f = [i \in 0 .. PROC_SHM_MAX |-> IF i = 0 THEN k0 ELSE CleanStep(f[i - 1], i)]

\* The loop of shm_process_cleanup has a run, from which its result comes.
LEMMA CleanRuns ==
  ASSUME NEW k0 \in Kernels
  PROVE  \E f : /\ shm_process_cleanup(k0) = f[PROC_SHM_MAX] /\ f[0] = k0
                /\ \A i \in 1 .. PROC_SHM_MAX : f[i] = CleanStep(f[i - 1], i)
<1> DEFINE n == PROC_SHM_MAX
           X == Kernels
           step == [y \in X \X (1 .. n) |-> CleanStep(y[1], y[2])]
           f == CHOOSE g : CleanRun(g, k0)
<1>1. n \in Nat
  BY ProcessesAssumption, SMT
<1>2. ASSUME NEW k \in X, NEW i \in 1 .. n PROVE CleanStep(k, i) \in X
  <2>1. i - 1 \in MSlots
    BY <1>1, SMT DEF MSlots
  <2> QED
    BY <2>1, DetachType, Zenon DEF CleanStep
<1> HIDE DEF X, n
<1>3. step \in [X \X (1 .. n) -> X]
  <2>1. ASSUME NEW y \in X \X (1 .. n) PROVE CleanStep(y[1], y[2]) \in X
    BY <1>2, Zenon
  <2> QED
    BY <2>1, Zenon
<1>4. PICK g : IsLoop(g, n, X, k0, step)
  <2>1. k0 \in X
    BY Zenon DEF X
  <2> HIDE DEF step
  <2> QED
    BY <1>1, <1>3, <2>1, LoopExists, Zenon
<1>5. CleanRun(g, k0)
  <2>1. ASSUME NEW i \in 0 .. n, i # 0
        PROVE  step[<<g[i - 1], i>>] = CleanStep(g[i - 1], i)
    <3>1. i \in 1 .. n /\ i - 1 \in 0 .. n
      BY <1>1, <2>1, SMT
    <3>2. <<g[i - 1], i>> \in X \X (1 .. n)
      BY <1>4, <3>1 DEF IsLoop
    <3> QED
      BY <3>2
  <2>2. \A i \in 0 .. n :
          (IF i = 0 THEN k0 ELSE step[<<g[i - 1], i>>])
            = (IF i = 0 THEN k0 ELSE CleanStep(g[i - 1], i))
    BY <2>1, Zenon
  <2> HIDE DEF step
  <2>3. g = [i \in 0 .. n |-> IF i = 0 THEN k0 ELSE CleanStep(g[i - 1], i)]
    BY <1>4, <2>2, Zenon DEF IsLoop
  <2> QED
    BY <2>3, Zenon DEF CleanRun, n
<1>6. CleanRun(f, k0)
  <2> HIDE DEF step
  <2> QED
    BY <1>5, Zenon
<1>7. shm_process_cleanup(k0) = f[PROC_SHM_MAX]
  BY Zenon DEF shm_process_cleanup, CleanRun, CleanStep
<1> HIDE DEF f, step
<1>8. ASSUME NEW i \in 1 .. PROC_SHM_MAX PROVE i \in 0 .. PROC_SHM_MAX /\ i # 0
  BY <1>1, SMT DEF n
<1>9. 0 \in 0 .. PROC_SHM_MAX
  BY <1>1, SMT DEF n
<1> QED
  BY <1>6, <1>7, <1>8, <1>9, Zenon DEF CleanRun

\* After i rounds the first i mappings are gone.
CleanTo(k, k0, ps, c, nx, i) ==
  /\ Good(k, ps, c, nx)
  /\ k.proc.regions = k0.proc.regions
  /\ \A j \in MSlots : j < i => ~ k.proc.shm_mappings[j].used

\* One round of the loop.
LEMMA CleanToStep ==
  ASSUME NEW ps \in [PSlots -> Process], NEW c \in PSlots, NEW nx, NEW k0,
         NEW i \in 1 .. PROC_SHM_MAX, NEW k, CleanTo(k, k0, ps, c, nx, i - 1)
  PROVE  CleanTo(CleanStep(k, i), k0, ps, c, nx, i)
<1>1. i - 1 \in MSlots
  BY ProcessesAssumption, SMT DEF MSlots
<1>2. \A j \in MSlots : j < i => j < i - 1 \/ j = i - 1
  BY SMT DEF MSlots
<1>3. CASE ~ k.proc.shm_mappings[i - 1].used
  BY <1>2, <1>3, Zenon DEF CleanTo, CleanStep
<1>4. CASE k.proc.shm_mappings[i - 1].used
  <2> DEFINE d == Detach(k, i - 1)
  <2>1. CleanStep(k, i) = d
    BY <1>4, Zenon DEF CleanStep
  <2>2. Good(d, ps, c, nx)
    BY <1>1, <1>4, DetachKeeps, Zenon DEF CleanTo
  <2>3. k \in Kernels
    BY Zenon DEF CleanTo, Good
  <2>4. d.proc = Cleared(k.proc, i - 1) /\ k.proc \in Process
    <3>1. d.proc = Cleared(k.proc, i - 1)
      BY <1>1, <2>3, DetachType, Zenon
    <3> QED
      BY <2>3, <3>1, SMT DEF Kernels
  <2> HIDE DEF d
  <2>5. /\ d.proc.regions = k.proc.regions /\ d.proc.shm_mappings[i - 1] = NoMapping
        /\ \A j \in MSlots \ {i - 1} : d.proc.shm_mappings[j] = k.proc.shm_mappings[j]
    BY <1>1, <2>4, ClearedIs
  <2>6. ~ NoMapping.used
    BY SMT DEF NoMapping
  <2>7. ASSUME NEW j \in MSlots, j < i PROVE ~ d.proc.shm_mappings[j].used
    <3>1. CASE j = i - 1
      BY <2>5, <2>6, <3>1, Zenon
    <3>2. CASE j # i - 1
      BY <1>2, <2>5, <2>7, <3>2, Zenon DEF CleanTo
    <3> QED
      BY <3>1, <3>2, Zenon
  <2> QED
    BY <2>1, <2>2, <2>5, <2>7, Zenon DEF CleanTo
<1> QED
  BY <1>3, <1>4, Zenon

\* shm_process_cleanup leaves no mapping, the list of regions as it was and
\* the tables sound.
LEMMA CleanKeeps ==
  ASSUME NEW ps \in [PSlots -> Process], NEW c \in PSlots, NEW nx, NEW k0,
         Good(k0, ps, c, nx)
  PROVE  /\ Good(shm_process_cleanup(k0), ps, c, nx)
         /\ shm_process_cleanup(k0).proc.regions = k0.proc.regions
         /\ \A j \in MSlots : ~ shm_process_cleanup(k0).proc.shm_mappings[j].used
<1> DEFINE n == PROC_SHM_MAX
<1>1. k0 \in Kernels /\ n \in Nat
  BY ProcessesAssumption, SMT DEF Good
<1>2. PICK f : /\ shm_process_cleanup(k0) = f[n] /\ f[0] = k0
               /\ \A i \in 1 .. n : f[i] = CleanStep(f[i - 1], i)
  BY <1>1, CleanRuns, Zenon
<1> DEFINE T == {i \in 0 .. n : CleanTo(f[i], k0, ps, c, nx, i)}
<1>3. 0 \in T
  <2>1. 0 \in 0 .. n /\ \A j \in MSlots : ~ (j < 0)
    BY <1>1, SMT DEF MSlots
  <2> QED
    BY <1>2, <2>1, Zenon DEF CleanTo
<1>4. ASSUME NEW i \in 1 .. n, i - 1 \in T PROVE i \in T
  <2>1. i \in 0 .. n
    BY <1>1, SMT
  <2>2. CleanTo(CleanStep(f[i - 1], i), k0, ps, c, nx, i)
    BY <1>4, CleanToStep, Zenon
  <2> QED
    BY <1>2, <2>1, <2>2, Zenon
<1>5. n \in T
  <2>1. n \in 0 .. n
    BY <1>1, SMT
  <2> HIDE DEF T
  <2>2. 0 .. n \subseteq T
    BY <1>1, <1>3, <1>4, Rounds, Zenon
  <2> QED
    BY <2>1, <2>2, Zenon
<1>6. \A j \in MSlots : j < n
  BY <1>1, SMT DEF MSlots
<1> QED
  BY <1>2, <1>5, <1>6, Zenon DEF CleanTo

-----------------------------------------------------------------------------
(* release_process. *)

FreeStep(m, l, i) == IF l[i] = 0 THEN m ELSE Release(m, l[i])
FreeRun(f, m0, l) ==
  f = [i \in 0 .. Len(l) |-> IF i = 0 THEN m0 ELSE FreeStep(f[i - 1], l, i)]

\* The loop of release_process has a run, from which its result comes.
LEMMA FreeRuns ==
  ASSUME NEW k0, shm_process_cleanup(k0) \in Kernels
  PROVE  \E f : LET k1 == shm_process_cleanup(k0)
                    l == k1.proc.regions
                IN  /\ release_process(k0) = [mem |-> f[Len(l)], proc |-> UnusedProc,
                                              table |-> k1.table]
                    /\ f[0] = k1.mem
                    /\ \A i \in 1 .. Len(l) : f[i] = FreeStep(f[i - 1], l, i)
<1> DEFINE k1 == shm_process_cleanup(k0)
           l == k1.proc.regions
           n == Len(l)
           step == [y \in Memories \X (1 .. n) |-> FreeStep(y[1], l, y[2])]
           f == CHOOSE g : FreeRun(g, k1.mem, l)
<1> HIDE DEF k1
<1>1. l \in Seq(Slots) /\ n \in Nat /\ k1.mem \in Memories
  <2>1. k1 \in Kernels
    BY Zenon DEF k1
  <2>2. l \in Seq(Slots) /\ k1.mem \in Memories
    BY <2>1, SMT DEF Kernels, Process
  <2> QED
    BY <2>2, SMT
<1> HIDE DEF l, n
<1>2. step \in [Memories \X (1 .. n) -> Memories]
  <2>1. ASSUME NEW y \in Memories \X (1 .. n) PROVE FreeStep(y[1], l, y[2]) \in Memories
    <3>1. y[1] \in Memories
      BY Zenon
    <3> QED
      BY <3>1, ReleaseType, Zenon DEF FreeStep
  <2> QED
    BY <2>1, Zenon
<1>3. PICK g : IsLoop(g, n, Memories, k1.mem, step)
  <2> HIDE DEF step
  <2> QED
    BY <1>1, <1>2, LoopExists, Zenon
<1>4. FreeRun(g, k1.mem, l)
  <2>1. ASSUME NEW i \in 0 .. n, i # 0
        PROVE  step[<<g[i - 1], i>>] = FreeStep(g[i - 1], l, i)
    <3>1. i \in 1 .. n /\ i - 1 \in 0 .. n
      BY <1>1, <2>1, SMT
    <3>2. <<g[i - 1], i>> \in Memories \X (1 .. n)
      BY <1>3, <3>1 DEF IsLoop
    <3> QED
      BY <3>2
  <2>2. \A i \in 0 .. n :
          (IF i = 0 THEN k1.mem ELSE step[<<g[i - 1], i>>])
            = (IF i = 0 THEN k1.mem ELSE FreeStep(g[i - 1], l, i))
    BY <2>1, Zenon
  <2> HIDE DEF step
  <2>3. g = [i \in 0 .. n |-> IF i = 0 THEN k1.mem ELSE FreeStep(g[i - 1], l, i)]
    BY <1>3, <2>2, Zenon DEF IsLoop
  <2> QED
    BY <2>3, Zenon DEF FreeRun, n
<1>5. FreeRun(f, k1.mem, l)
  <2> HIDE DEF step
  <2> QED
    BY <1>4, Zenon
<1>6. release_process(k0) = [mem |-> f[Len(l)], proc |-> UnusedProc, table |-> k1.table]
  BY Zenon DEF release_process, FreeRun, FreeStep, l, k1
<1> HIDE DEF f, step
<1>7. ASSUME NEW i \in 1 .. Len(l) PROVE i \in 0 .. Len(l) /\ i # 0
  BY <1>1, SMT DEF n
<1>8. 0 \in 0 .. Len(l)
  BY <1>1, SMT DEF n
<1>9. f[0] = k1.mem /\ \A i \in 1 .. Len(l) : f[i] = FreeStep(f[i - 1], l, i)
  BY <1>5, <1>7, <1>8, Zenon DEF FreeRun
<1> QED
  BY <1>6, <1>9, Zenon DEF l, k1

\* After i rounds the regions of the first i entries that are not 0 are free.
Given(l, i) == {l[j] : j \in 1 .. i} \ {0}
FreeTo(m, m0, l, i) ==
  /\ m \in Memories /\ m.panic = Running
  /\ AllocatedSlots(m.regions) = AllocatedSlots(m0.regions) \ Given(l, i)
  /\ \A j \in AllocatedSlots(m.regions) : m.regions[j] = m0.regions[j]

\* One round of the loop: no entry is released twice, because the list has
\* it once.
LEMMA FreeToStep ==
  ASSUME NEW m0, NEW l \in Seq(Slots), Listed(l) \subseteq AllocatedSlots(m0.regions),
         Distinct(l), NEW i \in 1 .. Len(l), NEW m, FreeTo(m, m0, l, i - 1)
  PROVE  FreeTo(FreeStep(m, l, i), m0, l, i)
<1>1. /\ Len(l) \in Nat /\ \A j \in 1 .. i : j = i \/ j \in 1 .. i - 1
      /\ \A j \in 1 .. i - 1 : j \in 1 .. i /\ j # i /\ j \in 1 .. Len(l)
      /\ i \in 1 .. i
  BY SMT
<1>2. Given(l, i) = Given(l, i - 1) \cup ({l[i]} \ {0})
  <2>1. \A x : x \in Given(l, i) <=> x \in Given(l, i - 1) \cup ({l[i]} \ {0})
    BY <1>1, Zenon DEF Given
  <2> QED
    BY <2>1, Zenon
<1>3. CASE l[i] = 0
  <2>1. Given(l, i) = Given(l, i - 1)
    BY <1>2, <1>3, Zenon
  <2> QED
    BY <1>3, <2>1, Zenon DEF FreeTo, FreeStep
<1>4. CASE l[i] # 0
  <2> DEFINE n == Release(m, l[i])
  <2>1. FreeStep(m, l, i) = n
    BY <1>4, Zenon DEF FreeStep
  <2>2. l[i] \notin Given(l, i - 1)
    BY <1>1, Zenon DEF Given, Distinct
  <2>3. l[i] \in AllocatedSlots(m.regions)
    BY <2>2, Zenon DEF FreeTo, Listed
  <2>4. m \in Memories /\ m.panic = Running
    BY Zenon DEF FreeTo
  <2>5. n \in Memories /\ n.panic = Running
        /\ AllocatedSlots(n.regions) = AllocatedSlots(m.regions) \ {l[i]}
        /\ \A j \in AllocatedSlots(m.regions) \ {l[i]} : n.regions[j] = m.regions[j]
    BY <2>3, <2>4, ReleaseType, Zenon
  <2> HIDE DEF n
  <2>6. AllocatedSlots(n.regions) = AllocatedSlots(m0.regions) \ Given(l, i)
    BY <1>2, <1>4, <2>5, Zenon DEF FreeTo
  <2>7. \A j \in AllocatedSlots(n.regions) : n.regions[j] = m0.regions[j]
    BY <2>5, Zenon DEF FreeTo
  <2> QED
    BY <2>1, <2>5, <2>6, <2>7, Zenon DEF FreeTo
<1> QED
  BY <1>3, <1>4, Zenon

\* An unused entry lists no region and has no mapping.
LEMMA UnusedIs ==
  /\ UnusedProc \in Process /\ UnusedProc.regions = <<>>
  /\ \A i \in MSlots : UnusedProc.shm_mappings[i] = NoMapping
<1>1. NoMapping \in Mapping
  BY ProcessesAssumption, SMT DEF NoMapping, Mapping
<1>2. [i \in MSlots |-> NoMapping] \in [MSlots -> Mapping]
  BY <1>1, Zenon
<1>3. <<>> \in Seq(Slots) /\ 0 \in 0 .. PROCS_MAX
  BY SchedulerAssumption, SMT
<1>4. UnusedProc \in Process
  BY <1>2, <1>3, SMT DEF UnusedProc, Process
<1>5. UnusedProc.regions = <<>> /\ UnusedProc.shm_mappings = [i \in MSlots |-> NoMapping]
  BY SMT DEF UnusedProc
<1> QED
  BY <1>4, <1>5, Zenon

\* After the loop of release_process the regions of the list are free, but for
\* slot 0.
LEMMA FreeAll ==
  ASSUME NEW k0, shm_process_cleanup(k0) \in Kernels,
         shm_process_cleanup(k0).mem.panic = Running,
         Distinct(shm_process_cleanup(k0).proc.regions),
         Listed(shm_process_cleanup(k0).proc.regions)
           \subseteq AllocatedSlots(shm_process_cleanup(k0).mem.regions)
  PROVE  LET k1 == shm_process_cleanup(k0)
             l == k1.proc.regions
         IN  \E m : /\ release_process(k0) = [mem |-> m, proc |-> UnusedProc, table |-> k1.table]
                    /\ FreeTo(m, k1.mem, l, Len(l))
<1> DEFINE k1 == shm_process_cleanup(k0)
           l == k1.proc.regions
           n == Len(l)
<1>1. PICK f : /\ release_process(k0) = [mem |-> f[n], proc |-> UnusedProc, table |-> k1.table]
               /\ f[0] = k1.mem
               /\ \A i \in 1 .. n : f[i] = FreeStep(f[i - 1], l, i)
  BY FreeRuns, Zenon
<1> HIDE DEF k1
<1>2. k1 \in Kernels /\ k1.mem.panic = Running /\ Distinct(l)
      /\ Listed(l) \subseteq AllocatedSlots(k1.mem.regions)
  BY Zenon DEF k1
<1>3. l \in Seq(Slots) /\ n \in Nat /\ k1.mem \in Memories
  <2>1. l \in Seq(Slots) /\ k1.mem \in Memories
    BY <1>2, SMT DEF Kernels, Process
  <2> QED
    BY <2>1, SMT
<1> HIDE DEF l, n
<1> DEFINE T == {i \in 0 .. n : FreeTo(f[i], k1.mem, l, i)}
<1>4. 0 \in T
  <2>1. 0 \in 0 .. n /\ \A j \in 1 .. 0 : FALSE
    BY <1>3, SMT
  <2>2. Given(l, 0) = {}
    BY <2>1, Zenon DEF Given
  <2> QED
    BY <1>1, <1>2, <1>3, <2>1, <2>2, Zenon DEF FreeTo
<1>5. ASSUME NEW i \in 1 .. n, i - 1 \in T PROVE i \in T
  <2>1. i \in 0 .. n /\ i \in 1 .. Len(l)
    BY <1>3, SMT DEF n
  <2>2. FreeTo(FreeStep(f[i - 1], l, i), k1.mem, l, i)
    BY <1>2, <1>3, <1>5, <2>1, FreeToStep, Zenon
  <2> QED
    BY <1>1, <2>1, <2>2, Zenon
<1>6. n \in T
  <2>1. n \in 0 .. n
    BY <1>3, SMT
  <2> HIDE DEF T
  <2>2. 0 .. n \subseteq T
    BY <1>3, <1>4, <1>5, Rounds, Zenon
  <2> QED
    BY <2>1, <2>2, Zenon
<1> QED
  BY <1>1, <1>6, Zenon DEF n, l, k1

\* release_process leaves the tables sound, with the slot of the process
\* empty, and never ends in PANIC.
LEMMA ReleaseProcessKeeps ==
  ASSUME NEW ps \in [PSlots -> Process], NEW c \in PSlots, NEW nx, NEW k0,
         Good(k0, ps, c, nx)
  PROVE  Good(release_process(k0), ps, c, nx) /\ release_process(k0).proc = UnusedProc
<1> DEFINE k1 == shm_process_cleanup(k0)
           l == k1.proc.regions
           qs == Placed(ps, c, k1.proc)
           ts == Placed(ps, c, UnusedProc)
           rs == k1.mem.regions
           tb == k1.table
           M == Given(l, Len(l))
<1>1. Good(k1, ps, c, nx) /\ \A j \in MSlots : ~ k1.proc.shm_mappings[j].used
  BY CleanKeeps, Zenon
<1>2. k1 \in Kernels /\ k1.mem.panic = Running /\ BootKept(rs) /\ Owned(rs, qs, tb)
      /\ Kept(rs, qs, tb) /\ Shared(rs, qs, tb, nx)
  BY <1>1, Zenon DEF Good
<1>3. k1.proc \in Process /\ tb \in [OSlots -> ShmObject]
  BY <1>2, SMT DEF Kernels
<1>4. qs[c] = k1.proc /\ \A q \in PSlots \ {c} : qs[q] = ps[q]
  BY <1>3, PlacedIs
<1>5. ts[c] = UnusedProc /\ \A q \in PSlots \ {c} : ts[q] = ps[q]
  BY UnusedIs, PlacedIs
<1>6. Distinct(l) /\ Listed(l) \subseteq Held(rs)
  BY <1>2, <1>4, Zenon DEF Owned
<1>7. Listed(l) \subseteq AllocatedSlots(rs) /\ Listed(l) \cap (1 .. BOOT_REGIONS) = {}
  BY <1>6, Zenon DEF Held
<1>8. PICK m : /\ release_process(k0) = [mem |-> m, proc |-> UnusedProc, table |-> tb]
               /\ FreeTo(m, k1.mem, l, Len(l))
  BY <1>2, <1>6, <1>7, FreeAll, Zenon
<1> DEFINE k2 == release_process(k0)
           t == m.regions
<1>9. k2.mem = m /\ k2.proc = UnusedProc /\ k2.table = tb
  BY <1>8, SMT
<1>10. /\ m \in Memories /\ m.panic = Running /\ AllocatedSlots(t) = AllocatedSlots(rs) \ M
       /\ \A j \in AllocatedSlots(t) : t[j] = rs[j]
  BY <1>8, Zenon DEF FreeTo
<1>11. k2 \in Kernels
  <2> HIDE DEF k1
  <2> QED
    BY <1>3, <1>8, <1>10, UnusedIs, SMT DEF Kernels
<1>12. M = Listed(l) \ {0}
  BY Zenon DEF Given, Listed
<1> HIDE DEF k1, l, qs, ts, rs, tb, M, k2, t
<1>13. Owned(t, ts, tb) /\ Kept(t, ts, tb) /\ BootKept(t)
  <2>1. M \cap (1 .. BOOT_REGIONS) = {}
    BY <1>7, <1>12, Zenon
  <2>2. Emptied(qs, ts, M)
    <3> SUFFICES ASSUME NEW q \in PSlots
                 PROVE  \/ ts[q].regions = qs[q].regions /\ Listed(qs[q].regions) \cap M = {}
                        \/ /\ Listed(ts[q].regions) = {} /\ Distinct(ts[q].regions)
                           /\ Listed(qs[q].regions) \subseteq M \cup {0}
      BY Zenon DEF Emptied
    <3>1. CASE q = c
      BY <1>4, <1>5, <1>12, <3>1, UnusedIs, ListedEmpty, Zenon DEF l
    <3>2. CASE q # c
      <4>1. Listed(qs[q].regions) \cap Listed(qs[c].regions) = {}
        BY <1>2, <3>2, Zenon DEF Owned
      <4> QED
        BY <1>4, <1>5, <1>12, <3>2, <4>1, Zenon DEF l
    <3> QED
      BY <3>1, <3>2, Zenon
  <2>3. Dropped(tb, tb, M)
    <3>1. \A o \in OSlots : tb[o].used => tb[o].region_idx \notin Listed(qs[c].regions)
      BY <1>2, Zenon DEF Owned
    <3> QED
      BY <1>4, <1>12, <3>1, Zenon DEF Dropped, l
  <2> QED
    BY <1>2, <1>10, <2>1, <2>2, <2>3, OwnersShrink, Zenon
<1>14. Shared(t, ts, tb, nx)
  <2>1. ASSUME NEW q \in PSlots, NEW i \in MSlots
        PROVE  ts[q].shm_mappings[i] = qs[q].shm_mappings[i]
    <3>1. CASE q = c
      <4>1. OfObject(qs[c].shm_mappings[i], tb)
        BY <1>2, Zenon DEF Shared
      <4>2. qs[c].shm_mappings[i] = NoMapping
        BY <1>1, <1>4, <4>1, Zenon DEF OfObject
      <4> QED
        BY <1>5, <3>1, <4>2, UnusedIs, Zenon
    <3>2. CASE q # c
      BY <1>4, <1>5, <3>2, Zenon
    <3> QED
      BY <3>1, <3>2, Zenon
  <2>2. \A o \in OSlots : tb[o].used => t[tb[o].region_idx] = rs[tb[o].region_idx]
    <3>1. \A o \in OSlots : tb[o].used => tb[o].region_idx \in Held(t)
      BY <1>13, Zenon DEF Owned
    <3> QED
      BY <1>10, <3>1, Zenon DEF Held
  <2>3. SameMappings(qs, ts) /\ InPlace(tb, rs, t)
    BY <2>1, <2>2, Zenon DEF SameMappings, InPlace
  <2> QED
    BY <1>2, <2>3, SharedStays, Zenon
<1> QED
  BY <1>9, <1>10, <1>11, <1>13, <1>14, Zenon DEF Good, k2, t, ts, tb

-----------------------------------------------------------------------------
(* Init. *)

\* The drivers' regions are slots 1 to BOOT_REGIONS, if there was memory for
\* them.
LEMMA BootKeeps ==
  Booted(AllocMany([regions |-> init_regions, panic |-> Running], BOOT_REGIONS), BOOT_REGIONS)
<1> DEFINE n == BOOT_REGIONS
           m == [regions |-> init_regions, panic |-> Running]
           a0 == [mem |-> m, list |-> <<>>]
<1>1. n \in Nat
  BY ProcessesAssumption, SMT
<1>2. init_regions \in Tables
  BY InitPartition, Zenon DEF Tables, IsTable
<1>3. Running \in Status
  BY Zenon DEF Status
<1>4. m \in Memories /\ m.regions = init_regions /\ m.panic = Running
  BY <1>2, <1>3, SMT DEF Memories
<1>5. /\ AllocatedSlots(init_regions) = {} /\ FreeSlots(init_regions) \subseteq {0}
  <2>1. \A i \in Slots : init_regions[i].state # "ALLOCATED" /\ (init_regions[i].state = "FREE" => i = 0)
    BY SMT DEF init_regions, UnusedRegion
  <2> QED
    BY <2>1, Zenon DEF AllocatedSlots, FreeSlots
<1> HIDE DEF m
<1>6. a0 \in Allocations /\ a0.mem = m
  BY <1>4, ListedEmpty, SMT DEF Allocations
<1>7. 1 .. 0 = {}
  BY SMT
<1>8. Booted(a0, 0)
  <2> HIDE DEF a0
  <2> QED
    BY <1>4, <1>5, <1>6, <1>7, Zenon DEF Booted
<1>9. PICK f : /\ AllocMany(m, n) = f[n]
               /\ f[0] = [mem |-> m, list |-> <<>>]
               /\ \A k \in 1 .. n : f[k] = AllocInto(f[k - 1].mem, f[k - 1].list)
  BY <1>1, <1>4, GrowRuns, Zenon
<1> DEFINE T == {k \in 0 .. n : Booted(f[k], k)}
<1>10. 0 \in T
  <2>1. 0 \in 0 .. n
    BY <1>1, SMT
  <2> QED
    BY <1>8, <1>9, <2>1, Zenon
<1>11. ASSUME NEW k \in 1 .. n, k - 1 \in T PROVE k \in T
  <2>1. k \in 0 .. n /\ k - 1 \in Nat /\ (k - 1) + 1 = k
    BY <1>1, SMT
  <2>2. Booted(f[k - 1], k - 1)
    BY <1>11, Zenon
  <2>3. Booted(f[k], (k - 1) + 1)
    BY <1>9, <2>1, <2>2, BootedStep, Zenon
  <2> QED
    BY <2>1, <2>3, Zenon
<1>12. n \in T
  <2>1. n \in 0 .. n
    BY <1>1, SMT
  <2> HIDE DEF T
  <2>2. 0 .. n \subseteq T
    BY <1>1, <1>10, <1>11, Rounds, Zenon
  <2> QED
    BY <2>1, <2>2, Zenon
<1> QED
  BY <1>9, <1>12, Zenon DEF m

\* The invariant holds at boot.
LEMMA InitIInv == Init => IInv
<1> SUFFICES ASSUME Init PROVE IInv
  OBVIOUS
<1> DEFINE a == AllocMany([regions |-> init_regions, panic |-> Running], BOOT_REGIONS)
<1>1. /\ regions = a.mem.regions /\ panic = a.mem.panic
      /\ procs = [p \in PSlots |-> UnusedProc] /\ current_proc = Idle /\ kmain = 0
      /\ shm_table = [o \in OSlots |-> NoObject] /\ next_shm_id = 1
  BY Zenon DEF Init
<1>2. Booted(a, BOOT_REGIONS)
  BY BootKeeps, Zenon
<1> HIDE DEF a
<1>3. a.mem.regions \in Tables
  BY <1>2, SMT DEF Booted, Allocations, Memories
<1>4. IsTable(regions) /\ Partition(regions)
  BY <1>1, <1>3, Zenon DEF Tables, IsTable
<1>5. /\ panic \in {Running, OutOfMemory} /\ AllocatedSlots(regions) \subseteq 1 .. BOOT_REGIONS
      /\ panic = Running => AllocatedSlots(regions) = 1 .. BOOT_REGIONS
  BY <1>1, <1>2, Zenon DEF Booted
<1>6. \A p \in PSlots : procs[p] = UnusedProc
  BY <1>1, Zenon
<1>7. procs \in [PSlots -> Process]
  BY <1>1, UnusedIs, Zenon
<1>8. NoObject \in ShmObject /\ ~ NoObject.used
  BY ProcessesAssumption, RegionsAssumption, SMT DEF NoObject, ShmObject, Slots
<1>9. shm_table \in [OSlots -> ShmObject] /\ \A o \in OSlots : ~ shm_table[o].used
  BY <1>1, <1>8, Zenon
<1>10. current_proc \in PSlots /\ kmain \in 0 .. NUSERS + 2 /\ next_shm_id \in 1 .. MAX_ID
  BY <1>1, SchedulerAssumption, ProcessesAssumption, SMT DEF PSlots, Idle
<1>11. panic \in Status /\ panic # NotAllocated /\ panic # SwitchedToIdle
  <2>1. /\ OutOfMemory # NotAllocated /\ OutOfMemory # SwitchedToIdle
        /\ Running # NotAllocated /\ Running # SwitchedToIdle
    BY SMT DEF Running, OutOfMemory, NotAllocated, SwitchedToIdle
  <2> QED
    BY <1>5, <2>1, Zenon DEF Status
<1>12. \A p \in PSlots : Listed(procs[p].regions) = {} /\ Distinct(procs[p].regions)
  BY <1>6, UnusedIs, ListedEmpty, Zenon
<1>13. Owned(regions, procs, shm_table) /\ Kept(regions, procs, shm_table)
  BY <1>5, <1>9, <1>12, Zenon DEF Owned, Kept, Held
<1>14. Shared(regions, procs, shm_table, next_shm_id)
  <2>1. ~ NoMapping.used
    BY SMT DEF NoMapping
  <2>2. \A p \in PSlots, i \in MSlots : procs[p].shm_mappings[i] = NoMapping
    BY <1>6, UnusedIs, Zenon
  <2>3. \A p \in PSlots, i \in MSlots : OfObject(procs[p].shm_mappings[i], shm_table)
    BY <2>1, <2>2, Zenon DEF OfObject
  <2> QED
    BY <1>9, <2>3, Zenon DEF Shared
<1>15. TypeOK
  BY <1>4, <1>7, <1>9, <1>10, <1>11, Zenon DEF TypeOK
<1>16. panic \in {Running, SwitchedToIdle} => BootKept(regions)
  BY <1>5, <1>11, Zenon DEF BootKept
<1> QED
  BY <1>4, <1>6, <1>7, <1>9, <1>11, <1>13, <1>14, <1>15, <1>16, Zenon DEF IInv, Sound

-----------------------------------------------------------------------------
(* The steps. *)

\* yield goes to a slot of the table.
LEMMA PickNextSlot ==
  ASSUME NEW ps \in [PSlots -> Process], NEW cur \in PSlots
  PROVE  PickNext(ps, cur) \in PSlots
<1> DEFINE slot(i) == (ps[cur].pid + i) % PROCS_MAX
           ready == {i \in PSlots : ps[slot(i)].state = "RUNNABLE" /\ ps[slot(i)].pid > 0}
<1>1. Idle \in PSlots
  BY SchedulerAssumption, SMT DEF Idle, PSlots
<1>2. PickNext(ps, cur) = IF ready = {} THEN Idle ELSE slot(Min(ready))
  BY Zenon DEF PickNext
<1>3. \A n \in Nat : n % PROCS_MAX \in PSlots
  BY SchedulerAssumption, SMT DEF PSlots
<1>4. ps[cur].pid \in Nat
  <2>1. ps[cur] \in Process
    BY Zenon
  <2> QED
    BY <2>1, SMT DEF Process
<1>5. ready \in SUBSET Nat
  BY SMT DEF PSlots
<1>6. \A i, j \in Nat : i + j \in Nat
  BY SMT
<1>7. ASSUME ready # {} PROVE slot(Min(ready)) \in PSlots
  <2>1. Min(ready) \in Nat
    <3> HIDE DEF ready
    <3> QED
      BY <1>5, <1>7, MinIsFirst, Zenon
  <2> QED
    BY <1>3, <1>4, <1>6, <2>1, Zenon
<1> QED
  BY <1>1, <1>2, <1>7, Zenon

\* What IInv says while the kernel runs.
LEMMA RunningIInv ==
  ASSUME IInv, panic = Running
  PROVE  /\ Memory \in Memories /\ Memory.regions = regions /\ Memory.panic = Running
         /\ BootKept(regions)
         /\ Owned(regions, procs, shm_table) /\ Kept(regions, procs, shm_table)
         /\ Shared(regions, procs, shm_table, next_shm_id)
         /\ procs \in [PSlots -> Process] /\ shm_table \in [OSlots -> ShmObject]
         /\ current_proc \in PSlots /\ kmain \in 0 .. NUSERS + 2 /\ next_shm_id \in 1 .. MAX_ID
<1>1. regions \in Tables /\ panic \in Status
  BY Zenon DEF IInv, Sound, IsTable, Tables, TypeOK
<1>2. Memory \in Memories /\ Memory.regions = regions /\ Memory.panic = Running
  BY <1>1, SMT DEF Memory, Memories
<1> QED
  BY <1>2, Zenon DEF IInv, Sound, TypeOK

\* IInv' from its parts.
LEMMA Assemble ==
  ASSUME regions' \in Tables, procs' \in [PSlots -> Process], current_proc' \in PSlots,
         kmain' \in 0 .. NUSERS + 2, shm_table' \in [OSlots -> ShmObject],
         next_shm_id' \in 1 .. MAX_ID, panic' \in Status \ {NotAllocated},
         Owned(regions', procs', shm_table'), Kept(regions', procs', shm_table'),
         Shared(regions', procs', shm_table', next_shm_id'), BootKept(regions'),
         kmain' <= NUSERS => \A p \in PSlots : p >= kmain' => procs'[p] = UnusedProc
  PROVE  IInv'
<1>1. IsTable(regions') /\ Partition(regions')
  BY Zenon DEF Tables, IsTable
<1>2. TypeOK'
  BY <1>1, Zenon DEF TypeOK
<1> QED
  BY <1>1, <1>2, Zenon DEF IInv, Sound

\* While user processes run, boot is over.
LEMMA BootOver == ASSUME InUser PROVE ~ (kmain <= NUSERS)
<1>1. kmain = NUSERS + 2 /\ NUSERS \in Nat
  BY ProcessesAssumption, SMT DEF InUser
<1> QED
  BY <1>1, SMT

\* IInv depends on the variables only.
LEMMA StutterStep == ASSUME IInv, UNCHANGED vars PROVE IInv'
  BY Zenon DEF IInv, Sound, TypeOK, vars

\* yield, also from kernel_main, touches neither regions nor shared memory.
LEMMA YieldStep ==
  ASSUME IInv, yield \/ kernel_main_yield \/ kernel_main_idle PROVE IInv'
<1>1. /\ UNCHANGED <<regions, procs, shm_table, next_shm_id>> /\ panic = Running
      /\ current_proc' \in {current_proc, PickNext(procs, current_proc)}
      /\ panic' \in {panic, SwitchedToIdle}
  BY Zenon DEF yield, kernel_main_yield, kernel_main_idle, InUser
<1>2. kmain' = kmain \/ (kmain' = kmain + 1 /\ kmain = NUSERS + 1)
  BY Zenon DEF yield, kernel_main_yield, kernel_main_idle
<1>3. /\ BootKept(regions)
      /\ Owned(regions, procs, shm_table) /\ Kept(regions, procs, shm_table)
      /\ Shared(regions, procs, shm_table, next_shm_id)
      /\ procs \in [PSlots -> Process] /\ shm_table \in [OSlots -> ShmObject]
      /\ current_proc \in PSlots /\ kmain \in 0 .. NUSERS + 2 /\ next_shm_id \in 1 .. MAX_ID
  BY <1>1, RunningIInv, Zenon
<1>4. current_proc' \in PSlots
  BY <1>1, <1>3, PickNextSlot, Zenon
<1>5. kmain' \in 0 .. NUSERS + 2 /\ kmain' \in Nat /\ kmain \in Nat
      /\ (kmain' <= NUSERS => kmain' = kmain)
  BY <1>2, <1>3, ProcessesAssumption, SMT DEF PSlots
<1>6. kmain' <= NUSERS => \A p \in PSlots : p >= kmain' => procs'[p] = UnusedProc
  BY <1>1, <1>5, Zenon DEF IInv
<1>7. panic' \in Status \ {NotAllocated}
  <2>1. Running # NotAllocated /\ SwitchedToIdle # NotAllocated
    BY SMT DEF Running, NotAllocated, SwitchedToIdle
  <2> QED
    BY <1>1, <2>1, Zenon DEF Status
<1>8. regions' \in Tables
  BY <1>1, Zenon DEF IInv, Sound, IsTable, Tables
<1> QED
  BY <1>1, <1>3, <1>4, <1>5, <1>6, <1>7, <1>8, Assemble, Zenon

\* The objects' regions stay where they are when more is allocated.
LEMMA ObjectsStay ==
  ASSUME NEW rs, NEW ps, NEW tb, Owned(rs, ps, tb), NEW t, NEW N, Grown(rs, t, N)
  PROVE  InPlace(tb, rs, t)
  BY Zenon DEF Owned, Held, Grown, InPlace

\* create_process gives the new process regions nobody else has, or panics
\* with the tables as they were.
LEMMA CreateStep == ASSUME IInv, create_process PROVE IInv'
<1> DEFINE i == kmain
           n == PrivateRegions(IF i = Idle THEN 0 ELSE IMAGE_PAGES)
           a == AllocMany(Memory, n)
<1>1. /\ panic = Running /\ i <= NUSERS /\ regions' = a.mem.regions /\ panic' = a.mem.panic
      /\ procs' = [procs EXCEPT ![i] =
                     IF a.mem.panic # Running THEN [UnusedProc EXCEPT !.regions = a.list]
                     ELSE [UnusedProc EXCEPT !.pid = IF i = Idle THEN 0 ELSE i + 1,
                                             !.state = "RUNNABLE", !.regions = a.list]]
      /\ kmain' = kmain + 1
      /\ UNCHANGED <<current_proc, shm_table, next_shm_id>>
  BY Zenon DEF create_process, SetMemory
<1>2. /\ Memory \in Memories /\ Memory.regions = regions /\ Memory.panic = Running
      /\ BootKept(regions)
      /\ Owned(regions, procs, shm_table) /\ Kept(regions, procs, shm_table)
      /\ Shared(regions, procs, shm_table, next_shm_id)
      /\ procs \in [PSlots -> Process] /\ shm_table \in [OSlots -> ShmObject]
      /\ current_proc \in PSlots /\ kmain \in 0 .. NUSERS + 2 /\ next_shm_id \in 1 .. MAX_ID
  BY <1>1, RunningIInv, Zenon
<1>3. n \in Nat
  <2>1. IMAGE_PAGES \in Nat /\ KERNEL_TABLES \in Nat
    BY ProcessesAssumption, SMT
  <2> QED
    BY <2>1, SMT DEF PrivateRegions
<1>4. i \in PSlots /\ kmain' \in 0 .. NUSERS + 2 /\ i + 1 \in 0 .. PROCS_MAX /\ 0 \in 0 .. PROCS_MAX
      /\ \A p \in PSlots : p >= kmain' => p >= kmain /\ p # i
  <2>1. PROCS_MAX \in Nat /\ NUSERS \in Nat /\ NUSERS < PROCS_MAX
    BY ProcessesAssumption, SchedulerAssumption, SMT
  <2>2. i \in Nat /\ i <= NUSERS /\ kmain' = i + 1
    BY <1>1, <1>2, <2>1, SMT
  <2> HIDE DEF i
  <2>3. i \in PSlots /\ i + 1 \in 0 .. PROCS_MAX /\ 0 \in 0 .. PROCS_MAX /\ i + 1 \in 0 .. NUSERS + 2
    BY <2>1, <2>2, SMT DEF PSlots
  <2>4. \A p \in PSlots : p >= i + 1 => p >= i /\ p # i
    BY <2>2, SMT DEF PSlots
  <2> QED
    BY <2>2, <2>3, <2>4, Zenon DEF i
<1>5. procs[i] = UnusedProc
  <2>1. i >= kmain /\ kmain <= NUSERS
    BY <1>1, <1>2, ProcessesAssumption, SMT
  <2> QED
    BY <1>4, <2>1, Zenon DEF IInv
<1>6. Built(Memory, a)
  BY <1>2, <1>3, AllocManyKeeps, Zenon
<1> HIDE DEF a, n
<1>7. /\ a.mem \in Memories /\ a.list \in Seq(Slots) /\ a.mem.regions \in Tables
      /\ a.mem.panic \in {Running, OutOfMemory}
      /\ Grown(regions, a.mem.regions, Listed(a.list)) /\ Distinct(a.list)
  <2>1. a.mem \in Memories /\ a.list \in Seq(Slots) /\ a.mem.regions \in Tables
    BY <1>6, SMT DEF Built, Allocations, Memories
  <2> QED
    BY <1>2, <1>6, <2>1, Zenon DEF Built
<1>8. procs'[i] \in Process /\ procs'[i].regions = a.list
      /\ procs'[i].shm_mappings = UnusedProc.shm_mappings
  <2>1. UnusedProc \in Process
    BY UnusedIs, Zenon
  <2>2. CASE a.mem.panic # Running
    <3>1. procs'[i] = [UnusedProc EXCEPT !.regions = a.list]
      BY <1>1, <1>2, <1>4, <2>2, Zenon
    <3> QED
      BY <1>7, <2>1, <3>1, SMT DEF Process
  <2>3. CASE a.mem.panic = Running
    <3> DEFINE pid == IF i = Idle THEN 0 ELSE i + 1
    <3>1. procs'[i] = [UnusedProc EXCEPT !.pid = pid, !.state = "RUNNABLE", !.regions = a.list]
      BY <1>1, <1>2, <1>4, <2>3, Zenon
    <3>2. pid \in 0 .. PROCS_MAX
      BY <1>4, Zenon
    <3> DEFINE p1 == [UnusedProc EXCEPT !.pid = pid]
               p2 == [p1 EXCEPT !.state = "RUNNABLE"]
    <3>3. procs'[i] = [p2 EXCEPT !.regions = a.list]
      BY <3>1, Zenon
    <3> HIDE DEF pid
    <3>4. p1 \in Process /\ p1.shm_mappings = UnusedProc.shm_mappings
      BY <2>1, <3>2, SMT DEF Process
    <3> HIDE DEF p1
    <3>5. p2 \in Process /\ p2.shm_mappings = UnusedProc.shm_mappings
      BY <3>4, SMT DEF Process
    <3> HIDE DEF p2
    <3> QED
      BY <1>7, <3>3, <3>5, SMT DEF Process
  <2> QED
    BY <2>2, <2>3, Zenon
<1>9. \A p \in PSlots \ {i} : procs'[p] = procs[p]
  BY <1>1, <1>2, <1>4, Zenon
<1>10. procs' \in [PSlots -> Process]
  <2> DEFINE q == IF a.mem.panic # Running THEN [UnusedProc EXCEPT !.regions = a.list]
                  ELSE [UnusedProc EXCEPT !.pid = IF i = Idle THEN 0 ELSE i + 1,
                                          !.state = "RUNNABLE", !.regions = a.list]
  <2>1. procs' = [procs EXCEPT ![i] = q]
    BY <1>1, Zenon
  <2> HIDE DEF q
  <2>2. procs'[i] = q
    BY <1>2, <1>4, <2>1, Zenon
  <2> QED
    BY <1>2, <1>4, <1>8, <2>1, <2>2, Zenon
<1>11. Owned(regions', procs', shm_table') /\ Kept(regions', procs', shm_table') /\ BootKept(regions')
  <2>1. \A p \in PSlots \ {i} : procs'[p].regions = procs[p].regions
    BY <1>9, Zenon
  <2>2. Listed(procs'[i].regions) = Listed(procs[i].regions) \cup Listed(a.list)
    BY <1>5, <1>8, UnusedIs, ListedEmpty, Zenon
  <2>3. Distinct(procs'[i].regions)
    BY <1>7, <1>8, Zenon
  <2>4. Lengthened(procs, procs', i, Listed(a.list)) /\ SameRegions(shm_table, shm_table')
    BY <1>1, <2>1, <2>2, <2>3, Zenon DEF Lengthened, SameRegions
  <2>5. Grown(regions, regions', Listed(a.list))
    BY <1>1, <1>7, Zenon
  <2> QED
    BY <1>2, <1>4, <2>4, <2>5, ListGrows, Zenon
<1>12. Shared(regions', procs', shm_table', next_shm_id')
  <2>1. SameMappings(procs, procs')
    BY <1>5, <1>8, <1>9, Zenon DEF SameMappings
  <2>2. InPlace(shm_table, regions, regions')
    <3>1. Grown(regions, regions', Listed(a.list))
      BY <1>1, <1>7, Zenon
    <3> QED
      BY <1>2, <3>1, ObjectsStay, Zenon
  <2>3. Shared(regions', procs', shm_table, next_shm_id)
    BY <1>2, <2>1, <2>2, SharedStays, Zenon
  <2> QED
    BY <1>1, <2>3, Zenon
<1>13. kmain' <= NUSERS => \A p \in PSlots : p >= kmain' => procs'[p] = UnusedProc
  <2>1. \A p \in PSlots : p >= kmain => procs[p] = UnusedProc
    BY <1>1, Zenon DEF IInv
  <2> QED
    BY <1>4, <1>9, <2>1, Zenon
<1>14. panic' \in Status \ {NotAllocated}
  <2>1. Running # NotAllocated /\ OutOfMemory # NotAllocated
    BY SMT DEF Running, NotAllocated, OutOfMemory
  <2> QED
    BY <1>1, <1>7, <2>1, Zenon DEF Status
<1>15. regions' \in Tables
  BY <1>1, <1>7, Zenon
<1> QED
  BY <1>1, <1>2, <1>4, <1>10, <1>11, <1>12, <1>13, <1>14, <1>15, Assemble, Zenon

\* shmget hands out an object that exists or makes one with a new id and a
\* region of its own.
LEMMA GetStep == ASSUME IInv, SysShmGet PROVE IInv'
<1> DEFINE free == {o \in OSlots : ~ shm_table[o].used}
           a == AllocInto(Memory, <<>>)
           u == Head(a.list)
           o == Min(free)
<1>1. InUser /\ panic = Running
  BY Zenon DEF SysShmGet, InUser
<1>2. PICK key \in Keys : shm_get(key)
  BY Zenon DEF SysShmGet
<1> DEFINE obj == [used |-> TRUE, id |-> next_shm_id, key |-> key,
                   pa |-> a.mem.regions[u].start, region_idx |-> u, refcount |-> 0]
<1>3. /\ next_shm_id < MAX_ID /\ UNCHANGED <<procs, current_proc, kmain>>
      /\ \/ UNCHANGED <<regions, panic, shm_table, next_shm_id>>
         \/ /\ key > 0 /\ free # {}
            /\ regions' = a.mem.regions /\ panic' = a.mem.panic
            /\ IF a.list = <<>> THEN UNCHANGED <<shm_table, next_shm_id>>
               ELSE /\ shm_table' = [shm_table EXCEPT ![o] = obj]
                    /\ next_shm_id' = next_shm_id + 1
  BY <1>2, Zenon DEF shm_get, SetMemory
<1>4. /\ Memory \in Memories /\ Memory.regions = regions /\ Memory.panic = Running
      /\ BootKept(regions)
      /\ Owned(regions, procs, shm_table) /\ Kept(regions, procs, shm_table)
      /\ Shared(regions, procs, shm_table, next_shm_id)
      /\ procs \in [PSlots -> Process] /\ shm_table \in [OSlots -> ShmObject]
      /\ current_proc \in PSlots /\ kmain \in 0 .. NUSERS + 2 /\ next_shm_id \in 1 .. MAX_ID
  BY <1>1, RunningIInv, Zenon
<1>5. CASE UNCHANGED <<regions, panic, shm_table, next_shm_id>>
  <2>1. UNCHANGED vars
    BY <1>3, <1>5, Zenon DEF vars
  <2> QED
    BY <2>1, StutterStep, Zenon
<1>6. /\ Running # NotAllocated /\ OutOfMemory # NotAllocated /\ OutOfMemory # SwitchedToIdle
      /\ OutOfMemory # Running
  BY SMT DEF Running, NotAllocated, OutOfMemory, SwitchedToIdle
<1>7. kmain' <= NUSERS => \A p \in PSlots : p >= kmain' => procs'[p] = UnusedProc
  BY <1>3, Zenon DEF IInv
<1>8. regions \in Tables
  BY Zenon DEF IInv, Sound, IsTable, Tables
<1>9. \/ /\ a.mem.panic = Running
         /\ \E v \in Slots : a.list = Append(<<>>, v) /\ Grown(regions, a.mem.regions, {v})
      \/ a.mem.panic = OutOfMemory /\ a.mem.regions = regions /\ a.list = <<>>
  <2> DEFINE e == <<>>
             b == AllocInto(Memory, e)
  <2>1. e \in Seq(Slots)
    BY ListedEmpty, Zenon
  <2> HIDE DEF e
  <2>2. \/ /\ Memory.panic = Running /\ b.mem.panic = Running
           /\ \E v \in Slots : b.list = Append(e, v) /\ Grown(Memory.regions, b.mem.regions, {v})
        \/ /\ b.mem.panic \in {Memory.panic, OutOfMemory} \ {Running}
           /\ b.mem.regions = Memory.regions /\ b.list = e
    BY <1>4, <2>1, AllocIntoKeeps, Zenon
  <2> QED
    BY <1>4, <2>2, Zenon DEF e
<1> HIDE DEF a
<1>10. CASE /\ a.mem.panic = OutOfMemory /\ a.mem.regions = regions /\ a.list = <<>>
            /\ regions' = a.mem.regions /\ panic' = a.mem.panic
            /\ UNCHANGED <<shm_table, next_shm_id>>
  <2>1. panic' \in Status \ {NotAllocated}
    BY <1>6, <1>10, Zenon DEF Status
  <2>2. regions' = regions /\ UNCHANGED <<procs, current_proc, kmain, shm_table, next_shm_id>>
    BY <1>3, <1>10, Zenon
  <2> QED
    BY <1>4, <1>7, <1>8, <2>1, <2>2, Assemble, Zenon
<1>11. ASSUME free # {}, a.mem.panic = Running, NEW v \in Slots, a.list = Append(<<>>, v),
              Grown(regions, a.mem.regions, {v}),
              regions' = a.mem.regions, panic' = a.mem.panic,
              shm_table' = [shm_table EXCEPT ![o] = obj], next_shm_id' = next_shm_id + 1
       PROVE  IInv'
  <2>1. u = v
    BY <1>11, SMT
  <2>2. o \in OSlots /\ ~ shm_table[o].used
    <3>1. free \in SUBSET Nat
      BY SMT DEF OSlots
    <3>2. o \in free
      BY <1>11, <3>1, MinIsFirst, Zenon
    <3> QED
      BY <3>2, Zenon
  <2>3. regions' \in Tables /\ v \in AllocatedSlots(regions') /\ Grown(regions, regions', {v})
    BY <1>11, Zenon DEF Grown
  <2>4. regions'[v].start \in Pages
    BY <2>3, StartOwned, Zenon
  <2>5. next_shm_id \in Nat /\ next_shm_id >= 1 /\ next_shm_id \in 0 .. MAX_ID
        /\ next_shm_id' \in 1 .. MAX_ID
    <3>1. next_shm_id \in 1 .. MAX_ID /\ next_shm_id < MAX_ID /\ next_shm_id' = next_shm_id + 1
      BY <1>3, <1>4, <1>11, Zenon
    <3>2. MAX_ID \in Nat
      BY ProcessesAssumption, SMT
    <3>3. \A n \in 1 .. MAX_ID : n < MAX_ID =>
            n \in Nat /\ n >= 1 /\ n \in 0 .. MAX_ID /\ n + 1 \in 1 .. MAX_ID
      BY <3>2, SMT
    <3> QED
      BY <3>1, <3>3, Zenon
  <2>6. /\ obj \in ShmObject /\ obj.used /\ obj.id = next_shm_id /\ obj.pa = regions'[v].start
        /\ obj.region_idx = v /\ obj.refcount = 0
    <3> DEFINE pa == a.mem.regions[u].start
    <3>1. pa = regions'[v].start /\ pa \in {0} \cup Pages /\ u \in Slots /\ key \in {0} \cup Keys
      BY <1>11, <2>1, <2>4, Zenon
    <3> HIDE DEF pa
    <3>2. obj = [used |-> TRUE, id |-> next_shm_id, key |-> key, pa |-> pa,
                 region_idx |-> u, refcount |-> 0]
      BY Zenon DEF pa
    <3> HIDE DEF obj
    <3> QED
      BY <2>1, <2>5, <3>1, <3>2, SMT DEF ShmObject
  <2> HIDE DEF obj, o, free, u
  <2>7. /\ shm_table'[o] = obj /\ \A x \in OSlots \ {o} : shm_table'[x] = shm_table[x]
        /\ shm_table' \in [OSlots -> ShmObject]
    BY <1>4, <1>11, <2>2, <2>6, Zenon
  <2>8. Filled(shm_table, shm_table', o)
    BY <2>2, <2>6, <2>7, Zenon DEF Filled
  <2>9. Owned(regions', procs, shm_table') /\ Kept(regions', procs, shm_table') /\ BootKept(regions')
    <3>1. Grown(regions, regions', {shm_table'[o].region_idx})
      BY <2>3, <2>6, <2>7, Zenon
    <3> QED
      BY <1>4, <2>2, <2>8, <3>1, ObjectGrows, Zenon
  <2>10. Shared(regions', procs, shm_table', next_shm_id + 1)
    <3>1. InPlace(shm_table, regions, regions')
      BY <1>4, <2>3, ObjectsStay, Zenon
    <3>2. /\ shm_table'[o].id = next_shm_id /\ shm_table'[o].refcount = 0
          /\ shm_table'[o].pa = regions'[shm_table'[o].region_idx].start
      BY <2>6, <2>7, Zenon
    <3> QED
      BY <1>4, <2>2, <2>5, <2>8, <3>1, <3>2, SharedNew, Zenon
  <2>11. panic' \in Status \ {NotAllocated}
    BY <1>6, <1>11, Zenon DEF Status
  <2>12. Owned(regions', procs', shm_table') /\ Kept(regions', procs', shm_table')
         /\ Shared(regions', procs', shm_table', next_shm_id')
    BY <1>3, <1>11, <2>9, <2>10, Zenon
  <2> QED
    BY <1>3, <1>4, <1>7, <2>3, <2>5, <2>7, <2>9, <2>11, <2>12, Assemble, Zenon
<1>12. \A v : Append(<<>>, v) # <<>>
  BY SMT
<1> QED
  BY <1>3, <1>5, <1>9, <1>10, <1>11, <1>12, Zenon

\* The process table that shm_attach leaves.
WithMapping(ps, c, l, s, map) ==
  [ps EXCEPT ![c].regions = l, ![c].shm_l2 = TRUE, ![c].shm_mappings[s] = map]

Counted(tb, o) == [tb EXCEPT ![o].refcount = @ + 1]

\* Updates of one field of a process or an object.
LEMMA SetRegions ==
  ASSUME NEW p \in Process, NEW l \in Seq(Slots)
  PROVE  /\ [p EXCEPT !.regions = l] \in Process /\ [p EXCEPT !.regions = l].regions = l
         /\ [p EXCEPT !.regions = l].shm_mappings = p.shm_mappings
<1> DEFINE L == Seq(Slots)
           M == [MSlots -> Mapping]
           N == 0 .. PROCS_MAX
<1>1. Process = [pid : N, state : {"UNUSED", "RUNNABLE"}, regions : L, shm_l2 : BOOLEAN,
                 shm_mappings : M] /\ l \in L
  BY Zenon DEF Process
<1> HIDE DEF L, M, N
<1> QED
  BY <1>1, SMT

\* So does recording that the second-level table exists.
LEMMA SetL2 ==
  ASSUME NEW p \in Process, NEW b \in BOOLEAN
  PROVE  /\ [p EXCEPT !.shm_l2 = b] \in Process
         /\ [p EXCEPT !.shm_l2 = b].regions = p.regions
         /\ [p EXCEPT !.shm_l2 = b].shm_mappings = p.shm_mappings
  BY SMT DEF Process

\* So does replacing the mappings.
LEMMA SetMappings ==
  ASSUME NEW p \in Process, NEW ms \in [MSlots -> Mapping]
  PROVE  /\ [p EXCEPT !.shm_mappings = ms] \in Process
         /\ [p EXCEPT !.shm_mappings = ms].regions = p.regions
         /\ [p EXCEPT !.shm_mappings = ms].shm_mappings = ms
  BY SMT DEF Process

\* refcount++ changes nothing but the count.
LEMMA CountUp ==
  ASSUME NEW b \in ShmObject
  PROVE  LET d == [b EXCEPT !.refcount = b.refcount + 1]
         IN  /\ d \in ShmObject /\ d.used = b.used /\ d.id = b.id /\ d.pa = b.pa
             /\ d.region_idx = b.region_idx /\ d.refcount = b.refcount + 1
  BY SMT DEF ShmObject

\* What shm_attach has done to the process table when it returns an address.
LEMMA AttachedIs ==
  ASSUME NEW ps \in [PSlots -> Process], NEW c \in PSlots, NEW l \in Seq(Slots),
         NEW s \in MSlots, NEW map \in Mapping, NEW qs, qs = WithMapping(ps, c, l, s, map)
  PROVE  /\ qs \in [PSlots -> Process] /\ \A p \in PSlots \ {c} : qs[p] = ps[p]
         /\ qs[c].regions = l /\ qs[c].shm_mappings[s] = map
         /\ \A i \in MSlots \ {s} : qs[c].shm_mappings[i] = ps[c].shm_mappings[i]
<1> DEFINE p1 == [ps[c] EXCEPT !.regions = l]
           p2 == [p1 EXCEPT !.shm_l2 = TRUE]
           p3 == [p2 EXCEPT !.shm_mappings[s] = map]
           ps1 == [ps EXCEPT ![c].regions = l]
           ps2 == [ps1 EXCEPT ![c].shm_l2 = TRUE]
<1>1. qs = [ps2 EXCEPT ![c].shm_mappings[s] = map]
  BY Zenon DEF WithMapping
<1>2. ps[c] \in Process
  BY Zenon
<1>3. p1 \in Process /\ p1.regions = l /\ p1.shm_mappings = ps[c].shm_mappings
  BY <1>2, SetRegions, Zenon
<1>4. ps1 \in [PSlots -> Process] /\ (\A p \in PSlots \ {c} : ps1[p] = ps[p]) /\ ps1[c] = p1
  <2>1. ps1 = [ps EXCEPT ![c] = p1]
    BY Zenon
  <2> HIDE DEF ps1, p1
  <2> QED
    BY <1>3, <2>1, Zenon
<1>5. p2 \in Process /\ p2.regions = l /\ p2.shm_mappings = ps[c].shm_mappings
  <2> HIDE DEF p1
  <2> QED
    BY <1>3, SetL2, Zenon
<1>6. ps2 \in [PSlots -> Process] /\ (\A p \in PSlots \ {c} : ps2[p] = ps[p]) /\ ps2[c] = p2
  <2> HIDE DEF ps1, p1
  <2>1. ps2 = [ps1 EXCEPT ![c] = p2]
    BY <1>4, Zenon
  <2> HIDE DEF ps2, p2
  <2> QED
    BY <1>4, <1>5, <2>1, Zenon
<1>7. ps[c].shm_mappings \in [MSlots -> Mapping]
  BY <1>2, SMT DEF Process
<1>8. p3 \in Process /\ p3.regions = l /\ p3.shm_mappings = [ps[c].shm_mappings EXCEPT ![s] = map]
  <2> HIDE DEF p2
  <2>1. p3 = [p2 EXCEPT !.shm_mappings = [p2.shm_mappings EXCEPT ![s] = map]]
    BY Zenon
  <2> DEFINE ms == [p2.shm_mappings EXCEPT ![s] = map]
  <2>2. ms = [ps[c].shm_mappings EXCEPT ![s] = map] /\ ms \in [MSlots -> Mapping]
    BY <1>5, <1>7, Zenon
  <2> HIDE DEF ms, p3
  <2>3. p3 \in Process /\ p3.regions = l /\ p3.shm_mappings = ms
    BY <1>5, <2>1, <2>2, SetMappings, Zenon DEF ms
  <2> QED
    BY <2>2, <2>3, Zenon
<1>9. qs \in [PSlots -> Process] /\ (\A p \in PSlots \ {c} : qs[p] = ps[p]) /\ qs[c] = p3
  <2> HIDE DEF ps2, p2
  <2>1. qs = [ps2 EXCEPT ![c] = p3]
    BY <1>1, <1>6, Zenon
  <2> HIDE DEF p3
  <2> QED
    BY <1>6, <1>8, <2>1, Zenon
<1> HIDE DEF p3
<1> QED
  BY <1>7, <1>8, <1>9, Zenon

\* What is left to show of the tables when shm_attach is through.
AttachDone(t, qs, ub, nx) ==
  /\ qs \in [PSlots -> Process] /\ ub \in [OSlots -> ShmObject]
  /\ Owned(t, qs, ub) /\ Kept(t, qs, ub) /\ BootKept(t) /\ Shared(t, qs, ub, nx)

\* shm_attach has an object, a free mapping and a list that holds the page of
\* the second-level table if there had to be one.
Attaching(ps, tb, c, l, N, o, s, map) ==
  /\ c \in PSlots /\ s \in MSlots /\ ~ ps[c].shm_mappings[s].used
  /\ l \in Seq(Slots) /\ Distinct(l) /\ Listed(l) = Listed(ps[c].regions) \cup N
  /\ o \in OSlots /\ tb[o].used
  /\ map \in Mapping /\ map.used /\ map.shm_id = tb[o].id /\ map.pa = tb[o].pa

\* One more mapping, and perhaps one more region for its table.
LEMMA AttachKeeps ==
  ASSUME NEW rs, NEW ps \in [PSlots -> Process], NEW tb \in [OSlots -> ShmObject], NEW nx,
         Owned(rs, ps, tb), Kept(rs, ps, tb), Shared(rs, ps, tb, nx), BootKept(rs),
         NEW t, NEW N, Grown(rs, t, N), NEW c, NEW l, NEW o, NEW s, NEW map,
         Attaching(ps, tb, c, l, N, o, s, map)
  PROVE  AttachDone(t, WithMapping(ps, c, l, s, map), Counted(tb, o), nx)
<1> DEFINE qs == WithMapping(ps, c, l, s, map)
           ub == Counted(tb, o)
<1>0. /\ c \in PSlots /\ s \in MSlots /\ l \in Seq(Slots) /\ o \in OSlots /\ map \in Mapping
  BY Zenon DEF Attaching
<1>1. /\ qs \in [PSlots -> Process] /\ \A p \in PSlots \ {c} : qs[p] = ps[p]
      /\ qs[c].regions = l /\ qs[c].shm_mappings[s] = map
      /\ \A i \in MSlots \ {s} : qs[c].shm_mappings[i] = ps[c].shm_mappings[i]
  BY <1>0, AttachedIs
<1> USE DEF Attaching
<1>2. /\ ub \in [OSlots -> ShmObject] /\ \A x \in OSlots \ {o} : ub[x] = tb[x]
      /\ ub[o].used = tb[o].used /\ ub[o].id = tb[o].id /\ ub[o].pa = tb[o].pa
      /\ ub[o].region_idx = tb[o].region_idx /\ ub[o].refcount = tb[o].refcount + 1
  <2> DEFINE ob == [tb[o] EXCEPT !.refcount = @ + 1]
  <2>1. ub = [tb EXCEPT ![o] = ob]
    BY Zenon DEF Counted
  <2>2. tb[o] \in ShmObject
    BY Zenon
  <2>3. /\ ob \in ShmObject /\ ob.used = tb[o].used /\ ob.id = tb[o].id /\ ob.pa = tb[o].pa
        /\ ob.region_idx = tb[o].region_idx /\ ob.refcount = tb[o].refcount + 1
    BY <2>2, CountUp, Zenon
  <2> HIDE DEF ob
  <2> QED
    BY <2>1, <2>3, Zenon
<1> HIDE DEF qs, ub
<1>3. Owned(t, qs, ub) /\ Kept(t, qs, ub) /\ BootKept(t)
  <2>1. \A p \in PSlots \ {c} : qs[p].regions = ps[p].regions
    BY <1>1, Zenon
  <2>2. Listed(qs[c].regions) = Listed(ps[c].regions) \cup N /\ Distinct(qs[c].regions)
    BY <1>1, Zenon
  <2>3. Lengthened(ps, qs, c, N) /\ SameRegions(tb, ub)
    BY <1>2, <2>1, <2>2, Zenon DEF Lengthened, SameRegions
  <2> QED
    BY <2>3, ListGrows, Zenon
<1>4. Shared(t, qs, ub, nx)
  <2>1. InPlace(tb, rs, t)
    BY ObjectsStay, Zenon
  <2>2. \A p \in PSlots, i \in MSlots :
          ~ (p = c /\ i = s) => qs[p].shm_mappings[i] = ps[p].shm_mappings[i]
    BY <1>1, Zenon
  <2>3. Counts(tb, ub, o, tb[o].refcount + 1) /\ Mapped(ps, qs, c, s, map)
    BY <1>1, <1>2, <2>2, Zenon DEF Counts, Mapped
  <2> QED
    BY <2>1, <2>3, SharedAttach, Zenon
<1> QED
  BY <1>1, <1>2, <1>3, <1>4, Zenon DEF AttachDone, qs, ub

\* shm_attach adds a mapping and counts it, whichever of its returns it takes.
LEMMA AttachStep == ASSUME IInv, SysShmAttach PROVE IInv'
<1>1. InUser /\ panic = Running
  BY Zenon DEF SysShmAttach, InUser
<1>2. PICK id \in 0 .. MAX_ID : shm_attach(id)
  BY Zenon DEF SysShmAttach
<1> DEFINE c == current_proc
           proc == procs[c]
           objs == find_by_id(shm_table, id)
           slots == FreeMappings(proc)
           a == IF proc.shm_l2 THEN [mem |-> Memory, list |-> proc.regions]
                ELSE AllocInto(Memory, proc.regions)
           o == Min(objs)
           s == Min(slots)
           map == [used |-> TRUE, shm_id |-> id, pa |-> shm_table[o].pa]
<1>3. /\ UNCHANGED <<current_proc, kmain, next_shm_id>>
      /\ \/ UNCHANGED <<regions, panic, procs, shm_table>>
         \/ /\ objs # {} /\ slots # {}
            /\ regions' = a.mem.regions /\ panic' = a.mem.panic
            /\ IF a.mem.panic # Running THEN UNCHANGED <<procs, shm_table>>
               ELSE /\ procs' = WithMapping(procs, c, a.list, s, map)
                    /\ shm_table' = Counted(shm_table, o)
  BY <1>2, Zenon DEF shm_attach, SetMemory, WithMapping, Counted
<1>4. /\ Memory \in Memories /\ Memory.regions = regions /\ Memory.panic = Running
      /\ BootKept(regions)
      /\ Owned(regions, procs, shm_table) /\ Kept(regions, procs, shm_table)
      /\ Shared(regions, procs, shm_table, next_shm_id)
      /\ procs \in [PSlots -> Process] /\ shm_table \in [OSlots -> ShmObject]
      /\ c \in PSlots /\ kmain \in 0 .. NUSERS + 2 /\ next_shm_id \in 1 .. MAX_ID
  BY <1>1, RunningIInv, Zenon
<1>5. CASE UNCHANGED <<regions, panic, procs, shm_table>>
  <2>1. UNCHANGED vars
    BY <1>3, <1>5, Zenon DEF vars
  <2> QED
    BY <2>1, StutterStep, Zenon
<1>6. /\ Running # NotAllocated /\ OutOfMemory # NotAllocated /\ OutOfMemory # Running
  BY SMT DEF Running, NotAllocated, OutOfMemory
<1>7. regions \in Tables
  BY Zenon DEF IInv, Sound, IsTable, Tables
<1>8. proc \in Process
  BY <1>4, Zenon
<1>9. proc.regions \in Seq(Slots)
  <2> HIDE DEF proc
  <2> QED
    BY <1>8, SMT DEF Process
<1>10. Distinct(proc.regions) /\ Listed(proc.regions) \subseteq AllocatedSlots(regions)
  BY <1>4, Zenon DEF Owned, Held
<1>11. \/ a.mem.panic = OutOfMemory /\ a.mem.regions = regions
       \/ /\ a.mem.panic = Running /\ a.list \in Seq(Slots) /\ Distinct(a.list)
          /\ \E N : /\ Grown(regions, a.mem.regions, N)
                    /\ Listed(a.list) = Listed(proc.regions) \cup N
  <2>1. CASE proc.shm_l2
    <3>1. a = [mem |-> Memory, list |-> proc.regions]
      BY <2>1, Zenon
    <3> HIDE DEF a
    <3>2. a.mem = Memory /\ a.list = proc.regions
      BY <3>1, SMT
    <3>3. Grown(regions, regions, {})
      BY <1>7, Zenon DEF Grown
    <3>4. Listed(a.list) = Listed(proc.regions) \cup {}
      BY <3>2, Zenon
    <3> QED
      BY <1>4, <1>9, <1>10, <3>2, <3>3, <3>4, Zenon
  <2>2. CASE ~ proc.shm_l2
    <3>1. a = AllocInto(Memory, proc.regions)
      BY <2>2, Zenon
    <3> HIDE DEF a, proc
    <3>2. \/ /\ a.mem.panic = Running
             /\ \E u \in Slots : /\ a.list = Append(proc.regions, u)
                                 /\ Grown(regions, a.mem.regions, {u})
          \/ a.mem.panic = OutOfMemory /\ a.mem.regions = regions
      <4> DEFINE b == AllocInto(Memory, proc.regions)
      <4>1. \/ /\ Memory.panic = Running /\ b.mem.panic = Running
               /\ \E u \in Slots : /\ b.list = Append(proc.regions, u)
                                   /\ Grown(Memory.regions, b.mem.regions, {u})
            \/ /\ b.mem.panic \in {Memory.panic, OutOfMemory} \ {Running}
               /\ b.mem.regions = Memory.regions
               /\ b.list = proc.regions
        <5>1. Memory \in Memories
          BY <1>4, Zenon
        <5> HIDE DEF c
        <5> QED
          BY <1>9, <5>1, AllocIntoKeeps, Zenon
      <4> QED
        BY <1>4, <3>1, <4>1, Zenon
    <3>3. ASSUME a.mem.panic = Running, NEW u \in Slots, a.list = Append(proc.regions, u),
                 Grown(regions, a.mem.regions, {u})
          PROVE  /\ a.list \in Seq(Slots) /\ Distinct(a.list)
                 /\ Listed(a.list) = Listed(proc.regions) \cup {u}
      <4>1. u \notin Listed(proc.regions)
        BY <1>10, <3>3, Zenon DEF Grown
      <4>2. /\ Append(proc.regions, u) \in Seq(Slots)
            /\ Listed(Append(proc.regions, u)) = Listed(proc.regions) \cup {u}
            /\ u \notin Listed(proc.regions) /\ Distinct(proc.regions)
                 => Distinct(Append(proc.regions, u))
        BY <1>9, ListedAppend
      <4> QED
        BY <1>10, <3>3, <4>1, <4>2, Zenon
    <3> QED
      BY <1>4, <3>2, <3>3, Zenon
  <2> QED
    BY <2>1, <2>2, Zenon
<1> HIDE DEF a
<1>12. CASE /\ a.mem.panic = OutOfMemory /\ a.mem.regions = regions
            /\ regions' = a.mem.regions /\ panic' = a.mem.panic
            /\ UNCHANGED <<procs, shm_table>>
  <2>1. panic' \in Status \ {NotAllocated}
    BY <1>6, <1>12, Zenon DEF Status
  <2>2. regions' = regions /\ UNCHANGED <<procs, current_proc, kmain, shm_table, next_shm_id>>
    BY <1>3, <1>12, Zenon
  <2>3. ~ (kmain' <= NUSERS)
    BY <1>1, <2>2, BootOver, Zenon
  <2> QED
    BY <1>4, <1>7, <2>1, <2>2, <2>3, Assemble, Zenon
<1>13. ASSUME objs # {}, slots # {}, a.mem.panic = Running, a.list \in Seq(Slots),
              Distinct(a.list), NEW N, Grown(regions, a.mem.regions, N),
              Listed(a.list) = Listed(proc.regions) \cup N,
              regions' = a.mem.regions, panic' = a.mem.panic,
              procs' = WithMapping(procs, c, a.list, s, map),
              shm_table' = Counted(shm_table, o)
       PROVE  IInv'
  <2>1. o \in OSlots /\ shm_table[o].used /\ shm_table[o].id = id
    <3>1. objs \in SUBSET Nat
      BY SMT DEF find_by_id, OSlots
    <3>2. o \in objs
      BY <1>13, <3>1, MinIsFirst, Zenon
    <3> QED
      BY <3>2, Zenon DEF find_by_id
  <2>2. s \in MSlots /\ ~ procs[c].shm_mappings[s].used
    <3>1. slots \in SUBSET Nat
      BY SMT DEF FreeMappings, MSlots
    <3>2. s \in slots
      BY <1>13, <3>1, MinIsFirst, Zenon
    <3> QED
      BY <3>2, Zenon DEF FreeMappings
  <2>3. map \in Mapping /\ map.used /\ map.shm_id = id /\ map.pa = shm_table[o].pa
    <3> DEFINE pa == shm_table[o].pa
    <3>1. shm_table[o] \in ShmObject
      BY <1>4, <2>1, Zenon
    <3>2. pa \in {0} \cup Pages
      BY <3>1, SMT DEF ShmObject
    <3> HIDE DEF pa, o
    <3>3. map = [used |-> TRUE, shm_id |-> id, pa |-> pa]
      BY Zenon DEF pa
    <3> HIDE DEF map
    <3>4. map \in Mapping /\ map.used /\ map.shm_id = id /\ map.pa = pa
      BY <3>2, <3>3, SMT DEF Mapping
    <3> QED
      BY <3>4, Zenon DEF pa
  <2> HIDE DEF map, o, s, objs, slots, proc, c
  <2>4. Listed(a.list) = Listed(procs[c].regions) \cup N /\ map.shm_id = shm_table[o].id
    BY <1>13, <2>1, <2>3, Zenon DEF proc
  <2>5. Grown(regions, regions', N) /\ Attaching(procs, shm_table, c, a.list, N, o, s, map)
    BY <1>4, <1>13, <2>1, <2>2, <2>3, <2>4, Zenon DEF Attaching
  <2>6. /\ procs' \in [PSlots -> Process] /\ shm_table' \in [OSlots -> ShmObject]
        /\ Owned(regions', procs', shm_table') /\ Kept(regions', procs', shm_table')
        /\ BootKept(regions') /\ Shared(regions', procs', shm_table', next_shm_id)
    <3>1. AttachDone(regions', WithMapping(procs, c, a.list, s, map), Counted(shm_table, o),
                   next_shm_id)
      BY <1>4, <2>5, AttachKeeps, Zenon
    <3> QED
      BY <1>13, <3>1, Zenon DEF AttachDone
  <2>7. panic' \in Status \ {NotAllocated}
    BY <1>6, <1>13, Zenon DEF Status
  <2>8. regions' \in Tables
    BY <2>5, Zenon DEF Grown
  <2>9. ~ (kmain' <= NUSERS)
    BY <1>1, <1>3, BootOver, Zenon
  <2>10. Shared(regions', procs', shm_table', next_shm_id')
    BY <1>3, <2>6, Zenon
  <2> QED
    BY <1>3, <1>4, <2>6, <2>7, <2>8, <2>9, <2>10, Assemble, Zenon DEF c
<1>14. CASE /\ objs # {} /\ slots # {}
            /\ regions' = a.mem.regions /\ panic' = a.mem.panic
            /\ IF a.mem.panic # Running THEN UNCHANGED <<procs, shm_table>>
               ELSE /\ procs' = WithMapping(procs, c, a.list, s, map)
                    /\ shm_table' = Counted(shm_table, o)
  <2> HIDE DEF objs, slots, proc, c, o, s, map
  <2>1. CASE a.mem.panic = OutOfMemory /\ a.mem.regions = regions
    BY <1>6, <1>12, <1>14, <2>1, Zenon
  <2>2. CASE /\ a.mem.panic = Running /\ a.list \in Seq(Slots) /\ Distinct(a.list)
             /\ \E N : /\ Grown(regions, a.mem.regions, N)
                       /\ Listed(a.list) = Listed(proc.regions) \cup N
    BY <1>13, <1>14, <2>2, Zenon
  <2> QED
    BY <1>11, <2>1, <2>2, Zenon
<1> QED
  BY <1>3, <1>5, <1>14, Zenon

\* Where shm_detach and exit start from.
LEMMA StartGood ==
  ASSUME IInv, panic = Running
  PROVE  Good([mem |-> Memory, proc |-> procs[current_proc], table |-> shm_table],
              procs, current_proc, next_shm_id)
<1> DEFINE c == current_proc
           k == [mem |-> Memory, proc |-> procs[c], table |-> shm_table]
<1>1. /\ Memory \in Memories /\ Memory.regions = regions /\ Memory.panic = Running
      /\ BootKept(regions)
      /\ Owned(regions, procs, shm_table) /\ Kept(regions, procs, shm_table)
      /\ Shared(regions, procs, shm_table, next_shm_id)
      /\ procs \in [PSlots -> Process] /\ shm_table \in [OSlots -> ShmObject] /\ c \in PSlots
  BY RunningIInv, Zenon
<1>2. procs[c] \in Process /\ Placed(procs, c, procs[c]) = procs
  BY <1>1, Zenon DEF Placed
<1> DEFINE p == procs[c]
<1>3. k.mem = Memory /\ k.proc = p /\ k.table = shm_table
  BY SMT
<1>4. k \in Kernels
  <2>1. p \in Process
    BY <1>2, Zenon
  <2> HIDE DEF p
  <2>2. [mem |-> Memory, proc |-> p, table |-> shm_table] \in Kernels
    BY <1>1, <2>1, SMT DEF Kernels
  <2> QED
    BY <2>2, Zenon DEF p
<1> HIDE DEF k
<1>5. Good(k, procs, c, next_shm_id)
  BY <1>1, <1>2, <1>3, <1>4, Zenon DEF Good
<1> QED
  BY <1>5, Zenon DEF k

\* Where they end.
LEMMA EndGood ==
  ASSUME IInv, InUser, NEW k, Good(k, procs, current_proc, next_shm_id),
         regions' = k.mem.regions, panic' = k.mem.panic,
         procs' = [procs EXCEPT ![current_proc] = k.proc], shm_table' = k.table,
         current_proc' \in PSlots, UNCHANGED <<kmain, next_shm_id>>
  PROVE  IInv'
<1>1. k \in Kernels
  BY Zenon DEF Good
<1>2. k.mem \in Memories /\ k.proc \in Process /\ k.table \in [OSlots -> ShmObject]
  BY <1>1, SMT DEF Kernels
<1>3. k.mem.regions \in Tables
  BY <1>2, SMT DEF Memories
<1>4. /\ procs \in [PSlots -> Process] /\ current_proc \in PSlots
      /\ kmain \in 0 .. NUSERS + 2 /\ next_shm_id \in 1 .. MAX_ID
  BY Zenon DEF IInv, TypeOK
<1>5. procs' = Placed(procs, current_proc, k.proc)
  BY Zenon DEF Placed
<1>6. procs' \in [PSlots -> Process]
  BY <1>2, <1>4, <1>5, PlacedIs, Zenon
<1>7. Running \in Status \ {NotAllocated}
  <2>1. Running # NotAllocated
    BY SMT DEF Running, NotAllocated
  <2> QED
    BY <2>1, Zenon DEF Status
<1>8. ~ (kmain' <= NUSERS)
  BY BootOver, Zenon
<1>9. /\ panic' = Running /\ BootKept(regions') /\ Owned(regions', procs', shm_table')
      /\ Kept(regions', procs', shm_table') /\ Shared(regions', procs', shm_table', next_shm_id')
  BY <1>5, Zenon DEF Good
<1> QED
  BY <1>2, <1>3, <1>4, <1>6, <1>7, <1>8, <1>9, Assemble, Zenon

\* shm_detach drops a mapping, and its object with the last one.
LEMMA DetachStep == ASSUME IInv, SysShmDetach PROVE IInv'
<1>1. InUser /\ panic = Running
  BY Zenon DEF SysShmDetach, InUser
<1>2. PICK v \in 0 .. PROC_SHM_MAX : shm_detach(v)
  BY Zenon DEF SysShmDetach
<1> DEFINE k0 == [mem |-> Memory, proc |-> procs[current_proc], table |-> shm_table]
           k == Detach(k0, v)
<1>3. /\ UNCHANGED <<current_proc, kmain, next_shm_id>>
      /\ \/ UNCHANGED <<regions, panic, procs, shm_table>>
         \/ /\ Attached(v)
            /\ regions' = k.mem.regions /\ panic' = k.mem.panic
            /\ procs' = [procs EXCEPT ![current_proc] = k.proc]
            /\ shm_table' = k.table
  BY <1>2, Zenon DEF shm_detach, SetMemory
<1>4. CASE UNCHANGED <<regions, panic, procs, shm_table>>
  <2>1. UNCHANGED vars
    BY <1>3, <1>4, Zenon DEF vars
  <2> QED
    BY <2>1, StutterStep, Zenon
<1>5. CASE /\ Attached(v) /\ regions' = k.mem.regions /\ panic' = k.mem.panic
           /\ procs' = [procs EXCEPT ![current_proc] = k.proc] /\ shm_table' = k.table
  <2>1. Good(k0, procs, current_proc, next_shm_id)
    BY <1>1, StartGood, Zenon
  <2>2. k0.proc = procs[current_proc]
    BY SMT
  <2> HIDE DEF k0
  <2>3. v \in MSlots /\ k0.proc.shm_mappings[v].used
    BY <1>5, <2>2, Zenon DEF Attached
  <2>4. procs \in [PSlots -> Process] /\ current_proc \in PSlots
    BY Zenon DEF IInv, TypeOK
  <2>5. Good(k, procs, current_proc, next_shm_id)
    BY <2>1, <2>3, <2>4, DetachKeeps, Zenon
  <2> HIDE DEF k
  <2>6. current_proc' \in PSlots /\ UNCHANGED <<kmain, next_shm_id>>
    BY <1>3, <2>4, Zenon
  <2> QED
    BY <1>1, <1>5, <2>5, <2>6, EndGood, Zenon
<1> QED
  BY <1>3, <1>4, <1>5, Zenon

\* exit gives back the mappings and the regions of the process and goes on as
\* the next one.
LEMMA ExitStep == ASSUME IInv, exit PROVE IInv'
<1> DEFINE k0 == [mem |-> Memory, proc |-> procs[current_proc], table |-> shm_table]
           k == release_process(k0)
<1>1. /\ InUser /\ regions' = k.mem.regions /\ panic' = k.mem.panic
      /\ procs' = [procs EXCEPT ![current_proc] = k.proc] /\ shm_table' = k.table
      /\ current_proc' = PickNext(procs', current_proc) /\ UNCHANGED <<kmain, next_shm_id>>
  BY Zenon DEF exit, SetMemory
<1>2. panic = Running
  BY <1>1, Zenon DEF InUser
<1>3. Good(k0, procs, current_proc, next_shm_id)
  BY <1>2, StartGood, Zenon
<1>4. procs \in [PSlots -> Process] /\ current_proc \in PSlots
  BY Zenon DEF IInv, TypeOK
<1> HIDE DEF k0
<1>5. Good(k, procs, current_proc, next_shm_id) /\ k.proc = UnusedProc
  BY <1>3, <1>4, ReleaseProcessKeeps, Zenon
<1> HIDE DEF k
<1>6. procs' \in [PSlots -> Process]
  BY <1>1, <1>4, <1>5, UnusedIs, Zenon
<1>7. current_proc' \in PSlots
  BY <1>1, <1>4, <1>6, PickNextSlot, Zenon
<1> QED
  BY <1>1, <1>5, <1>7, EndGood, Zenon

\* The invariant is inductive.
LEMMA StepIInv == ASSUME IInv, [Next]_vars PROVE IInv'
  BY StutterStep, CreateStep, YieldStep, GetStep, AttachStep, DetachStep, ExitStep, Zenon
     DEF Next

\* Every reachable state of Processes satisfies IInv.
THEOREM ProcessesInvariance == Spec => []IInv
<1>1. Init => IInv
  BY InitIInv, Zenon
<1>2. IInv /\ [Next]_vars => IInv'
  BY StepIInv, Zenon
<1> QED
  BY <1>1, <1>2, PTL DEF Spec

-----------------------------------------------------------------------------
(* The properties. *)

\* The tables keep their types.
THEOREM TypesKept == Spec => []TypeOK
<1>1. IInv => TypeOK
  BY Zenon DEF IInv
<1> QED
  BY <1>1, ProcessesInvariance, PTL

\* No release_pages of exit or shm_detach is called for a region that is not
\* allocated, so its PANIC is unreachable.
THEOREM NoBadRelease == Spec => [](panic # NotAllocated)
<1>1. IInv => panic # NotAllocated
  BY Zenon DEF IInv
<1> QED
  BY <1>1, ProcessesInvariance, PTL

\* The reference count of an object is the number of its mappings.
THEOREM RefCounts == Spec => []RefCountExact
<1>1. IInv => RefCountExact
  <2> SUFFICES ASSUME IInv, NEW o \in Objects
               PROVE  shm_table[o].refcount = Cardinality(MappingsOf(shm_table[o].id))
    BY Zenon DEF RefCountExact
  <2>1. o \in OSlots /\ shm_table[o].used
    BY Zenon DEF Objects
  <2>2. shm_table[o].refcount = Cardinality(Maps(procs, shm_table[o].id))
    BY <2>1, Zenon DEF IInv, Sound, Shared
  <2>3. \A id : MappingsOf(id) = Maps(procs, id)
    BY Zenon DEF MappingsOf, Maps
  <2> QED
    BY <2>2, <2>3, Zenon
<1> QED
  BY <1>1, ProcessesInvariance, PTL

\* No page-table entry of the window outlives the object it maps, and the page
\* it points to belongs to that object's region.
THEOREM NoDangling == Spec => []NoDanglingMapping
<1>1. IInv => NoDanglingMapping
  <2> SUFFICES ASSUME IInv, NEW p \in PSlots, NEW i \in MSlots,
                      \/ procs[p].shm_mappings[i].used
                      \/ procs[p].shm_mappings[i].pa # 0
               PROVE  \E o \in Objects :
                        /\ shm_table[o].id = procs[p].shm_mappings[i].shm_id
                        /\ shm_table[o].pa = procs[p].shm_mappings[i].pa
                        /\ OwnerOf(regions, procs[p].shm_mappings[i].pa) = shm_table[o].region_idx
    BY Zenon DEF NoDanglingMapping
  <2> DEFINE map == procs[p].shm_mappings[i]
  <2>1. OfObject(map, shm_table) /\ Owned(regions, procs, shm_table)
        /\ Shared(regions, procs, shm_table, next_shm_id) /\ regions \in Tables
    BY Zenon DEF IInv, Sound, Shared, Tables, IsTable
  <2>2. map.used
    <3>1. NoMapping.pa = 0
      BY SMT DEF NoMapping
    <3> QED
      BY <2>1, <3>1, Zenon DEF OfObject
  <2>3. PICK o \in OSlots : /\ shm_table[o].used /\ shm_table[o].id = map.shm_id
                            /\ shm_table[o].pa = map.pa
    BY <2>1, <2>2, Zenon DEF OfObject
  <2>4. shm_table[o].pa = regions[shm_table[o].region_idx].start
        /\ shm_table[o].region_idx \in AllocatedSlots(regions)
    BY <2>1, <2>3, Zenon DEF Shared, Owned, Held
  <2>5. OwnerOf(regions, regions[shm_table[o].region_idx].start) = shm_table[o].region_idx
    BY <2>1, <2>4, StartOwned, Zenon
  <2>6. o \in Objects
    BY <2>3, Zenon DEF Objects
  <2> QED
    BY <2>3, <2>4, <2>5, <2>6, Zenon
<1> QED
  BY <1>1, ProcessesInvariance, PTL

\* A claim is an entry of a list or an object.
LEMMA ClaimIs ==
  ASSUME NEW c \in Claims
  PROVE  \/ \E p \in PSlots, i \in 1 .. MAX_REGIONS :
              /\ c = <<"proc", p, i>>
              /\ Live(c) <=> i <= Len(procs[p].regions)
              /\ Claimed(c) = procs[p].regions[i]
         \/ \E o \in OSlots : /\ c = <<"shm", o, 0>>
                              /\ Live(c) <=> shm_table[o].used
                              /\ Claimed(c) = shm_table[o].region_idx
<1>1. ASSUME NEW p \in PSlots, NEW i \in 1 .. MAX_REGIONS, c = <<"proc", p, i>>
      PROVE  (Live(c) <=> i <= Len(procs[p].regions)) /\ Claimed(c) = procs[p].regions[i]
  <2>1. c[1] = "proc" /\ c[2] = p /\ c[3] = i
    BY <1>1, SMT
  <2> QED
    BY <2>1, Zenon DEF Live, Claimed
<1>2. ASSUME NEW o \in OSlots, c = <<"shm", o, 0>>
      PROVE  (Live(c) <=> shm_table[o].used) /\ Claimed(c) = shm_table[o].region_idx
  <2>1. c[1] = "shm" /\ c[2] = o /\ "shm" # "proc"
    BY <1>2, SMT
  <2> QED
    BY <2>1, Zenon DEF Live, Claimed
<1>3. \/ \E p \in PSlots, i \in 1 .. MAX_REGIONS : c = <<"proc", p, i>>
      \/ \E o \in OSlots : c = <<"shm", o, 0>>
  BY SMT DEF Claims
<1> QED
  BY <1>1, <1>2, <1>3, Zenon

\* A list without repetition is no longer than the table.
LEMMA ListFits ==
  ASSUME NEW l \in Seq(Slots), Distinct(l)
  PROVE  Len(l) <= MAX_REGIONS
<1>1. Len(l) \in Nat /\ MAX_REGIONS \in Nat /\ MAX_REGIONS - 1 \in Int /\ 0 \in Int /\ 1 \in Int
      /\ Len(l) \in Int /\ MAX_REGIONS > 0 /\ l \in [1 .. Len(l) -> Slots]
  BY RegionsAssumption, SMT
<1>2. l \in Injection(1 .. Len(l), Slots)
  BY <1>1, Zenon DEF Injection, IsInjective, Distinct
<1>3. IsFiniteSet(Slots) /\ Cardinality(Slots) = MAX_REGIONS
  <2>1. /\ IsFiniteSet(Slots)
        /\ Cardinality(Slots) = IF 0 > MAX_REGIONS - 1 THEN 0 ELSE MAX_REGIONS - 1 - 0 + 1
    BY <1>1, FS_Interval, Zenon DEF Slots
  <2> QED
    BY <1>1, <2>1, SMT
<1>4. Cardinality(1 .. Len(l)) <= Cardinality(Slots)
  BY <1>2, <1>3, FS_Injection, Zenon
<1>5. Cardinality(1 .. Len(l)) = IF 1 > Len(l) THEN 0 ELSE Len(l) - 1 + 1
  BY <1>1, FS_Interval, Zenon
<1> QED
  BY <1>1, <1>3, <1>4, <1>5, SMT

\* No region has two owners, every owned region is allocated and none is the
\* drivers': nobody's release frees memory that somebody else uses.
THEOREM OneOwner == Spec => []OwnershipExact
<1>1. IInv => OwnershipExact
  <2> SUFFICES ASSUME IInv, NEW c \in Claims, Live(c)
               PROVE  /\ Claimed(c) \in AllocatedSlots(regions)
                      /\ Claimed(c) \notin 1 .. BOOT_REGIONS
                      /\ \A d \in Claims \ {c} : Live(d) => Claimed(d) # Claimed(c)
    BY Zenon DEF OwnershipExact
  <2>1. Owned(regions, procs, shm_table)
    BY Zenon DEF IInv, Sound
  <2>2. \A i \in 1 .. MAX_REGIONS, n \in Nat : i <= n => i \in 1 .. n
    BY RegionsAssumption, SMT
  <2>3. \A p \in PSlots : Len(procs[p].regions) \in Nat
    <3>1. ASSUME NEW p \in PSlots PROVE procs[p] \in Process
      BY Zenon DEF IInv, Sound
    <3>2. ASSUME NEW q \in Process PROVE Len(q.regions) \in Nat
      BY SMT DEF Process
    <3> QED
      BY <3>1, <3>2, Zenon
  <2>4. ASSUME NEW p \in PSlots, NEW i \in 1 .. MAX_REGIONS, i <= Len(procs[p].regions)
        PROVE  /\ i \in 1 .. Len(procs[p].regions)
               /\ procs[p].regions[i] \in Listed(procs[p].regions)
    BY <2>2, <2>3, <2>4, Zenon DEF Listed
  <2>5. CASE \E p \in PSlots, i \in 1 .. MAX_REGIONS :
               /\ c = <<"proc", p, i>>
               /\ Live(c) <=> i <= Len(procs[p].regions)
               /\ Claimed(c) = procs[p].regions[i]
    <3>1. PICK p \in PSlots, i \in 1 .. MAX_REGIONS :
                 /\ c = <<"proc", p, i>> /\ i <= Len(procs[p].regions)
                 /\ Claimed(c) = procs[p].regions[i]
      BY <2>5, Zenon
    <3>2. Claimed(c) \in Listed(procs[p].regions) /\ i \in 1 .. Len(procs[p].regions)
      BY <2>4, <3>1, Zenon
    <3>3. Claimed(c) \in Held(regions)
      BY <2>1, <3>2, Zenon DEF Owned
    <3>4. ASSUME NEW d \in Claims \ {c}, Live(d) PROVE Claimed(d) # Claimed(c)
      <4>1. CASE \E q \in PSlots, j \in 1 .. MAX_REGIONS :
                   /\ d = <<"proc", q, j>>
                   /\ Live(d) <=> j <= Len(procs[q].regions)
                   /\ Claimed(d) = procs[q].regions[j]
        <5>1. PICK q \in PSlots, j \in 1 .. MAX_REGIONS :
                     /\ d = <<"proc", q, j>> /\ j <= Len(procs[q].regions)
                     /\ Claimed(d) = procs[q].regions[j]
          BY <3>4, <4>1, Zenon
        <5>2. Claimed(d) \in Listed(procs[q].regions) /\ j \in 1 .. Len(procs[q].regions)
          BY <2>4, <5>1, Zenon
        <5>3. CASE p # q
          BY <2>1, <3>2, <5>2, <5>3, Zenon DEF Owned
        <5>4. CASE p = q
          <6>1. i # j
            BY <3>1, <3>4, <5>1, <5>4, Zenon
          <6> QED
            BY <2>1, <3>1, <3>2, <5>1, <5>2, <5>4, <6>1, Zenon DEF Owned, Distinct
        <5> QED
          BY <5>3, <5>4, Zenon
      <4>2. CASE \E o \in OSlots : /\ d = <<"shm", o, 0>>
                                   /\ Live(d) <=> shm_table[o].used
                                   /\ Claimed(d) = shm_table[o].region_idx
        BY <2>1, <3>2, <3>4, <4>2, Zenon DEF Owned
      <4> QED
        BY <4>1, <4>2, ClaimIs, Zenon
    <3> QED
      BY <3>3, <3>4, Zenon DEF Held
  <2>6. CASE \E o \in OSlots : /\ c = <<"shm", o, 0>>
                               /\ Live(c) <=> shm_table[o].used
                               /\ Claimed(c) = shm_table[o].region_idx
    <3>1. PICK o \in OSlots : /\ c = <<"shm", o, 0>> /\ shm_table[o].used
                              /\ Claimed(c) = shm_table[o].region_idx
      BY <2>6, Zenon
    <3>2. /\ Claimed(c) \in Held(regions)
          /\ \A p \in PSlots : Claimed(c) \notin Listed(procs[p].regions)
          /\ \A x \in OSlots \ {o} : shm_table[x].used => shm_table[x].region_idx # Claimed(c)
      BY <2>1, <3>1, Zenon DEF Owned
    <3>3. ASSUME NEW d \in Claims \ {c}, Live(d) PROVE Claimed(d) # Claimed(c)
      <4>1. CASE \E q \in PSlots, j \in 1 .. MAX_REGIONS :
                   /\ d = <<"proc", q, j>>
                   /\ Live(d) <=> j <= Len(procs[q].regions)
                   /\ Claimed(d) = procs[q].regions[j]
        BY <2>4, <3>2, <3>3, <4>1, Zenon
      <4>2. CASE \E x \in OSlots : /\ d = <<"shm", x, 0>>
                                   /\ Live(d) <=> shm_table[x].used
                                   /\ Claimed(d) = shm_table[x].region_idx
        BY <3>1, <3>2, <3>3, <4>2, Zenon
      <4> QED
        BY <4>1, <4>2, ClaimIs, Zenon
    <3> QED
      BY <3>2, <3>3, Zenon DEF Held
  <2> QED
    BY <2>5, <2>6, ClaimIs, Zenon
<1> QED
  BY <1>1, ProcessesInvariance, PTL

\* Whatever has been created, attached, detached and exited in which order, an
\* allocated region without an owner is the drivers' or in slot 0.
THEOREM OnlySlotZeroLeaks == Spec => []LeakOnlySlotZero
<1>1. IInv => LeakOnlySlotZero
  <2> SUFFICES ASSUME IInv, NEW r \in AllocatedSlots(regions),
                      \A c \in Claims : Live(c) => Claimed(c) # r
               PROVE  r \in 0 .. BOOT_REGIONS
    BY Zenon DEF LeakOnlySlotZero
  <2>1. SUFFICES ASSUME r \notin 1 .. BOOT_REGIONS, r # 0 PROVE FALSE
    <3>1. r \in Nat /\ BOOT_REGIONS \in Nat
      BY ProcessesAssumption, SMT DEF AllocatedSlots, Slots
    <3>2. 0 \in 0 .. BOOT_REGIONS /\ 1 .. BOOT_REGIONS \subseteq 0 .. BOOT_REGIONS
      BY <3>1, SMT
    <3> QED
      BY <3>2, Zenon
  <2>2. r \in Held(regions) \ {0} /\ Kept(regions, procs, shm_table)
        /\ Owned(regions, procs, shm_table)
    BY <2>1, Zenon DEF IInv, Sound, Held
  <2>3. ASSUME NEW p \in PSlots, r \in Listed(procs[p].regions) PROVE FALSE
    <3>1. PICK i \in 1 .. Len(procs[p].regions) : procs[p].regions[i] = r
      BY <2>3, Zenon DEF Listed
    <3>2. procs[p] \in Process
      BY Zenon DEF IInv, Sound
    <3>3. procs[p].regions \in Seq(Slots) /\ Len(procs[p].regions) \in Nat
      <4>1. ASSUME NEW q \in Process PROVE q.regions \in Seq(Slots) /\ Len(q.regions) \in Nat
        BY SMT DEF Process
      <4> QED
        BY <3>2, <4>1, Zenon
    <3>4. Len(procs[p].regions) <= MAX_REGIONS
      BY <2>2, <3>3, ListFits, Zenon DEF Owned
    <3>5. i \in 1 .. MAX_REGIONS /\ i <= Len(procs[p].regions)
      BY <3>3, <3>4, RegionsAssumption, SMT
    <3> DEFINE c == <<"proc", p, i>>
    <3>6. c \in Claims
      BY <3>5, SMT DEF Claims
    <3>7. c[1] = "proc" /\ c[2] = p /\ c[3] = i
      BY SMT
    <3> HIDE DEF c
    <3>8. Live(c) /\ Claimed(c) = r
      BY <3>1, <3>5, <3>7, Zenon DEF Live, Claimed
    <3> QED
      BY <3>6, <3>8, Zenon
  <2>4. ASSUME NEW o \in OSlots, shm_table[o].used, shm_table[o].region_idx = r PROVE FALSE
    <3> DEFINE c == <<"shm", o, 0>>
    <3>1. c \in Claims
      BY SMT DEF Claims
    <3>2. c[1] = "shm" /\ c[2] = o /\ "shm" # "proc"
      BY SMT
    <3> HIDE DEF c
    <3>3. Live(c) /\ Claimed(c) = r
      BY <2>4, <3>2, Zenon DEF Live, Claimed
    <3> QED
      BY <3>1, <3>3, Zenon
  <2> QED
    BY <2>2, <2>3, <2>4, Zenon DEF Kept
<1> QED
  BY <1>1, ProcessesInvariance, PTL
=============================================================================
