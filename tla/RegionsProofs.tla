--------------------------- MODULE RegionsProofs ---------------------------
(***************************************************************************)
(* Lemmas on the operators of Regions: each of them, applied to a table    *)
(* that partitions the free RAM, gives another such table.                 *)
(***************************************************************************)
EXTENDS Regions, WellFoundedInduction, TLAPS

\* A non-empty set of naturals has its Min as an element and a lower bound:
\* the two table searches return the first slot that fits.
LEMMA MinIsFirst ==
  ASSUME NEW S \in SUBSET Nat, S # {}
  PROVE  Min(S) \in S /\ \A y \in S : Min(S) <= y
<1>1. PICK x \in S : \A y \in S : ~ (<<y, x>> \in OpToRel(<, Nat))
  BY WFMin, NatLessThanWellFounded
<1>2. ASSUME NEW y \in S PROVE x <= y
  <2>1. x \in Nat /\ y \in Nat
    OBVIOUS
  <2>2. ~ (y < x)
    BY <1>1, <2>1, Zenon DEF OpToRel
  <2>3. QED
    BY <2>1, <2>2
<1>3. QED
  BY <1>2 DEF Min

\* find_unused_region_slot and find_suitable_free_region return slots that
\* fit when there are any.
LEMMA SearchesFit ==
  ASSUME NEW rs, IsTable(rs), NEW n \in Nat, CanAlloc(rs, n)
  PROVE  /\ find_unused_region_slot(rs) \in UnusedSlots(rs)
         /\ find_suitable_free_region(rs, n) \in SuitableSlots(rs, n)
<1>1. UnusedSlots(rs) \in SUBSET Nat /\ SuitableSlots(rs, n) \in SUBSET Nat
  BY RegionsAssumption DEF UnusedSlots, SuitableSlots, Slots
<1>2. QED
  BY <1>1, MinIsFirst DEF CanAlloc, find_unused_region_slot, find_suitable_free_region

\* alloc_region entry by entry: the new slot holds the first n pages of the
\* free region, the free region has lost them, every other slot is as before.
LEMMA AllocEntries ==
  ASSUME NEW rs, IsTable(rs), NEW n \in Nat \ {0}, CanAlloc(rs, n)
  PROVE  \E f \in SuitableSlots(rs, n), u \in UnusedSlots(rs) :
           /\ u = find_unused_region_slot(rs)
           /\ f # u
           /\ alloc_region(rs, n)[u] =
                [start |-> rs[f].start, size |-> n, state |-> "ALLOCATED"]
           /\ alloc_region(rs, n)[f] = Shrink(rs[f], n)
           /\ \A i \in Slots \ {f, u} : alloc_region(rs, n)[i] = rs[i]
           /\ DOMAIN alloc_region(rs, n) = Slots
<1> DEFINE f == find_suitable_free_region(rs, n)
           u == find_unused_region_slot(rs)
<1>1. f \in SuitableSlots(rs, n) /\ u \in UnusedSlots(rs)
  BY SearchesFit
<1>2. f # u /\ f \in Slots /\ u \in Slots
  BY <1>1 DEF SuitableSlots, UnusedSlots
<1>3. DOMAIN rs = Slots
  BY DEF IsTable
<1>4. alloc_region(rs, n) =
        [rs EXCEPT ![u] = [start |-> rs[f].start, size |-> n, state |-> "ALLOCATED"],
                   ![f] = Shrink(rs[f], n)]
  BY DEF alloc_region
<1> HIDE DEF f, u
<1>5. QED
  BY <1>1, <1>2, <1>3, <1>4, Zenon DEF f, u

\* Splitting a free region keeps the partition of the free RAM.
LEMMA AllocPartition ==
  ASSUME NEW rs, IsTable(rs), Partition(rs), NEW n \in Nat \ {0}, CanAlloc(rs, n)
  PROVE  IsTable(alloc_region(rs, n)) /\ Partition(alloc_region(rs, n))
<1>1. PICK f \in SuitableSlots(rs, n), u \in UnusedSlots(rs) :
           /\ f # u
           /\ alloc_region(rs, n)[u] =
                [start |-> rs[f].start, size |-> n, state |-> "ALLOCATED"]
           /\ alloc_region(rs, n)[f] = Shrink(rs[f], n)
           /\ \A i \in Slots \ {f, u} : alloc_region(rs, n)[i] = rs[i]
           /\ DOMAIN alloc_region(rs, n) = Slots
  BY AllocEntries
<1> DEFINE t == alloc_region(rs, n)
<1>2. /\ f \in Slots /\ rs[f].state = "FREE" /\ rs[f].size >= n
      /\ u \in Slots /\ rs[u].state = "UNUSED"
  BY DEF SuitableSlots, UnusedSlots
<1>3. \A i \in Slots : rs[i] \in Region
  BY DEF IsTable
<1>3a. /\ rs[f].start \in Nat /\ rs[f].size \in Nat /\ n \in Nat /\ n > 0
       /\ rs[f].size <= RamSize /\ FREE_RAM <= rs[f].start
       /\ rs[f].start + rs[f].size <= FREE_RAM_END
       /\ FREE_RAM_END \in Nat /\ RamSize \in Nat
  BY <1>2, <1>3, RegionsAssumption DEF Partition, InRam, InUse, Region, RamSize, End
<1>4. t[u] \in Region /\ t[f] \in Region
  <2>1. t[u] \in Region
    BY <1>1, <1>2, <1>3a DEF Region, RegionState
  <2>2. t[f] \in Region
    BY <1>1, <1>2, <1>3a DEF Region, RegionState, Shrink, UnusedRegion
  <2>3. QED
    BY <2>1, <2>2
<1>5. IsTable(t)
  <2>0. t = [i \in Slots |-> t[i]]
    BY <1>1 DEF alloc_region, IsTable
  <2>1. \A i \in Slots : t[i] \in Region
    BY <1>1, <1>3, <1>4
  <2> HIDE DEF t
  <2>2. QED
    BY <2>0, <2>1 DEF IsTable
<1> HIDE DEF t
<1>6. /\ t[u].start = rs[f].start /\ t[u].size = n /\ t[u].state = "ALLOCATED"
      /\ rs[f].size > n => /\ t[f].start = rs[f].start + n
                           /\ t[f].size = rs[f].size - n
                           /\ t[f].state = "FREE"
      /\ rs[f].size = n => t[f].state = "UNUSED"
      /\ \A i \in Slots \ {f, u} : t[i] = rs[i]
  BY <1>1, <1>2, <1>3a DEF t, Shrink, UnusedRegion
<1>7. InRam(t)
  BY <1>2, <1>3, <1>3a, <1>6, RegionsAssumption DEF Partition, InRam, InUse, End, Region
<1>8. Disjoint(t)
  BY <1>2, <1>3, <1>3a, <1>6 DEF Partition, InRam, Disjoint, InUse, End, Region
<1>9. Covered(t)
  <2> SUFFICES ASSUME NEW p \in Pages
               PROVE  \E i \in Slots : InUse(t, i) /\ Covers(t[i], p)
    BY DEF Covered
  <2>1. PICK i \in Slots : InUse(rs, i) /\ Covers(rs[i], p)
    BY DEF Partition, Covered
  <2>2. p \in Nat
    BY RegionsAssumption DEF Pages
  <2>3. CASE i # f
    BY <1>2, <1>6, <2>1, <2>3 DEF InUse, Covers, End
  <2>4. CASE i = f /\ p < rs[f].start + n
    BY <1>2, <1>3a, <1>6, <2>1, <2>2, <2>4 DEF InUse, Covers, End
  <2>5. CASE i = f /\ p >= rs[f].start + n
    <3>1. rs[f].size > n
      BY <1>2, <1>3a, <2>1, <2>2, <2>5 DEF Covers, End
    <3>2. QED
      BY <1>2, <1>3a, <1>6, <2>1, <2>2, <2>5, <3>1 DEF InUse, Covers, End
  <2>6. QED
    BY <2>2, <2>3, <2>4, <2>5, <1>3a
<1>10. QED
  BY <1>5, <1>7, <1>8, <1>9 DEF Partition, t

\* At boot slot 0 holds the whole free RAM.
LEMMA InitPartition == IsTable(init_regions) /\ Partition(init_regions)
<1>1. 0 \in Slots /\ RamSize \in Nat /\ RamSize > 0
  BY RegionsAssumption DEF Slots, RamSize
<1>2. \A i \in Slots : init_regions[i] =
        IF i = 0 THEN [start |-> FREE_RAM, size |-> RamSize, state |-> "FREE"]
        ELSE UnusedRegion
  BY DEF init_regions
<1>3. IsTable(init_regions)
  BY <1>1, RegionsAssumption
     DEF IsTable, init_regions, Region, RegionState, UnusedRegion
<1>4. InRam(init_regions)
  BY <1>1, <1>2, RegionsAssumption DEF InRam, InUse, End, UnusedRegion, RamSize
<1>5. Disjoint(init_regions)
  BY <1>2 DEF Disjoint, InUse, UnusedRegion
<1>6. Covered(init_regions)
  BY <1>1, <1>2, RegionsAssumption DEF Covered, InUse, Covers, End, RamSize, Pages
<1>7. QED
  BY <1>3, <1>4, <1>5, <1>6 DEF Partition

\* MergePair entry by entry when the two regions are joined.
LEMMA MergeEntries ==
  ASSUME NEW rs, IsTable(rs), NEW i \in Slots, NEW j \in Slots,
         MergePair(rs, i, j) # rs
  PROVE  /\ i # j /\ rs[i].state = "FREE" /\ rs[j].state = "FREE"
         /\ End(rs[i]) = rs[j].start
         /\ MergePair(rs, i, j)[i] = [start |-> rs[i].start,
                                      size |-> rs[i].size + rs[j].size,
                                      state |-> "FREE"]
         /\ MergePair(rs, i, j)[j] = UnusedRegion
         /\ \A k \in Slots \ {i, j} : MergePair(rs, i, j)[k] = rs[k]
         /\ MergePair(rs, i, j) = [k \in Slots |-> MergePair(rs, i, j)[k]]
<1>1. /\ i # j /\ rs[i].state = "FREE" /\ rs[j].state = "FREE"
      /\ End(rs[i]) = rs[j].start
      /\ MergePair(rs, i, j) =
           [rs EXCEPT ![i].size = @ + rs[j].size, ![j] = UnusedRegion]
  BY DEF MergePair
<1>2. rs \in [Slots -> Region] /\ rs[i] \in Region
  BY DEF IsTable
<1>3. [rs[i] EXCEPT !.size = @ + rs[j].size] =
        [start |-> rs[i].start, size |-> rs[i].size + rs[j].size, state |-> "FREE"]
  BY <1>1, <1>2 DEF Region
<1>4. QED
  BY <1>1, <1>2, <1>3

\* Joining two neighbours keeps the partition of the free RAM.
LEMMA MergePartition ==
  ASSUME NEW rs, IsTable(rs), Partition(rs), NEW i \in Slots, NEW j \in Slots
  PROVE  IsTable(MergePair(rs, i, j)) /\ Partition(MergePair(rs, i, j))
<1> DEFINE t == MergePair(rs, i, j)
<1> SUFFICES ASSUME t # rs PROVE IsTable(t) /\ Partition(t)
  OBVIOUS
<1>1. /\ i # j /\ rs[i].state = "FREE" /\ rs[j].state = "FREE"
      /\ End(rs[i]) = rs[j].start
      /\ t[i].start = rs[i].start /\ t[i].size = rs[i].size + rs[j].size
      /\ t[i].state = "FREE"
      /\ t[i] = [start |-> rs[i].start, size |-> rs[i].size + rs[j].size,
                 state |-> "FREE"]
      /\ t[j] = UnusedRegion /\ t[j].state = "UNUSED"
      /\ \A k \in Slots \ {i, j} : t[k] = rs[k]
      /\ t = [k \in Slots |-> t[k]]
  BY MergeEntries DEF UnusedRegion
<1> HIDE DEF t
<1>2. \A k \in Slots : rs[k] \in Region
  BY DEF IsTable
<1>3. /\ \A k \in Slots : rs[k].start \in Nat /\ rs[k].size \in Nat
      /\ FREE_RAM \in Nat /\ FREE_RAM_END \in Nat /\ RamSize \in Nat
      /\ RamSize = FREE_RAM_END - FREE_RAM
  BY <1>2, RegionsAssumption DEF Region, RamSize
<1>4. /\ FREE_RAM <= rs[i].start /\ rs[i].size > 0 /\ rs[j].size > 0
      /\ rs[j].start + rs[j].size <= FREE_RAM_END
      /\ rs[i].start + rs[i].size = rs[j].start
  BY <1>1, <1>3 DEF Partition, InRam, InUse, End
<1>5. IsTable(t)
  <2>1. t[i] \in Region
    BY <1>1, <1>3, <1>4 DEF Region, RegionState
  <2>2. t[j] \in Region
    BY <1>1, <1>3 DEF Region, RegionState, UnusedRegion
  <2>3. QED
    BY <1>1, <1>2, <2>1, <2>2 DEF IsTable
<1>6. InRam(t)
  BY <1>1, <1>3, <1>4 DEF Partition, InRam, InUse, End
<1>7. Disjoint(t)
  BY <1>1, <1>3, <1>4 DEF Partition, InRam, Disjoint, InUse, End
<1>8. Covered(t)
  <2> SUFFICES ASSUME NEW p \in Pages
               PROVE  \E k \in Slots : InUse(t, k) /\ Covers(t[k], p)
    BY DEF Covered
  <2>1. PICK k \in Slots : InUse(rs, k) /\ Covers(rs[k], p)
    BY DEF Partition, Covered
  <2>2. p \in Nat
    BY RegionsAssumption DEF Pages
  <2>3. CASE k \in {i, j}
    <3>1. InUse(t, i) /\ Covers(t[i], p)
      BY <1>1, <1>3, <1>4, <2>1, <2>2, <2>3 DEF InUse, Covers, End
    <3>2. QED
      BY <3>1
  <2>4. CASE k \notin {i, j}
    BY <1>1, <2>1, <2>4 DEF InUse
  <2>5. QED
    BY <2>3, <2>4
<1>9. QED
  BY <1>5, <1>6, <1>7, <1>8 DEF Partition

\* The step of release_pages before the merge: only a state changes.
LEMMA FreePartition ==
  ASSUME NEW rs, IsTable(rs), Partition(rs), NEW r \in AllocatedSlots(rs)
  PROVE  /\ IsTable([rs EXCEPT ![r].state = "FREE"])
         /\ Partition([rs EXCEPT ![r].state = "FREE"])
<1> DEFINE t == [rs EXCEPT ![r].state = "FREE"]
<1>1. r \in Slots /\ rs[r].state = "ALLOCATED"
  BY DEF AllocatedSlots
<1>2. /\ rs \in [Slots -> Region] /\ t \in [Slots -> Region]
  BY <1>1 DEF IsTable, Region, RegionState
<1>3. \A k \in Slots : /\ t[k].start = rs[k].start /\ t[k].size = rs[k].size
                       /\ InUse(t, k) <=> InUse(rs, k)
  BY <1>1, <1>2 DEF InUse, Region
<1> HIDE DEF t
<1>4. InRam(t) /\ Disjoint(t) /\ Covered(t)
  BY <1>3 DEF Partition, InRam, Disjoint, Covered, Covers, End
<1>5. QED
  BY <1>2, <1>4 DEF IsTable, Partition, t

-----------------------------------------------------------------------------
(* The page map. *)

\* In a partition a page has at most one holder, so OwnerOf names it.
LEMMA OwnerIsHolder ==
  ASSUME NEW rs, IsTable(rs), Partition(rs), NEW p \in Pages
  PROVE  /\ \A i \in Holders(rs, p) : OwnerOf(rs, p) = i
         /\ \A i \in Slots : OwnerOf(rs, p) = i => i \in Holders(rs, p)
         /\ OwnerOf(rs, p) = NoOwner <=> Holders(rs, p) = {}
<1>1. p \in Int /\ \A i \in Slots : i \in Int /\ i # NoOwner
  BY RegionsAssumption DEF Pages, Slots, NoOwner
<1>2. Holders(rs, p) \subseteq Slots
  BY DEF Holders, AllocatedSlots
<1>3. ASSUME NEW i \in Holders(rs, p), NEW j \in Holders(rs, p) PROVE i = j
  <2>1. /\ i \in Slots /\ j \in Slots /\ InUse(rs, i) /\ InUse(rs, j)
        /\ rs[i].start <= p /\ p < End(rs[i])
        /\ rs[j].start <= p /\ p < End(rs[j])
    BY DEF Holders, AllocatedSlots, InUse, Covers
  <2>2. /\ rs[i].start \in Int /\ End(rs[i]) \in Int
        /\ rs[j].start \in Int /\ End(rs[j]) \in Int
    BY <2>1 DEF IsTable, Region, End
  <2>3. ~ (End(rs[i]) <= rs[j].start) /\ ~ (End(rs[j]) <= rs[i].start)
    BY <1>1, <2>1, <2>2
  <2>4. QED
    BY <2>1, <2>3, Zenon DEF Partition, Disjoint
<1>4. Holders(rs, p) # {} => OwnerOf(rs, p) \in Holders(rs, p)
  BY Zenon DEF OwnerOf, Pick
<1>5. Holders(rs, p) = {} => OwnerOf(rs, p) = NoOwner
  BY DEF OwnerOf, Pick
<1>6. QED
  BY <1>1, <1>2, <1>3, <1>4, <1>5

\* A table with the same allocated entries stands for the same page map.
LEMMA SameOwner ==
  ASSUME NEW rs, NEW t, NEW p,
         AllocatedSlots(t) = AllocatedSlots(rs),
         \A i \in AllocatedSlots(rs) : t[i] = rs[i]
  PROVE  OwnerOf(t, p) = OwnerOf(rs, p)
<1>1. Holders(t, p) = Holders(rs, p)
  BY DEF Holders
<1>2. QED
  BY <1>1 DEF OwnerOf

\* No iteration of the merge changes the owner of a page.
LEMMA MergeOwner ==
  ASSUME NEW rs, IsTable(rs), NEW i \in Slots, NEW j \in Slots, NEW p
  PROVE  OwnerOf(MergePair(rs, i, j), p) = OwnerOf(rs, p)
<1> DEFINE t == MergePair(rs, i, j)
<1>1. CASE t = rs
  BY <1>1
<1>2. CASE t # rs
  <2>0. /\ t[i] = [start |-> rs[i].start, size |-> rs[i].size + rs[j].size,
                   state |-> "FREE"]
        /\ t[j] = UnusedRegion
        /\ \A k \in Slots \ {i, j} : t[k] = rs[k]
        /\ rs[i].state = "FREE" /\ rs[j].state = "FREE"
    BY <1>2, MergeEntries
  <2> HIDE DEF t
  <2>1. /\ rs[i].state = "FREE" /\ rs[j].state = "FREE"
        /\ t[i].state = "FREE" /\ t[j].state = "UNUSED"
        /\ \A k \in Slots \ {i, j} : t[k] = rs[k]
    BY <2>0 DEF UnusedRegion
  <2>2. AllocatedSlots(t) = AllocatedSlots(rs)
    BY <2>1 DEF AllocatedSlots
  <2>3. \A k \in AllocatedSlots(rs) : t[k] = rs[k]
    BY <2>1 DEF AllocatedSlots
  <2>4. QED
    BY <2>2, <2>3, SameOwner DEF t
<1>3. QED
  BY <1>1, <1>2

\* An allocation moves n free pages in a row to a slot that held none, and
\* leaves the owner of every other page alone.
LEMMA AllocOwner ==
  ASSUME NEW rs, IsTable(rs), Partition(rs), NEW n \in Nat \ {0}, CanAlloc(rs, n)
  PROVE  \E u \in Slots, a \in Pages, b \in Pages :
           /\ a <= b
           /\ \A p \in Pages : OwnerOf(rs, p) # u
           /\ a .. b \subseteq Pages
           /\ \A p \in a .. b : OwnerOf(rs, p) = NoOwner
           /\ \A p \in Pages : OwnerOf(alloc_region(rs, n), p) =
                                 IF p \in a .. b THEN u ELSE OwnerOf(rs, p)
<1> DEFINE t == alloc_region(rs, n)
<1>1. PICK f \in SuitableSlots(rs, n), u \in UnusedSlots(rs) :
           /\ f # u
           /\ t[u] = [start |-> rs[f].start, size |-> n, state |-> "ALLOCATED"]
           /\ t[f] = Shrink(rs[f], n)
           /\ \A i \in Slots \ {f, u} : t[i] = rs[i]
  BY AllocEntries
<1>2. IsTable(t) /\ Partition(t)
  BY AllocPartition
<1> HIDE DEF t
<1>3. /\ f \in Slots /\ rs[f].state = "FREE" /\ rs[f].size >= n
      /\ u \in Slots /\ rs[u].state = "UNUSED"
      /\ t[u].start = rs[f].start /\ t[u].size = n /\ t[u].state = "ALLOCATED"
      /\ t[f].state # "ALLOCATED"
  BY <1>1 DEF SuitableSlots, UnusedSlots, Shrink, UnusedRegion
<1> DEFINE a == rs[f].start
           b == a + n - 1
<1>4. /\ a \in Nat /\ b \in Nat /\ a <= b /\ a \in Pages /\ b \in Pages
      /\ a .. b \subseteq Pages /\ End(rs[f]) \in Nat /\ b < End(rs[f])
  BY <1>3, RegionsAssumption DEF IsTable, Region, Partition, InRam, InUse, End, Pages
<1>5. \A p \in Pages : OwnerOf(rs, p) # u
  BY <1>3, OwnerIsHolder DEF Holders, AllocatedSlots
<1>6. \A p \in a .. b : OwnerOf(rs, p) = NoOwner
  <2> SUFFICES ASSUME NEW p \in a .. b PROVE Holders(rs, p) = {}
    BY <1>4, OwnerIsHolder
  <2> SUFFICES ASSUME NEW i \in Holders(rs, p) PROVE FALSE
    OBVIOUS
  <2>1. i \in Slots /\ i # f /\ InUse(rs, i) /\ InUse(rs, f) /\ Covers(rs[i], p)
    BY <1>3 DEF Holders, AllocatedSlots, InUse
  <2>2. rs[i].start \in Int /\ End(rs[i]) \in Int /\ p \in Int
    BY <1>4, <2>1 DEF IsTable, Region, End
  <2>3. End(rs[i]) <= a \/ End(rs[f]) <= rs[i].start
    BY <1>3, <2>1 DEF Partition, Disjoint
  <2>4. QED
    BY <1>4, <2>1, <2>2, <2>3 DEF Covers
<1>7. ASSUME NEW p \in a .. b PROVE OwnerOf(t, p) = u
  <2>1. u \in Holders(t, p)
    BY <1>3, <1>4 DEF Holders, AllocatedSlots, Covers, End
  <2>2. QED
    BY <1>2, <1>4, <2>1, OwnerIsHolder
<1>8. ASSUME NEW p \in Pages, p \notin a .. b PROVE OwnerOf(t, p) = OwnerOf(rs, p)
  <2>1. p \in Int
    BY RegionsAssumption DEF Pages
  <2>2. ~ Covers(t[u], p)
    BY <1>3, <1>4, <1>8, <2>1 DEF Covers, End
  <2>3. Holders(t, p) = Holders(rs, p)
    BY <1>1, <1>3, <2>2 DEF Holders, AllocatedSlots
  <2>4. QED
    BY <2>3 DEF OwnerOf
<1>9. \A p \in Pages : OwnerOf(t, p) = IF p \in a .. b THEN u ELSE OwnerOf(rs, p)
  BY <1>7, <1>8
<1> HIDE DEF a, b
<1>10. QED
  BY <1>3, <1>4, <1>5, <1>6, <1>9, Zenon DEF t

\* A release frees the pages of its region, at least one, and no others.
LEMMA FreeOwner ==
  ASSUME NEW rs, IsTable(rs), Partition(rs), NEW r \in AllocatedSlots(rs)
  PROVE  /\ \E p \in Pages : OwnerOf(rs, p) = r
         /\ \A p \in Pages : OwnerOf([rs EXCEPT ![r].state = "FREE"], p) =
              IF OwnerOf(rs, p) = r THEN NoOwner ELSE OwnerOf(rs, p)
<1> DEFINE t == [rs EXCEPT ![r].state = "FREE"]
<1>1. r \in Slots /\ rs[r].state = "ALLOCATED" /\ rs \in [Slots -> Region]
  BY DEF AllocatedSlots, IsTable
<1>2. t[r].state = "FREE" /\ \A k \in Slots \ {r} : t[k] = rs[k]
  BY <1>1 DEF Region
<1>3. IsTable(t) /\ Partition(t)
  BY FreePartition
<1> HIDE DEF t
<1>4. \E p \in Pages : OwnerOf(rs, p) = r
  <2>1. rs[r].start \in Pages
    BY <1>1, RegionsAssumption DEF Region, Partition, InRam, InUse, End, Pages
  <2>2. r \in Holders(rs, rs[r].start)
    BY <1>1, RegionsAssumption
       DEF Region, Partition, InRam, InUse, End, Holders, AllocatedSlots, Covers
  <2>3. QED
    BY <2>1, <2>2, OwnerIsHolder
<1>5. ASSUME NEW p \in Pages
      PROVE  OwnerOf(t, p) = IF OwnerOf(rs, p) = r THEN NoOwner ELSE OwnerOf(rs, p)
  <2>1. Holders(t, p) = Holders(rs, p) \ {r}
    BY <1>1, <1>2 DEF Holders, AllocatedSlots
  <2>2. CASE OwnerOf(rs, p) = r
    <3>1. \A i \in Holders(rs, p) : i = r
      BY <2>2, OwnerIsHolder
    <3>2. Holders(t, p) = {}
      BY <2>1, <3>1
    <3>3. QED
      BY <2>2, <3>2 DEF OwnerOf, Pick
  <2>3. CASE OwnerOf(rs, p) # r
    <3>1. r \notin Holders(rs, p)
      BY <2>3, OwnerIsHolder
    <3>2. Holders(t, p) = Holders(rs, p)
      BY <2>1, <3>1
    <3>3. QED
      BY <2>3, <3>2 DEF OwnerOf
  <2>4. QED
    BY <2>2, <2>3
<1>6. QED
  BY <1>4, <1>5 DEF t

-----------------------------------------------------------------------------
(* Loops as recursive functions, and the merge loops of release_region. *)

\* Induction over the rounds of a loop: a set that holds the start and, with
\* every round, the next, holds them all.
LEMMA Rounds ==
  ASSUME NEW n \in Nat, NEW T, 0 \in T,
         \A k \in 1 .. n : k - 1 \in T => k \in T
  PROVE  0 .. n \subseteq T
<1> DEFINE bad == (0 .. n) \ T
<1>1. SUFFICES ASSUME bad # {} PROVE FALSE
  BY Zenon
<1>2. bad \in SUBSET Nat
  BY SMT
<1>3. PICK b \in bad : \A y \in bad : b <= y
  BY <1>1, <1>2, MinIsFirst, Zenon
<1>4. b \in 1 .. n /\ b - 1 \in 0 .. n /\ ~ (b <= b - 1)
  BY <1>3, SMT
<1>5. b - 1 \in T
  BY <1>3, <1>4, Zenon
<1> QED
  BY <1>3, <1>4, <1>5, Zenon

IsLoop(g, n, X, x0, step) ==
  /\ g \in [0 .. n -> X]
  /\ g = [k \in 0 .. n |-> IF k = 0 THEN x0 ELSE step[<<g[k - 1], k>>]]

\* A for loop that goes from one state of X to another has a run: the
\* recursive function that stands for it exists.
LEMMA LoopExists ==
  ASSUME NEW n \in Nat, NEW X, NEW x0 \in X, NEW step \in [X \X (1 .. n) -> X]
  PROVE  \E g : IsLoop(g, n, X, x0, step)
<1> DEFINE Run(g, m) == /\ g \in [0 .. m -> X]
                        /\ g[0] = x0
                        /\ \A k \in 1 .. m : g[k] = step[<<g[k - 1], k>>]
           T == {m \in 0 .. n : \E g : Run(g, m)}
<1>1. 0 \in T
  <2>1. Run([k \in 0 .. 0 |-> x0], 0)
    BY SMT
  <2>2. 0 \in 0 .. n
    BY SMT
  <2> QED
    BY <2>1, <2>2, Zenon
<1>2. ASSUME NEW k \in 1 .. n, k - 1 \in T PROVE k \in T
  <2>1. PICK h : Run(h, k - 1)
    BY <1>2, Zenon
  <2> DEFINE g == [i \in 0 .. k |-> IF i = k THEN step[<<h[k - 1], k>>] ELSE h[i]]
  <2>2. k - 1 \in 0 .. k - 1 /\ h[k - 1] \in X
    BY <2>1, SMT
  <2>3. step[<<h[k - 1], k>>] \in X
    BY <2>2, SMT
  <2>4. g \in [0 .. k -> X] /\ g[0] = x0
    BY <2>1, <2>3, SMT
  <2>5. ASSUME NEW i \in 1 .. k PROVE g[i] = step[<<g[i - 1], i>>]
    <3>1. i - 1 \in 0 .. k /\ i \in 0 .. k /\ i - 1 # k
      BY SMT
    <3>2. g[i - 1] = h[i - 1]
      BY <3>1, Zenon
    <3>3. CASE i = k
      BY <3>1, <3>2, <3>3, Zenon
    <3>4. CASE i # k
      <4>1. i \in 1 .. k - 1
        BY <3>4, SMT
      <4> QED
        BY <2>1, <3>1, <3>2, <3>4, <4>1, Zenon
    <3> QED
      BY <3>3, <3>4, Zenon
  <2> HIDE DEF g
  <2>6. Run(g, k)
    BY <2>4, <2>5, Zenon
  <2>7. k \in 0 .. n
    BY SMT
  <2> QED
    BY <2>6, <2>7, Zenon
<1>3. n \in T
  <2>1. 0 .. n \subseteq T
    <3> HIDE DEF T
    <3> QED
      BY <1>1, <1>2, Rounds, Zenon
  <2> QED
    BY <2>1, SMT
<1>4. PICK g : Run(g, n)
  BY <1>3, Zenon
<1> DEFINE e == [k \in 0 .. n |-> IF k = 0 THEN x0 ELSE step[<<g[k - 1], k>>]]
<1>5. ASSUME NEW k \in 0 .. n PROVE g[k] = e[k]
  <2>1. k = 0 \/ k \in 1 .. n
    BY SMT
  <2> QED
    BY <1>4, <2>1, Zenon
<1>6. g = e
  BY <1>4, <1>5, SMT
<1> QED
  BY <1>4, <1>6, Zenon DEF IsLoop

\* A bounded non-empty set of integers has its Max as an element and an upper
\* bound.
LEMMA MaxIsLast ==
  ASSUME NEW S \in SUBSET Int, S # {}, NEW b \in Int, \A y \in S : y <= b
  PROVE  Max(S) \in S /\ \A y \in S : y <= Max(S)
<1> DEFINE D == {b - y : y \in S}
<1>1. D \in SUBSET Nat /\ D # {}
  <2>1. \A y \in S : b - y \in Nat
    BY SMT
  <2> QED
    BY <2>1, Zenon
<1>2. PICK d \in D : \A e \in D : d <= e
  BY <1>1, MinIsFirst, Zenon
<1>3. PICK x \in S : d = b - x
  BY <1>2
<1>4. ASSUME NEW y \in S PROVE x >= y
  BY <1>2, <1>3, SMT
<1>5. Max(S) \in S /\ \A y \in S : Max(S) >= y
  BY <1>4, Zenon DEF Max
<1> QED
  BY <1>5, SMT

\* The entry in front of i in a scan over S: -1 or a smaller element, with no
\* element between the two.
LEMMA BeforeIsLast ==
  ASSUME NEW S \in SUBSET Nat, NEW i \in Nat
  PROVE  /\ Before(S, i) \in S \cup {-1} /\ Before(S, i) < i
         /\ \A j \in S : j < i => j <= Before(S, i)
<1> DEFINE B == {j \in S : j < i} \cup {-1}
<1>1. B \in SUBSET Int /\ B # {} /\ \A y \in B : y <= i
  <2>1. -1 \in Int /\ -1 <= i /\ \A y \in Nat : y \in Int /\ (y < i => y <= i)
    BY SMT
  <2> QED
    BY <2>1, Zenon
<1>2. Max(B) \in B /\ \A y \in B : y <= Max(B)
  <2> HIDE DEF B
  <2>1. i \in Int
    BY SMT
  <2> QED
    BY <1>1, <2>1, MaxIsLast, Zenon
<1>3. Before(S, i) = Max(B)
  BY Zenon DEF Before
<1> QED
  BY <1>2, <1>3, SMT

\* Induction over the entries of a scan.
LEMMA Entries ==
  ASSUME NEW F \in SUBSET Nat, NEW T, -1 \in T,
         \A j \in F : Before(F, j) \in T => j \in T
  PROVE  F \cup {-1} \subseteq T
<1> DEFINE bad == F \ T
<1>1. SUFFICES ASSUME bad # {} PROVE FALSE
  BY Zenon
<1>2. bad \in SUBSET Nat
  BY Zenon
<1>3. PICK b \in bad : \A y \in bad : b <= y
  BY <1>1, <1>2, MinIsFirst, Zenon
<1>4. Before(F, b) \in F \cup {-1} /\ ~ (b <= Before(F, b))
  BY <1>2, <1>3, BeforeIsLast, SMT
<1>5. Before(F, b) \in T
  BY <1>3, <1>4, Zenon
<1> QED
  BY <1>3, <1>5, Zenon

IsScan(g, F, X, x0, step) ==
  /\ g \in [F \cup {-1} -> X]
  /\ g = [j \in F \cup {-1} |-> IF j = -1 THEN x0 ELSE step[<<g[Before(F, j)], j>>]]

\* A scan that goes from one state of X to another has a run.
LEMMA ScanExists ==
  ASSUME NEW F \in SUBSET Nat, NEW N \in Nat, \A j \in F : j < N,
         NEW X, NEW x0 \in X, NEW step \in [X \X F -> X]
  PROVE  \E g : IsScan(g, F, X, x0, step)
<1> DEFINE Upto(m) == {j \in F : j <= m} \cup {-1}
           Run(g, m) == /\ g \in [Upto(m) -> X]
                        /\ g[-1] = x0
                        /\ \A j \in F : j <= m => g[j] = step[<<g[Before(F, j)], j>>]
           T == {m \in F \cup {-1} : \E g : Run(g, m)}
<1>0. -1 \notin F
  BY SMT
<1>1. -1 \in T
  <2>1. \A j \in F : ~ (j <= -1)
    BY SMT
  <2>2. Upto(-1) = {-1}
    BY <2>1
  <2>3. Run([j \in {-1} |-> x0], -1)
    BY <2>1, <2>2
  <2> QED
    BY <2>3, Zenon
<1>2. ASSUME NEW k \in F, Before(F, k) \in T PROVE k \in T
  <2> DEFINE b == Before(F, k)
  <2>1. PICK h : Run(h, b)
    BY <1>2, Zenon
  <2>2. b \in F \cup {-1} /\ b < k /\ b <= b /\ \A j \in F : j < k => j <= b
    <3>1. k \in Nat
      BY Zenon
    <3>2. b \in F \cup {-1} /\ b < k /\ \A j \in F : j < k => j <= b
      BY <3>1, BeforeIsLast, Zenon
    <3> HIDE DEF b
    <3> QED
      BY <3>2, SMT
  <2> HIDE DEF b
  <2>3. h[b] \in X
    BY <2>1, <2>2
  <2>4. step[<<h[b], k>>] \in X
    BY <2>3
  <2> DEFINE g == [j \in Upto(k) |-> IF j = k THEN step[<<h[b], k>>] ELSE h[j]]
  <2>5. \A j \in Upto(k) : j = k \/ j \in Upto(b)
    BY <2>2, SMT
  <2>6. g \in [Upto(k) -> X] /\ g[-1] = x0
    <3>1. -1 # k /\ -1 \in Upto(k)
      BY <1>0
    <3>2. ASSUME NEW j \in Upto(k), j # k PROVE h[j] \in X
      BY <2>1, <2>5, <3>2, Zenon
    <3> QED
      BY <2>1, <2>4, <3>1, <3>2, Zenon
  <2>7. ASSUME NEW j \in F, j <= k PROVE g[j] = step[<<g[Before(F, j)], j>>]
    <3>1. PICK c \in F \cup {-1} : c = Before(F, j) /\ c < j
      BY BeforeIsLast, Zenon
    <3>1a. c <= k /\ c # k
      BY <2>7, <3>1, SMT
    <3>2. Before(F, j) \in Upto(k) /\ Before(F, j) # k /\ j \in Upto(k)
      BY <2>7, <3>1, <3>1a, Zenon
    <3>3. g[Before(F, j)] = h[Before(F, j)]
      BY <3>2, Zenon
    <3>4. CASE j = k
      BY <3>2, <3>3, <3>4, Zenon DEF b
    <3>5. CASE j # k
      <4>1. j <= b
        BY <2>2, <2>7, <3>5, SMT
      <4> QED
        BY <2>1, <3>2, <3>3, <3>5, <4>1, Zenon
    <3> QED
      BY <3>4, <3>5, Zenon
  <2> HIDE DEF g
  <2>8. Run(g, k)
    BY <2>6, <2>7, Zenon
  <2> QED
    BY <2>8, Zenon
<1>3. F \cup {-1} \subseteq T
  <2> HIDE DEF T
  <2> QED
    BY <1>1, <1>2, Entries, Zenon
<1>4. /\ Before(F, N) \in F \cup {-1}
      /\ \A j \in F : j <= Before(F, N)
  BY BeforeIsLast, SMT
<1>5. PICK g : Run(g, Before(F, N))
  BY <1>3, <1>4, Zenon
<1>6. g \in [F \cup {-1} -> X]
  <2>1. Upto(Before(F, N)) = F \cup {-1}
    BY <1>4, Zenon
  <2> QED
    BY <1>5, <2>1, Zenon
<1> DEFINE e == [j \in F \cup {-1} |-> IF j = -1 THEN x0 ELSE step[<<g[Before(F, j)], j>>]]
<1>7. \A j \in F \cup {-1} : g[j] = e[j]
  BY <1>0, <1>4, <1>5, Zenon
<1>8. g = e
  BY <1>6, <1>7, Zenon
<1> QED
  BY <1>6, <1>8, Zenon DEF IsScan

-----------------------------------------------------------------------------
(* What merge_free_regions and release_pages do to a table. *)

Tables == {rs \in [Slots -> Region] : Partition(rs)}

\* The allocated regions of t are those of rs.
SameAllocated(rs, t) ==
  AllocatedSlots(t) = AllocatedSlots(rs) /\ \A i \in AllocatedSlots(rs) : t[i] = rs[i]

\* An iteration of the merge touches no allocated region.
LEMMA MergePairKeeps ==
  ASSUME NEW rs \in Tables, NEW i \in Slots, NEW j \in Slots
  PROVE  MergePair(rs, i, j) \in Tables /\ SameAllocated(rs, MergePair(rs, i, j))
<1> DEFINE t == MergePair(rs, i, j)
<1>1. IsTable(rs) /\ Partition(rs)
  BY Zenon DEF Tables, IsTable
<1>2. t \in Tables
  BY <1>1, MergePartition, Zenon DEF Tables, IsTable
<1>3. CASE t = rs
  BY <1>2, <1>3, Zenon DEF SameAllocated
<1>4. CASE t # rs
  <2>1. /\ rs[i].state = "FREE" /\ rs[j].state = "FREE"
        /\ t[i].state = "FREE" /\ t[j].state = "UNUSED"
        /\ \A k \in Slots \ {i, j} : t[k] = rs[k]
    <3>1. /\ rs[i].state = "FREE" /\ rs[j].state = "FREE"
          /\ t[i] = [start |-> rs[i].start, size |-> rs[i].size + rs[j].size,
                     state |-> "FREE"]
          /\ t[j] = UnusedRegion
          /\ \A k \in Slots \ {i, j} : t[k] = rs[k]
      BY <1>1, <1>4, MergeEntries
    <3> QED
      BY <3>1, SMT DEF UnusedRegion
  <2> HIDE DEF t
  <2>2. \A k \in Slots : k \in AllocatedSlots(t) <=> k \in AllocatedSlots(rs)
    BY <2>1, SMT DEF AllocatedSlots
  <2>3. \A k \in AllocatedSlots(rs) : k \in Slots \ {i, j}
    BY <2>1, SMT DEF AllocatedSlots
  <2>4. AllocatedSlots(t) = AllocatedSlots(rs)
    BY <2>2, Zenon DEF AllocatedSlots
  <2> QED
    BY <1>2, <2>1, <2>3, <2>4, Zenon DEF SameAllocated, t
<1> QED
  BY <1>3, <1>4, Zenon

\* The free slots are numbers below MAX_REGIONS.
LEMMA FreeBounded ==
  ASSUME NEW rs
  PROVE  /\ FreeSlots(rs) \in SUBSET Nat /\ FreeSlots(rs) \subseteq Slots
         /\ \A j \in FreeSlots(rs) : j < MAX_REGIONS
BY RegionsAssumption, SMT DEF FreeSlots, Slots

InnerRun(f, rs, i) ==
  f = [j \in FreeSlots(rs) \cup {-1} |->
         IF j = -1 THEN rs ELSE MergePair(f[Before(FreeSlots(rs), j)], i, j)]

\* The inner loop of merge_free_regions keeps the partition and the allocated
\* regions, whatever it joins.
LEMMA MergeIntoKeeps ==
  ASSUME NEW rs \in Tables, NEW i \in Slots
  PROVE  MergeInto(rs, i) \in Tables /\ SameAllocated(rs, MergeInto(rs, i))
<1> DEFINE free == FreeSlots(rs)
           X == {t \in Tables : SameAllocated(rs, t)}
           step == [y \in X \X free |-> MergePair(y[1], i, y[2])]
           f == CHOOSE g : InnerRun(g, rs, i)
<1>1. rs \in X
  BY Zenon DEF SameAllocated
<1>2. ASSUME NEW t \in X, NEW j \in free PROVE MergePair(t, i, j) \in X
  <2>1. j \in Slots
    BY FreeBounded, Zenon
  <2>2. MergePair(t, i, j) \in Tables /\ SameAllocated(t, MergePair(t, i, j))
    BY <2>1, MergePairKeeps, Zenon
  <2>3. SameAllocated(rs, MergePair(t, i, j))
    BY <2>2, Zenon DEF SameAllocated
  <2> QED
    BY <2>2, <2>3, Zenon
<1>3. step \in [X \X free -> X]
  <2> HIDE DEF X, free
  <2>1. ASSUME NEW y \in X \X free PROVE MergePair(y[1], i, y[2]) \in X
    <3>1. y[1] \in X /\ y[2] \in free
      OBVIOUS
    <3> QED
      BY <1>2, <3>1, Zenon
  <2> QED
    BY <2>1, Zenon
<1>4. PICK g : IsScan(g, free, X, rs, step)
  <2> HIDE DEF X, free, step
  <2>1. MAX_REGIONS \in Nat /\ free \in SUBSET Nat /\ \A j \in free : j < MAX_REGIONS
    BY RegionsAssumption, FreeBounded, Zenon DEF free
  <2> QED
    BY <1>1, <1>3, <2>1, ScanExists, Zenon
<1>5. InnerRun(g, rs, i)
  <2> HIDE DEF X
  <2>1. ASSUME NEW j \in free PROVE step[<<g[Before(free, j)], j>>] = MergePair(g[Before(free, j)], i, j)
    <3>1. Before(free, j) \in free \cup {-1}
      <4>1. free \in SUBSET Nat /\ j \in Nat
        BY FreeBounded, Zenon
      <4> QED
        BY <4>1, BeforeIsLast, Zenon
    <3>2. <<g[Before(free, j)], j>> \in X \X free
      BY <1>4, <3>1 DEF IsScan
    <3> QED
      BY <3>2
  <2>2. \A j \in free \cup {-1} :
          (IF j = -1 THEN rs ELSE step[<<g[Before(free, j)], j>>])
            = (IF j = -1 THEN rs ELSE MergePair(g[Before(free, j)], i, j))
    BY <2>1, Zenon
  <2> HIDE DEF step
  <2>3. g = [j \in free \cup {-1} |-> IF j = -1 THEN rs ELSE MergePair(g[Before(free, j)], i, j)]
    BY <1>4, <2>2, Zenon DEF IsScan
  <2> QED
    BY <2>3, Zenon DEF InnerRun
<1>6. InnerRun(f, rs, i)
  <2> HIDE DEF X, step
  <2> QED
    BY <1>5, Zenon
<1> HIDE DEF f
<1>7. \A j \in free \cup {-1} : f[j] \in X
  <2> DEFINE T == {j \in free \cup {-1} : f[j] \in X}
  <2>1. \A j \in free \cup {-1} :
          f[j] = IF j = -1 THEN rs ELSE MergePair(f[Before(free, j)], i, j)
    BY <1>6, Zenon DEF InnerRun
  <2> HIDE DEF X
  <2>2. -1 \in T
    BY <1>1, <2>1, Zenon
  <2>3. ASSUME NEW j \in free, Before(free, j) \in T PROVE j \in T
    <3>1. j # -1
      BY FreeBounded, SMT
    <3> QED
      BY <1>2, <2>1, <2>3, <3>1, Zenon
  <2>4. free \in SUBSET Nat
    BY FreeBounded, Zenon
  <2>5. free \cup {-1} \subseteq T
    <3> HIDE DEF free, T
    <3> QED
      BY <2>2, <2>3, <2>4, Entries, Zenon
  <2> QED
    BY <2>5, Zenon
<1>8. CASE rs[i].state # "FREE"
  BY <1>1, <1>8, Zenon DEF MergeInto
<1>9. CASE rs[i].state = "FREE"
  <2>1. MergeInto(rs, i) = f[Max(free)]
    BY <1>9, Zenon DEF MergeInto, InnerRun, f
  <2>2. Max(free) \in free
    <3>1. free # {} /\ free \in SUBSET Int /\ MAX_REGIONS \in Int
          /\ \A j \in free : j <= MAX_REGIONS
      BY <1>9, RegionsAssumption, SMT DEF FreeSlots, Slots
    <3> HIDE DEF free
    <3> QED
      BY <3>1, MaxIsLast, Zenon
  <2> QED
    BY <1>7, <2>1, <2>2, Zenon
<1> QED
  BY <1>8, <1>9, Zenon

OuterRun(f, rs) ==
  f = [j \in FreeSlots(rs) \cup {-1} |->
         IF j = -1 THEN rs ELSE MergeInto(f[Before(FreeSlots(rs), j)], j)]

\* The whole of merge_free_regions keeps the partition and the allocated
\* regions, in whatever order the free ones are joined.
LEMMA MergeKeeps ==
  ASSUME NEW rs \in Tables
  PROVE  merge_free_regions(rs) \in Tables /\ SameAllocated(rs, merge_free_regions(rs))
<1> DEFINE free == FreeSlots(rs)
           X == {t \in Tables : SameAllocated(rs, t)}
           step == [y \in X \X free |-> MergeInto(y[1], y[2])]
           f == CHOOSE g : OuterRun(g, rs)
<1>1. rs \in X
  BY Zenon DEF SameAllocated
<1>2. ASSUME NEW t \in X, NEW j \in free PROVE MergeInto(t, j) \in X
  <2>1. j \in Slots
    BY FreeBounded, Zenon
  <2>2. MergeInto(t, j) \in Tables /\ SameAllocated(t, MergeInto(t, j))
    BY <2>1, MergeIntoKeeps, Zenon
  <2>3. SameAllocated(rs, MergeInto(t, j))
    BY <2>2, Zenon DEF SameAllocated
  <2> QED
    BY <2>2, <2>3, Zenon
<1>3. step \in [X \X free -> X]
  <2> HIDE DEF X, free
  <2>1. ASSUME NEW y \in X \X free PROVE MergeInto(y[1], y[2]) \in X
    <3>1. y[1] \in X /\ y[2] \in free
      OBVIOUS
    <3> QED
      BY <1>2, <3>1, Zenon
  <2> QED
    BY <2>1, Zenon
<1>4. PICK g : IsScan(g, free, X, rs, step)
  <2> HIDE DEF X, free, step
  <2>1. MAX_REGIONS \in Nat /\ free \in SUBSET Nat /\ \A j \in free : j < MAX_REGIONS
    BY RegionsAssumption, FreeBounded, Zenon DEF free
  <2> QED
    BY <1>1, <1>3, <2>1, ScanExists, Zenon
<1>5. OuterRun(g, rs)
  <2> HIDE DEF X
  <2>1. ASSUME NEW j \in free PROVE step[<<g[Before(free, j)], j>>] = MergeInto(g[Before(free, j)], j)
    <3>1. Before(free, j) \in free \cup {-1}
      <4>1. free \in SUBSET Nat /\ j \in Nat
        BY FreeBounded, Zenon
      <4> QED
        BY <4>1, BeforeIsLast, Zenon
    <3>2. <<g[Before(free, j)], j>> \in X \X free
      BY <1>4, <3>1 DEF IsScan
    <3> QED
      BY <3>2
  <2>2. \A j \in free \cup {-1} :
          (IF j = -1 THEN rs ELSE step[<<g[Before(free, j)], j>>])
            = (IF j = -1 THEN rs ELSE MergeInto(g[Before(free, j)], j))
    BY <2>1, Zenon
  <2> HIDE DEF step
  <2>3. g = [j \in free \cup {-1} |-> IF j = -1 THEN rs ELSE MergeInto(g[Before(free, j)], j)]
    BY <1>4, <2>2, Zenon DEF IsScan
  <2> QED
    BY <2>3, Zenon DEF OuterRun
<1>6. OuterRun(f, rs)
  <2> HIDE DEF X, step
  <2> QED
    BY <1>5, Zenon
<1> HIDE DEF f
<1>7. \A j \in free \cup {-1} : f[j] \in X
  <2> DEFINE T == {j \in free \cup {-1} : f[j] \in X}
  <2>1. \A j \in free \cup {-1} :
          f[j] = IF j = -1 THEN rs ELSE MergeInto(f[Before(free, j)], j)
    BY <1>6, Zenon DEF OuterRun
  <2> HIDE DEF X
  <2>2. -1 \in T
    BY <1>1, <2>1, Zenon
  <2>3. ASSUME NEW j \in free, Before(free, j) \in T PROVE j \in T
    <3>1. j # -1
      BY FreeBounded, SMT
    <3> QED
      BY <1>2, <2>1, <2>3, <3>1, Zenon
  <2>4. free \in SUBSET Nat
    BY FreeBounded, Zenon
  <2>5. free \cup {-1} \subseteq T
    <3> HIDE DEF free, T
    <3> QED
      BY <2>2, <2>3, <2>4, Entries, Zenon
  <2> QED
    BY <2>5, Zenon
<1>8. merge_free_regions(rs) = f[Before(free, MAX_REGIONS)]
  BY Zenon DEF merge_free_regions, OuterRun, f
<1>9. Before(free, MAX_REGIONS) \in free \cup {-1}
  <2>1. MAX_REGIONS \in Nat /\ free \in SUBSET Nat
    BY RegionsAssumption, FreeBounded, Zenon
  <2> QED
    BY <2>1, BeforeIsLast, Zenon
<1> QED
  BY <1>7, <1>8, <1>9, Zenon

\* release_pages takes one region from the allocated ones and leaves the
\* others where they are, for every number and position of free neighbours.
LEMMA ReleaseKeeps ==
  ASSUME NEW rs \in Tables, NEW r \in AllocatedSlots(rs)
  PROVE  /\ release_pages(rs, r) \in Tables
         /\ AllocatedSlots(release_pages(rs, r)) = AllocatedSlots(rs) \ {r}
         /\ \A i \in AllocatedSlots(rs) \ {r} : release_pages(rs, r)[i] = rs[i]
<1> DEFINE t == [rs EXCEPT ![r].state = "FREE"]
<1>1. IsTable(rs) /\ Partition(rs) /\ rs \in [Slots -> Region]
  BY Zenon DEF Tables, IsTable
<1>2. r \in Slots
  BY Zenon DEF AllocatedSlots
<1>3. t \in Tables
  BY <1>1, FreePartition, Zenon DEF Tables, IsTable
<1>4. t[r].state = "FREE" /\ \A k \in Slots \ {r} : t[k] = rs[k]
  BY <1>1, <1>2, SMT DEF Region
<1>5. release_pages(rs, r) = merge_free_regions(t)
  BY Zenon DEF release_pages
<1> HIDE DEF t
<1>6. \A k \in Slots : k \in AllocatedSlots(t) <=> k \in AllocatedSlots(rs) \ {r}
  BY <1>4, SMT DEF AllocatedSlots
<1>7. AllocatedSlots(t) = AllocatedSlots(rs) \ {r}
  BY <1>6, Zenon DEF AllocatedSlots
<1>8. \A k \in AllocatedSlots(rs) \ {r} : t[k] = rs[k]
  BY <1>4, Zenon DEF AllocatedSlots
<1> QED
  BY <1>3, <1>5, <1>7, <1>8, MergeKeeps, Zenon DEF SameAllocated
=============================================================================
