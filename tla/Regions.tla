------------------------------ MODULE Regions ------------------------------
(***************************************************************************)
(* The region table of kernel/allocator.c as a value.  Addresses and sizes *)
(* are page numbers and page counts: every caller asks for whole pages and *)
(* the linker aligns __free_ram, so the byte offsets never matter.         *)
(***************************************************************************)
EXTENDS Integers, FiniteSets, FiniteSetsExt

CONSTANTS
  MAX_REGIONS,   \* entries of regions[]
  FREE_RAM,      \* page number of __free_ram
  FREE_RAM_END   \* page number of __free_ram_end

ASSUME RegionsAssumption ==
  /\ MAX_REGIONS \in Nat \ {0}
  /\ FREE_RAM \in Nat
  /\ FREE_RAM_END \in Nat
  /\ FREE_RAM < FREE_RAM_END

Slots == 0 .. MAX_REGIONS - 1
Pages == FREE_RAM .. FREE_RAM_END - 1
RamSize == FREE_RAM_END - FREE_RAM

RegionState == {"UNUSED", "FREE", "ALLOCATED"}
Region == [start : 0 .. FREE_RAM_END, size : 0 .. RamSize, state : RegionState]

End(r) == r.start + r.size

UnusedRegion == [start |-> 0, size |-> 0, state |-> "UNUSED"]

init_regions ==
  [i \in Slots |-> IF i = 0
                   THEN [start |-> FREE_RAM, size |-> RamSize, state |-> "FREE"]
                   ELSE UnusedRegion]

UnusedSlots(rs) == {i \in Slots : rs[i].state = "UNUSED"}
\* Mutation: without the size test of the search.
SuitableSlotsAnySize(rs, n) == {i \in Slots : rs[i].state = "FREE"}
SuitableSlots(rs, n) == {i \in Slots : rs[i].state = "FREE" /\ rs[i].size >= n}

\* Both searches scan the table upwards; -1 when nothing is found.
find_unused_region_slot(rs) ==
  IF UnusedSlots(rs) = {} THEN -1 ELSE Min(UnusedSlots(rs))
find_suitable_free_region(rs, n) ==
  IF SuitableSlots(rs, n) = {} THEN -1 ELSE Min(SuitableSlots(rs, n))

\* The test that sends alloc_region to PANIC("out of memory").
CanAlloc(rs, n) == SuitableSlots(rs, n) # {} /\ UnusedSlots(rs) # {}

\* Mutation: without start += required_size.
ShrinkInPlace(r, n) ==
  IF r.size = n THEN UnusedRegion
  ELSE [start |-> r.start, size |-> r.size - n, state |-> "FREE"]

\* What is left of a free region after its first n pages are taken.
Shrink(r, n) ==
  IF r.size = n THEN UnusedRegion
  ELSE [start |-> r.start + n, size |-> r.size - n, state |-> "FREE"]

\* The table after alloc_region(n); the new slot is find_unused_region_slot(rs).
alloc_region(rs, n) ==
  LET free_idx == find_suitable_free_region(rs, n)
      new_idx  == find_unused_region_slot(rs)
  IN  [rs EXCEPT ![new_idx] = [start |-> rs[free_idx].start, size |-> n,
                               state |-> "ALLOCATED"],
                 ![free_idx] = Shrink(rs[free_idx], n)]

\* Mutation: an inner loop that starts at i + 1.
MergePairUpwards(rs, i, j) ==
  IF /\ i < j
     /\ rs[i].state = "FREE"
     /\ rs[j].state = "FREE"
     /\ End(rs[i]) = rs[j].start
  THEN [rs EXCEPT ![i].size = @ + rs[j].size, ![j] = UnusedRegion]
  ELSE rs

\* Mutation: without the REGION_FREE test of the second region.
MergePairAnyState(rs, i, j) ==
  IF /\ i # j
     /\ rs[i].state = "FREE"
     /\ End(rs[i]) = rs[j].start
  THEN [rs EXCEPT ![i].size = @ + rs[j].size, ![j] = UnusedRegion]
  ELSE rs

\* One iteration of the inner loop of merge_free_regions.
MergePair(rs, i, j) ==
  IF /\ i # j
     /\ rs[i].state = "FREE"
     /\ rs[j].state = "FREE"
     /\ End(rs[i]) = rs[j].start
  THEN [rs EXCEPT ![i].size = @ + rs[j].size, ![j] = UnusedRegion]
  ELSE rs

FreeSlots(rs) == {i \in Slots : rs[i].state = "FREE"}

\* The inner loop for one i, and the whole of merge_free_regions: a single
\* pass over i, with whatever the earlier iterations have left.  Both loops
\* pass over slots that are not FREE, and no slot becomes FREE on the way, so
\* the recursion goes from each free slot to the one before it.
Before(S, i) == Max({j \in S : j < i} \cup {-1})

MergeInto(rs, i) ==
  LET free == FreeSlots(rs)
      inner[j \in free \cup {-1}] ==
        IF j = -1 THEN rs ELSE MergePair(inner[Before(free, j)], i, j)
  IN  IF rs[i].state # "FREE" THEN rs ELSE inner[Max(free)]

merge_free_regions(rs) ==
  LET free == FreeSlots(rs)
      outer[i \in free \cup {-1}] ==
        IF i = -1 THEN rs ELSE MergeInto(outer[Before(free, i)], i)
  IN  outer[Before(free, MAX_REGIONS)]

\* The table after release_pages(r) of an allocated region.
release_pages(rs, r) == merge_free_regions([rs EXCEPT ![r].state = "FREE"])

InUse(rs, i) == rs[i].state # "UNUSED"
Covers(r, p) == r.start <= p /\ p < End(r)
AllocatedSlots(rs) == {i \in Slots : rs[i].state = "ALLOCATED"}

\* The page map a table stands for: a page of an allocated region belongs to
\* the index of that region.
NoOwner == -1
Holders(rs, p) == {i \in AllocatedSlots(rs) : Covers(rs[i], p)}
Pick(S) == IF S = {} THEN NoOwner ELSE CHOOSE i \in S : TRUE
OwnerOf(rs, p) == Pick(Holders(rs, p))

-----------------------------------------------------------------------------
(* What a region table must satisfy. *)

IsTable(rs) == rs \in [Slots -> Region]

\* Regions in use are non-empty and lie inside the free RAM.
InRam(rs) ==
  \A i \in Slots : InUse(rs, i) =>
    /\ rs[i].size > 0
    /\ FREE_RAM <= rs[i].start
    /\ End(rs[i]) <= FREE_RAM_END

\* No two regions in use share a page.
Disjoint(rs) ==
  \A i, j \in Slots : i # j /\ InUse(rs, i) /\ InUse(rs, j) =>
    End(rs[i]) <= rs[j].start \/ End(rs[j]) <= rs[i].start

\* Every page of the free RAM is in some region.
Covered(rs) ==
  \A p \in Pages : \E i \in Slots : InUse(rs, i) /\ Covers(rs[i], p)

Partition(rs) == InRam(rs) /\ Disjoint(rs) /\ Covered(rs)

\* The pairs of free regions that merge_free_regions ought to join.
AdjacentFree(rs) ==
  {e \in FreeSlots(rs) \X FreeSlots(rs) : End(rs[e[1]]) = rs[e[2]].start}
=============================================================================
