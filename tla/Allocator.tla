----------------------------- MODULE Allocator -----------------------------
(***************************************************************************)
(* kernel/allocator.c as a state machine.  alloc_pages is one step.        *)
(* release_pages is one step followed by the passes of merge_free_regions, *)
(* one step per iteration of its inner loop: while pc = "merge" nothing    *)
(* else can happen, as nothing else runs in the kernel.  PANIC loops       *)
(* forever, so pc = "panic" has no successor.                              *)
(***************************************************************************)
EXTENDS Regions

CONSTANT MAX_REQUEST   \* bound on the pages of one request

ASSUME RequestAssumption == MAX_REQUEST \in Nat \ {0}

VARIABLES
  regions,   \* the region table
  pc,        \* "idle", "merge" (inside merge_free_regions) or "panic"
  mi, mj     \* the loop counters of merge_free_regions

vars == <<regions, pc, mi, mj>>

Init ==
  /\ regions = init_regions
  /\ pc = "idle"
  /\ mi = 0
  /\ mj = 0

Panic ==
  /\ pc' = "panic"
  /\ UNCHANGED <<regions, mi, mj>>

alloc_pages(n) ==
  /\ pc = "idle"
  /\ \/ /\ CanAlloc(regions, n)
        /\ regions' = alloc_region(regions, n)
        /\ UNCHANGED <<pc, mi, mj>>
     \/ /\ ~ CanAlloc(regions, n)
        /\ Panic

\* r ranges over one index beyond each end of the table as well.
ReleasePages(r) ==
  /\ pc = "idle"
  /\ \/ /\ r \in AllocatedSlots(regions)
        /\ regions' = [regions EXCEPT ![r].state = "FREE"]
        /\ pc' = "merge"
        /\ mi' = 0
        /\ mj' = 0
     \/ /\ r \notin AllocatedSlots(regions)
        /\ Panic

\* The loop test and the two ways an iteration ends.
NextI ==
  /\ mj' = 0
  /\ \/ /\ mi + 1 < MAX_REGIONS
        /\ mi' = mi + 1
        /\ pc' = pc
     \/ /\ mi + 1 = MAX_REGIONS
        /\ mi' = 0
        /\ pc' = "idle"

MergeSkip ==
  /\ pc = "merge"
  /\ regions[mi].state # "FREE"
  /\ NextI
  /\ UNCHANGED regions

MergeStep ==
  /\ pc = "merge"
  /\ regions[mi].state = "FREE"
  /\ regions' = MergePair(regions, mi, mj)
  /\ \/ /\ mj + 1 < MAX_REGIONS
        /\ mj' = mj + 1
        /\ UNCHANGED <<pc, mi>>
     \/ /\ mj + 1 = MAX_REGIONS
        /\ NextI

Next ==
  \/ \E n \in 1 .. MAX_REQUEST : alloc_pages(n)
  \/ \E r \in -1 .. MAX_REGIONS : ReleasePages(r)
  \/ MergeSkip
  \/ MergeStep

Spec == Init /\ [][Next]_vars

-----------------------------------------------------------------------------

\* Every variable keeps its type, in every state of every call.
TypeOK ==
  /\ IsTable(regions)
  /\ pc \in {"idle", "merge", "panic"}
  /\ mi \in Slots
  /\ mj \in Slots

\* The regions in use partition the free RAM, also in the middle of a merge:
\* no page is handed out twice, and splitting and merging never lose one.
Partitioned == Partition(regions)

\* One pass of merge_free_regions can leave two neighbouring free regions
\* apart, but never two such pairs.  So the slots of regions[] last: after
\* every call all but 2 * a + 2 of them are unused when a regions are
\* allocated, and alloc_region finds no slot for a new region only when at
\* least MAX_REGIONS / 2 - 1 are allocated.
FragmentationBounded ==
  pc = "idle" => /\ Cardinality(AdjacentFree(regions)) <= 1
                 /\ MAX_REGIONS - 2 * Cardinality(AllocatedSlots(regions)) - 2
                      <= Cardinality(UnusedSlots(regions))

\* The comment on the call of merge_free_regions ("merge the fragments"):
\* after a release no two free regions are neighbours.
FragmentsMerged == pc = "idle" => AdjacentFree(regions) = {}

-----------------------------------------------------------------------------

PageSpec == INSTANCE PageAllocator WITH
  Handles <- Slots,
  owner <- [p \in Pages |-> OwnerOf(regions, p)],
  busy <- pc = "merge",
  halted <- pc = "panic"

\* The region table implements the page map: an allocation takes free pages
\* only, a release frees the pages of its own region only, and no iteration
\* of the merge changes whose a page is.
ImplementsPageAllocator == PageSpec!Spec
=============================================================================
