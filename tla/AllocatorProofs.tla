-------------------------- MODULE AllocatorProofs --------------------------
(***************************************************************************)
(* Theorems about Allocator for every table size and every amount of RAM.  *)
(* The inductive invariant is TypeOK /\ Partitioned: the bounds of the     *)
(* loop counters and the partition of the RAM hold in the middle of a      *)
(* merge as well, so every iteration can be taken on its own.  For the     *)
(* fragmentation it is strengthened by Fragments, a count of the free      *)
(* regions that have another one behind them.                              *)
(***************************************************************************)
EXTENDS Allocator, RegionsProofs, FiniteSetTheorems

IInv == TypeOK /\ Partitioned

\* init_regions establishes the invariant.
LEMMA InitIInv == Init => IInv
<1>1. 0 \in Slots
  BY RegionsAssumption DEF Slots
<1>2. QED
  BY <1>1, InitPartition DEF Init, IInv, TypeOK, Partitioned

\* The loop counters of merge_free_regions stay inside the table.
LEMMA CountersStep ==
  ASSUME mi \in Slots, mj \in Slots, pc = "merge",
         \/ NextI
         \/ mj + 1 < MAX_REGIONS /\ mj' = mj + 1 /\ UNCHANGED <<pc, mi>>
  PROVE  mi' \in Slots /\ mj' \in Slots /\ pc' \in {"idle", "merge"}
BY RegionsAssumption DEF NextI, Slots

\* Every step of the allocator keeps the invariant.
LEMMA NextIInv == IInv /\ [Next]_vars => IInv'
<1> SUFFICES ASSUME IInv, [Next]_vars PROVE IInv'
  OBVIOUS
<1> USE DEF IInv
<1>1. ASSUME NEW n \in 1 .. MAX_REQUEST, alloc_pages(n) PROVE IInv'
  <2>1. n \in Nat \ {0}
    BY RequestAssumption
  <2>2. CASE CanAlloc(regions, n) /\ regions' = alloc_region(regions, n)
                                  /\ UNCHANGED <<pc, mi, mj>>
    BY <2>1, <2>2, AllocPartition DEF TypeOK, Partitioned
  <2>3. CASE Panic
    BY <2>3 DEF Panic, TypeOK, Partitioned
  <2>4. QED
    BY <1>1, <2>2, <2>3 DEF alloc_pages
<1>2. ASSUME NEW r \in -1 .. MAX_REGIONS, ReleasePages(r) PROVE IInv'
  <2>1. CASE /\ r \in AllocatedSlots(regions)
             /\ regions' = [regions EXCEPT ![r].state = "FREE"]
             /\ pc' = "merge" /\ mi' = 0 /\ mj' = 0
    <3>1. IsTable(regions') /\ Partition(regions')
      BY <2>1, FreePartition, Zenon DEF TypeOK, Partitioned
    <3>2. 0 \in Slots
      BY RegionsAssumption DEF Slots
    <3>3. QED
      BY <2>1, <3>1, <3>2 DEF TypeOK, Partitioned
  <2>2. CASE Panic
    BY <2>2 DEF Panic, TypeOK, Partitioned
  <2>3. QED
    BY <1>2, <2>1, <2>2 DEF ReleasePages
<1>3. ASSUME MergeSkip PROVE IInv'
  BY <1>3, CountersStep DEF MergeSkip, TypeOK, Partitioned
<1>4. ASSUME MergeStep PROVE IInv'
  <2>1. IsTable(regions') /\ Partition(regions')
    BY <1>4, MergePartition DEF MergeStep, TypeOK, Partitioned
  <2>2. mi' \in Slots /\ mj' \in Slots /\ pc' \in {"idle", "merge"}
    BY <1>4, CountersStep DEF MergeStep, TypeOK
  <2>3. QED
    BY <2>1, <2>2 DEF TypeOK, Partitioned
<1>5. ASSUME UNCHANGED vars PROVE IInv'
  BY <1>5 DEF vars, TypeOK, Partitioned
<1>6. QED
  BY <1>1, <1>2, <1>3, <1>4, <1>5 DEF Next

\* The table keeps its type and its counters stay in range, for every size of
\* regions[] and of the RAM.
THEOREM AllocatorTypeOK == Spec => []TypeOK
<1>1. Init => IInv
  BY InitIInv
<1>2. IInv /\ [Next]_vars => IInv'
  BY NextIInv
<1>3. IInv => TypeOK
  BY DEF IInv
<1>4. QED
  BY <1>1, <1>2, <1>3, PTL DEF Spec

\* alloc_pages and release_pages never hand out a page twice and never lose
\* one: the regions in use partition the free RAM in every reachable state.
THEOREM AllocatorPartitioned == Spec => []Partitioned
<1>1. Init => IInv
  BY InitIInv
<1>2. IInv /\ [Next]_vars => IInv'
  BY NextIInv
<1>3. IInv => Partitioned
  BY DEF IInv
<1>4. QED
  BY <1>1, <1>2, <1>3, PTL DEF Spec

-----------------------------------------------------------------------------
(* Refinement: the table implements the page map of PageAllocator. *)

owners == [p \in Pages |-> OwnerOf(regions, p)]

\* The boot table stands for a page map without owners.
LEMMA RefineInit == Init => PageSpec!Init
<1> SUFFICES ASSUME Init PROVE PageSpec!Init
  OBVIOUS
<1>1. AllocatedSlots(regions) = {}
  BY DEF Init, init_regions, AllocatedSlots, UnusedRegion
<1>2. \A p \in Pages : OwnerOf(regions, p) = NoOwner
  BY <1>1 DEF OwnerOf, Holders, Pick
<1>3. QED
  BY <1>2 DEF Init, PageSpec!Init

\* Every step of the table is an allocation, a release, the return of one or a
\* PANIC of the page map, or leaves it as it was.
LEMMA RefineNext ==
  IInv /\ [Next]_vars => [PageSpec!Next]_<<owners, pc = "merge", pc = "panic">>
<1> SUFFICES ASSUME IInv, [Next]_vars
             PROVE  [PageSpec!Next]_<<owners, pc = "merge", pc = "panic">>
  OBVIOUS
<1>0. IsTable(regions) /\ Partition(regions) /\ mi \in Slots /\ mj \in Slots
  BY DEF IInv, TypeOK, Partitioned
<1>p. ASSUME Panic, pc = "idle" PROVE PageSpec!Next
  <2>1. (pc' = "panic") = TRUE /\ owners' = owners
    BY <1>p DEF Panic, owners
  <2>2. ~ (pc = "merge") /\ (pc' = "merge") = (pc = "merge")
    BY <1>p DEF Panic
  <2>3. QED
    BY <2>1, <2>2 DEF PageSpec!Next, PageSpec!Panic, owners
<1>1. ASSUME NEW n \in 1 .. MAX_REQUEST, alloc_pages(n) PROVE PageSpec!Next
  <2>1. n \in Nat \ {0}
    BY RequestAssumption
  <2>2. CASE CanAlloc(regions, n) /\ regions' = alloc_region(regions, n)
                                  /\ UNCHANGED <<pc, mi, mj>>
    <3>1. PICK u \in Slots, a \in Pages, b \in Pages :
           /\ a <= b
           /\ \A p \in Pages : OwnerOf(regions, p) # u
           /\ a .. b \subseteq Pages
           /\ \A p \in a .. b : OwnerOf(regions, p) = NoOwner
           /\ \A p \in Pages : OwnerOf(regions', p) =
                                 IF p \in a .. b THEN u ELSE OwnerOf(regions, p)
      BY <1>0, <2>1, <2>2, AllocOwner
    <3>2. /\ ~ (pc = "panic") /\ (pc' = "panic") = (pc = "panic")
          /\ ~ (pc = "merge") /\ (pc' = "merge") = (pc = "merge")
      BY <1>1, <2>2 DEF alloc_pages
    <3>3. PageSpec!Owned(u) = {} /\ a .. b \subseteq PageSpec!Owned(NoOwner)
      BY <3>1 DEF PageSpec!Owned
    <3>4. owners' = [p \in Pages |-> IF p \in a .. b THEN u ELSE owners[p]]
      BY <3>1 DEF owners
    <3>5. PageSpec!Alloc(u, a, b)
      BY <3>2, <3>3, <3>4 DEF PageSpec!Alloc, owners
    <3>6. QED
      BY <3>1, <3>5 DEF PageSpec!Next
  <2>3. QED
    BY <1>1, <1>p, <2>2 DEF alloc_pages
<1>2. ASSUME NEW r \in -1 .. MAX_REGIONS, ReleasePages(r) PROVE PageSpec!Next
  <2>1. CASE /\ r \in AllocatedSlots(regions)
             /\ regions' = [regions EXCEPT ![r].state = "FREE"]
             /\ pc' = "merge" /\ mi' = 0 /\ mj' = 0
    <3>1. /\ \E p \in Pages : OwnerOf(regions, p) = r
          /\ \A p \in Pages : OwnerOf(regions', p) =
               IF OwnerOf(regions, p) = r THEN NoOwner ELSE OwnerOf(regions, p)
      BY <1>0, <2>1, FreeOwner, ZenonT(60)
    <3>2. /\ ~ (pc = "panic") /\ (pc' = "panic") = (pc = "panic")
          /\ ~ (pc = "merge") /\ (pc' = "merge") = TRUE
      BY <1>2, <2>1 DEF ReleasePages
    <3>3. PageSpec!Owned(r) # {}
      BY <3>1 DEF PageSpec!Owned
    <3>4. owners' = [p \in Pages |-> IF owners[p] = r THEN NoOwner ELSE owners[p]]
      BY <3>1 DEF owners
    <3>5. PageSpec!Release(r)
      BY <3>2, <3>3, <3>4 DEF PageSpec!Release, owners
    <3>6. r \in Slots
      BY <2>1 DEF AllocatedSlots
    <3>7. QED
      BY <3>5, <3>6 DEF PageSpec!Next
  <2>2. QED
    BY <1>2, <1>p, <2>1 DEF ReleasePages
<1>n. ASSUME pc = "merge", pc' \in {"merge", "idle"}, owners' = owners
      PROVE  [PageSpec!Next]_<<owners, pc = "merge", pc = "panic">>
  <2>1. (pc' = "panic") = (pc = "panic")
    BY <1>n
  <2>2. CASE pc' = "merge"
    BY <1>n, <2>1, <2>2
  <2>3. CASE pc' = "idle"
    <3>1. (pc = "merge") /\ (pc' = "merge") = FALSE
      BY <1>n, <2>3
    <3>2. PageSpec!Return
      BY <1>n, <2>1, <3>1 DEF PageSpec!Return, owners
    <3>3. QED
      BY <3>2 DEF PageSpec!Next
  <2>4. QED
    BY <1>n, <2>2, <2>3
<1>3. ASSUME MergeSkip PROVE [PageSpec!Next]_<<owners, pc = "merge", pc = "panic">>
  <2>1. owners' = owners /\ pc = "merge" /\ pc' \in {"merge", "idle"}
    BY <1>3 DEF MergeSkip, NextI, owners
  <2>2. QED
    BY <2>1, <1>n
<1>4. ASSUME MergeStep PROVE [PageSpec!Next]_<<owners, pc = "merge", pc = "panic">>
  <2>1. \A p \in Pages : OwnerOf(regions', p) = OwnerOf(regions, p)
    BY <1>0, <1>4, MergeOwner DEF MergeStep
  <2>2. pc = "merge" /\ pc' \in {"merge", "idle"}
    BY <1>4 DEF MergeStep, NextI
  <2>3. owners' = owners
    BY <2>1 DEF owners
  <2>4. QED
    BY <2>2, <2>3, <1>n
<1>5. ASSUME UNCHANGED vars PROVE UNCHANGED <<owners, pc = "merge", pc = "panic">>
  BY <1>5 DEF vars, owners
<1>6. QED
  BY <1>1, <1>2, <1>3, <1>4, <1>5 DEF Next

\* kernel/allocator.c keeps the promise of PageAllocator, for every table and
\* RAM size: allocations take free pages only, a release frees its own pages
\* only, and until it returns no step of the merge changes whose a page is.
THEOREM AllocatorRefines == Spec => ImplementsPageAllocator
<1>1. Init => PageSpec!Init
  BY RefineInit
<1>2. IInv /\ [Next]_vars => [PageSpec!Next]_<<owners, pc = "merge", pc = "panic">>
  BY RefineNext
<1>3. Init => IInv
  BY InitIInv
<1>4. IInv /\ [Next]_vars => IInv'
  BY NextIInv
<1>5. QED
  BY <1>1, <1>2, <1>3, <1>4, PTL
  DEF Spec, ImplementsPageAllocator, PageSpec!Spec, owners

-----------------------------------------------------------------------------
(* Fragmentation.  A free region leads when another one follows it.  In the  *)
(* pass of merge_free_regions every region takes in the one that follows it, *)
(* so one that still leads after its turn has made another stop leading.     *)

Leads(rs) == {i \in FreeSlots(rs) : \E j \in FreeSlots(rs) : End(rs[i]) = rs[j].start}

\* The leading regions that the pass will not look at again, at iteration
\* <<a, b>>.
Passed(rs, a, b) ==
  {i \in Leads(rs) : \/ i < a
                     \/ i = a /\ \A j \in FreeSlots(rs) : End(rs[i]) = rs[j].start => j < b}

\* A release makes at most three regions lead, the pass halves that.
Fragments ==
  IF pc = "merge" THEN Cardinality(Leads(regions)) + Cardinality(Passed(regions, mi, mj)) <= 3
  ELSE Cardinality(Leads(regions)) <= 1

\* A table whose regions partition the free RAM.
Neat(rs) == IsTable(rs) /\ Partition(rs)

\* What a partition says of two regions in use.
LEMMA Neighbours ==
  ASSUME NEW rs, Neat(rs), NEW i \in Slots, NEW j \in Slots, InUse(rs, i), InUse(rs, j)
  PROVE  /\ rs[i].start \in Nat /\ rs[i].size \in Nat /\ rs[i].size > 0
         /\ End(rs[i]) = rs[i].start + rs[i].size
         /\ rs[i].start = rs[j].start => i = j
         /\ End(rs[i]) = End(rs[j]) => i = j
<1>1. /\ rs[i].start \in Nat /\ rs[i].size \in Nat /\ rs[i].size > 0
      /\ rs[j].start \in Nat /\ rs[j].size \in Nat /\ rs[j].size > 0
  <2>1. rs[i] \in Region /\ rs[j] \in Region
    BY Zenon DEF Neat, IsTable
  <2>2. rs[i].size > 0 /\ rs[j].size > 0
    BY Zenon DEF Neat, Partition, InRam
  <2> QED
    BY <2>1, <2>2, RegionsAssumption, SMT DEF Region, RamSize
<1>2. i # j => End(rs[i]) <= rs[j].start \/ End(rs[j]) <= rs[i].start
  BY Zenon DEF Neat, Partition, Disjoint
<1> QED
  BY <1>1, <1>2, SMT DEF End

\* Free regions are in use.
LEMMA FreeInUse ==
  ASSUME NEW rs, NEW i \in FreeSlots(rs)
  PROVE  i \in Slots /\ rs[i].state = "FREE" /\ InUse(rs, i)
<1>1. i \in Slots /\ rs[i].state = "FREE"
  BY Zenon DEF FreeSlots
<1> QED
  BY <1>1, SMT DEF InUse

\* All the sets of slots are finite.
LEMMA SlotSets ==
  ASSUME NEW S \in SUBSET Slots
  PROVE  IsFiniteSet(S) /\ Cardinality(S) \in Nat
<1>1. 0 \in Int /\ MAX_REGIONS - 1 \in Int
  BY RegionsAssumption, SMT
<1>2. IsFiniteSet(Slots)
  BY <1>1, FS_Interval, Zenon DEF Slots
<1>3. IsFiniteSet(S)
  BY <1>2, FS_Subset, Zenon
<1> QED
  BY <1>3, FS_CardinalityType, Zenon

\* A subset of a set of slots is not larger.
LEMMA FewerSlots ==
  ASSUME NEW S \in SUBSET Slots, NEW T \in SUBSET S
  PROVE  T \in SUBSET Slots /\ Cardinality(T) <= Cardinality(S)
<1>1. IsFiniteSet(S)
  BY SlotSets, Zenon
<1> QED
  BY <1>1, FS_Subset, Zenon

\* One slot more, or one less.
LEMMA OneSlot ==
  ASSUME NEW S \in SUBSET Slots, NEW x
  PROVE  /\ Cardinality(S \cup {x}) <= Cardinality(S) + 1
         /\ x \in S => Cardinality(S \ {x}) = Cardinality(S) - 1
<1>1. IsFiniteSet(S) /\ Cardinality(S) \in Nat
  BY SlotSets, Zenon
<1>2. /\ Cardinality(S \cup {x}) = IF x \in S THEN Cardinality(S) ELSE Cardinality(S) + 1
  BY <1>1, FS_AddElement, Zenon
<1>3. Cardinality(S \ {x}) = IF x \in S THEN Cardinality(S) - 1 ELSE Cardinality(S)
  BY <1>1, FS_RemoveElement, Zenon
<1> QED
  BY <1>1, <1>2, <1>3, SMT

\* Two slots more.
LEMMA TwoSlots ==
  ASSUME NEW S \in SUBSET Slots, NEW x \in Slots, NEW y \in Slots,
         NEW T \in SUBSET ((S \cup {x}) \cup {y})
  PROVE  Cardinality(T) <= Cardinality(S) + 2
<1> DEFINE A == S \cup {x}
           B == A \cup {y}
<1>1. A \in SUBSET Slots /\ B \in SUBSET Slots /\ T \in SUBSET B
  BY Zenon
<1> HIDE DEF B
<1>2. Cardinality(A) <= Cardinality(S) + 1
  BY OneSlot, Zenon
<1> HIDE DEF A
<1>3. Cardinality(B) <= Cardinality(A) + 1
  BY <1>1, OneSlot, Zenon DEF B
<1>4. Cardinality(T) <= Cardinality(B) /\ T \in SUBSET Slots
  BY <1>1, FewerSlots, Zenon
<1>5. /\ Cardinality(A) \in Nat /\ Cardinality(B) \in Nat
      /\ Cardinality(S) \in Nat /\ Cardinality(T) \in Nat
  BY <1>1, <1>4, SlotSets, Zenon
<1> QED
  BY <1>2, <1>3, <1>4, <1>5, SMT

\* The sets that are counted.
LEMMA LeadsAreSlots ==
  ASSUME NEW rs, NEW a, NEW b
  PROVE  Leads(rs) \in SUBSET Slots /\ Passed(rs, a, b) \in SUBSET Slots
BY Zenon DEF Leads, Passed, FreeSlots

\* An allocation makes no region lead.
LEMMA AllocLeads ==
  ASSUME NEW rs, Neat(rs), NEW n \in Nat \ {0}, CanAlloc(rs, n)
  PROVE  Leads(alloc_region(rs, n)) \subseteq Leads(rs)
<1> DEFINE t == alloc_region(rs, n)
<1>1. PICK f \in SuitableSlots(rs, n), u \in UnusedSlots(rs) :
           /\ f # u
           /\ t[u] = [start |-> rs[f].start, size |-> n, state |-> "ALLOCATED"]
           /\ t[f] = Shrink(rs[f], n)
           /\ \A i \in Slots \ {f, u} : t[i] = rs[i]
  <2>1. IsTable(rs)
    BY Zenon DEF Neat
  <2> QED
    BY <2>1, AllocEntries
<1>2. /\ f \in FreeSlots(rs) /\ rs[f].size >= n /\ f \in Slots /\ InUse(rs, f)
      /\ t[u].state = "ALLOCATED"
  BY <1>1, SMT DEF SuitableSlots, FreeSlots, InUse
<1>3. Neat(t)
  BY AllocPartition, Zenon DEF Neat
<1> HIDE DEF t
<1>4. t[f].state = "FREE" => t[f].start = rs[f].start + n /\ End(t[f]) = End(rs[f])
  <2>1. rs[f].start \in Nat /\ rs[f].size \in Nat
    BY <1>2, Neighbours, Zenon
  <2> QED
    BY <1>1, <2>1, SMT DEF Shrink, UnusedRegion, End
<1>5. ASSUME NEW i \in FreeSlots(t)
      PROVE  i \in FreeSlots(rs) /\ End(t[i]) = End(rs[i]) /\ (i # f => t[i] = rs[i])
  <2>1. i \in Slots /\ t[i].state = "FREE"
    BY Zenon DEF FreeSlots
  <2>2. i # u
    BY <1>2, <2>1, SMT
  <2>3. CASE i = f
    BY <1>2, <1>4, <2>1, <2>3, Zenon
  <2>4. CASE i # f
    BY <1>1, <2>1, <2>2, <2>4, Zenon DEF FreeSlots
  <2> QED
    BY <2>3, <2>4, Zenon
<1>6. ASSUME NEW i \in FreeSlots(t), f \in FreeSlots(t) PROVE End(t[i]) # t[f].start
  <2>1. CASE i = f
    <3>1. t[f].start \in Nat /\ t[f].size \in Nat /\ t[f].size > 0
          /\ End(t[f]) = t[f].start + t[f].size
      BY <1>3, <1>6, FreeInUse, Neighbours, Zenon
    <3> QED
      BY <2>1, <3>1, SMT
  <2>2. CASE i # f
    <3>1. /\ i \in FreeSlots(rs) /\ t[i] = rs[i] /\ t[f].start = rs[f].start + n
      BY <1>4, <1>5, <1>6, <2>2, FreeInUse, Zenon
    <3>2. i \in Slots /\ InUse(rs, i)
      BY <3>1, FreeInUse, Zenon
    <3>3. /\ rs[i].start \in Nat /\ rs[i].size \in Nat /\ rs[i].size > 0
          /\ rs[f].start \in Nat /\ rs[f].size \in Nat
          /\ End(rs[f]) = rs[f].start + rs[f].size /\ End(rs[i]) = rs[i].start + rs[i].size
      BY <1>2, <3>2, Neighbours, Zenon
    <3>4. End(rs[i]) <= rs[f].start \/ End(rs[f]) <= rs[i].start
      BY <1>2, <2>2, <3>2, Zenon DEF Neat, Partition, Disjoint
    <3> QED
      BY <1>2, <3>1, <3>3, <3>4, SMT
  <2> QED
    BY <2>1, <2>2, Zenon
<1>7. ASSUME NEW i \in Leads(t) PROVE i \in Leads(rs)
  <2>1. PICK j \in FreeSlots(t) : i \in FreeSlots(t) /\ End(t[i]) = t[j].start
    BY Zenon DEF Leads
  <2>2. j # f
    BY <1>6, <2>1, Zenon
  <2>3. i \in FreeSlots(rs) /\ j \in FreeSlots(rs) /\ End(rs[i]) = rs[j].start
    BY <1>5, <2>1, <2>2, Zenon
  <2> QED
    BY <2>3, Zenon DEF Leads
<1> QED
  BY <1>7, Zenon DEF t

\* A release makes the region released lead, and the one before it.
LEMMA FreeLeads ==
  ASSUME NEW rs, Neat(rs), NEW r \in AllocatedSlots(rs)
  PROVE  \E x : Leads([rs EXCEPT ![r].state = "FREE"]) \subseteq (Leads(rs) \cup {r}) \cup {x}
<1> DEFINE t == [rs EXCEPT ![r].state = "FREE"]
           B == {i \in Slots : InUse(rs, i) /\ End(rs[i]) = rs[r].start}
           x == CHOOSE i \in B : TRUE
<1>1. r \in Slots /\ rs \in [Slots -> Region] /\ InUse(rs, r)
  BY SMT DEF AllocatedSlots, Neat, IsTable, InUse
<1>2. /\ \A i \in Slots \ {r} : t[i] = rs[i]
      /\ t[r].start = rs[r].start
  BY <1>1, SMT DEF Region
<1> HIDE DEF t
<1>3. ASSUME NEW i \in B, NEW j \in B PROVE i = j
  <2>1. i \in Slots /\ j \in Slots /\ InUse(rs, i) /\ InUse(rs, j) /\ End(rs[i]) = End(rs[j])
    BY Zenon
  <2> QED
    BY <2>1, Neighbours, Zenon
<1>4. \A i \in B : i = x
  BY <1>3, Zenon
<1> HIDE DEF x
<1>5. ASSUME NEW i \in Leads(t), i # r, i # x PROVE i \in Leads(rs)
  <2>1. PICK j \in FreeSlots(t) : i \in FreeSlots(t) /\ End(t[i]) = t[j].start
    BY Zenon DEF Leads
  <2>2. i \in Slots /\ j \in Slots /\ t[i] = rs[i] /\ rs[i].state = "FREE"
    BY <1>2, <1>5, <2>1, Zenon DEF FreeSlots
  <2>3. i \in FreeSlots(rs) /\ InUse(rs, i)
    BY <2>2, SMT DEF FreeSlots, InUse
  <2>4. j # r
    BY <1>2, <1>4, <1>5, <2>1, <2>2, <2>3, Zenon
  <2>5. j \in FreeSlots(rs) /\ t[j] = rs[j]
    BY <1>2, <2>1, <2>2, <2>4, Zenon DEF FreeSlots
  <2> QED
    BY <2>1, <2>2, <2>3, <2>5, Zenon DEF Leads
<1> QED
  BY <1>5, Zenon DEF t

\* An iteration that joins two regions makes one lead less; the region that
\* has grown may come to be one that is passed.
LEMMA MergeLeads ==
  ASSUME NEW rs, Neat(rs), NEW i \in Slots, NEW j \in Slots, MergePair(rs, i, j) # rs
  PROVE  /\ \E x \in Leads(rs) : Leads(MergePair(rs, i, j)) \subseteq Leads(rs) \ {x}
         /\ Passed(MergePair(rs, i, j), i, j + 1) \subseteq Passed(rs, i, j) \cup {i}
<1> DEFINE t == MergePair(rs, i, j)
<1>1. /\ i # j /\ rs[i].state = "FREE" /\ rs[j].state = "FREE"
      /\ End(rs[i]) = rs[j].start
      /\ t[i] = [start |-> rs[i].start, size |-> rs[i].size + rs[j].size, state |-> "FREE"]
      /\ t[j] = UnusedRegion
      /\ \A k \in Slots \ {i, j} : t[k] = rs[k]
  <2>1. IsTable(rs)
    BY Zenon DEF Neat
  <2> QED
    BY <2>1, MergeEntries
<1> HIDE DEF t
<1>2. i \in FreeSlots(rs) /\ j \in FreeSlots(rs) /\ i \in Leads(rs)
  BY <1>1, Zenon DEF FreeSlots, Leads
<1>3. /\ rs[i].start \in Nat /\ rs[i].size \in Nat /\ rs[i].size > 0
      /\ rs[j].start \in Nat /\ rs[j].size \in Nat /\ rs[j].size > 0
      /\ End(rs[i]) = rs[i].start + rs[i].size /\ End(rs[j]) = rs[j].start + rs[j].size
  BY <1>2, FreeInUse, Neighbours, Zenon
<1>4. t[i].start = rs[i].start /\ End(t[i]) = End(rs[j]) /\ End(rs[j]) # rs[i].start
  BY <1>1, <1>3, SMT DEF End
<1>5. ASSUME NEW k \in FreeSlots(t)
      PROVE  k # j /\ k \in FreeSlots(rs) /\ t[k].start = rs[k].start /\ (k # i => t[k] = rs[k])
  <2>1. k \in Slots /\ t[k].state = "FREE"
    BY Zenon DEF FreeSlots
  <2>2. k # j
    BY <1>1, <2>1, SMT DEF UnusedRegion
  <2>3. CASE k = i
    BY <1>2, <1>4, <2>2, <2>3, Zenon
  <2>4. CASE k # i
    BY <1>1, <2>1, <2>2, <2>4, Zenon DEF FreeSlots
  <2> QED
    BY <2>3, <2>4, Zenon
<1>6. ASSUME NEW k \in Leads(t) PROVE k \in Leads(rs) /\ k # j /\ (k = i => j \in Leads(rs))
  <2>1. PICK m \in FreeSlots(t) : k \in FreeSlots(t) /\ End(t[k]) = t[m].start
    BY Zenon DEF Leads
  <2>2. /\ k # j /\ k \in FreeSlots(rs) /\ m \in FreeSlots(rs) /\ t[m].start = rs[m].start
        /\ k # i => t[k] = rs[k]
    BY <1>5, <2>1, Zenon
  <2>3. CASE k = i
    <3>1. End(rs[j]) = rs[m].start
      BY <1>4, <2>1, <2>2, <2>3, Zenon
    <3> QED
      BY <1>2, <2>2, <2>3, <3>1, Zenon DEF Leads
  <2>4. CASE k # i
    BY <2>1, <2>2, <2>4, Zenon DEF Leads
  <2> QED
    BY <2>3, <2>4, Zenon
<1>7. \E x \in Leads(rs) : Leads(t) \subseteq Leads(rs) \ {x}
  <2>1. CASE j \in Leads(rs)
    BY <1>6, <2>1, Zenon
  <2>2. CASE j \notin Leads(rs)
    BY <1>2, <1>6, <2>2, Zenon
  <2> QED
    BY <2>1, <2>2, Zenon
<1>8. ASSUME NEW k \in Passed(t, i, j + 1), k # i PROVE k \in Passed(rs, i, j)
  BY <1>6, <1>8, Zenon DEF Passed
<1> QED
  BY <1>7, <1>8, Zenon DEF t

\* An iteration that joins nothing passes nothing.
LEMMA MergeNothing ==
  ASSUME NEW rs, Neat(rs), NEW i \in Slots, NEW j \in Slots,
         rs[i].state = "FREE", MergePair(rs, i, j) = rs
  PROVE  Passed(rs, i, j + 1) \subseteq Passed(rs, i, j)
<1>1. ASSUME j \in FreeSlots(rs), End(rs[i]) = rs[j].start PROVE FALSE
  <2>1. i \in FreeSlots(rs) /\ rs[j].state = "FREE"
    BY <1>1, Zenon DEF FreeSlots
  <2>2. /\ rs[i].start \in Nat /\ rs[i].size \in Nat /\ rs[i].size > 0
        /\ End(rs[i]) = rs[i].start + rs[i].size
    BY <2>1, FreeInUse, Neighbours, Zenon
  <2>3. ASSUME i = j PROVE FALSE
    <3>1. End(rs[i]) = rs[i].start
      BY <1>1, <2>3, Zenon
    <3> QED
      BY <2>2, <3>1, SMT
  <2>4. rs = [rs EXCEPT ![i].size = @ + rs[j].size, ![j] = UnusedRegion]
    BY <1>1, <2>1, <2>3, Zenon DEF MergePair
  <2>5. DOMAIN rs = Slots
    BY Zenon DEF Neat, IsTable
  <2>6. rs[j] = UnusedRegion
    BY <2>4, <2>5, Zenon
  <2> QED
    BY <2>1, <2>6, SMT DEF UnusedRegion
<1>2. ASSUME NEW k \in Passed(rs, i, j + 1) PROVE k \in Passed(rs, i, j)
  <2>1. k \in Leads(rs)
    BY Zenon DEF Passed
  <2>2. CASE k < i
    BY <2>1, <2>2, Zenon DEF Passed
  <2>3. CASE ~ (k < i)
    <3>1. k = i /\ \A m \in FreeSlots(rs) : End(rs[k]) = rs[m].start => m < j + 1
      BY <2>3, Zenon DEF Passed
    <3>2. ASSUME NEW m \in FreeSlots(rs), End(rs[k]) = rs[m].start PROVE m < j
      <4>1. m < j + 1 /\ m # j
        BY <1>1, <3>1, <3>2, Zenon
      <4>2. m \in Int /\ j \in Int
        BY FreeInUse, RegionsAssumption, SMT DEF Slots
      <4> QED
        BY <4>1, <4>2, SMT
    <3> QED
      BY <2>1, <3>1, <3>2, Zenon DEF Passed
  <2> QED
    BY <2>2, <2>3, Zenon
<1> QED
  BY <1>2, Zenon

\* The end of the inner loop for i: what has been passed stays so, and after
\* the last i everything has been.
LEMMA RowPassed ==
  ASSUME NEW rs, NEW i \in Slots
  PROVE  /\ Passed(rs, i + 1, 0) \subseteq Passed(rs, i, MAX_REGIONS)
         /\ i + 1 = MAX_REGIONS => Leads(rs) \subseteq Passed(rs, i, MAX_REGIONS)
         /\ rs[i].state # "FREE" =>
              \A b : /\ Passed(rs, i + 1, 0) \subseteq Passed(rs, i, b)
                     /\ i + 1 = MAX_REGIONS => Leads(rs) \subseteq Passed(rs, i, b)
<1>1. \A k \in Slots : k \in Int /\ 0 <= k /\ k < MAX_REGIONS
  BY RegionsAssumption, SMT DEF Slots
<1>2. i \in Int
  BY <1>1, Zenon
<1>3. ASSUME NEW k \in Leads(rs)
      PROVE  /\ k \in Slots /\ rs[k].state = "FREE"
             /\ \A j \in FreeSlots(rs) : End(rs[k]) = rs[j].start => j < MAX_REGIONS
             /\ ~ \A j \in FreeSlots(rs) : End(rs[k]) = rs[j].start => j < 0
  <2>1. PICK j \in FreeSlots(rs) : k \in FreeSlots(rs) /\ End(rs[k]) = rs[j].start
    BY Zenon DEF Leads
  <2>2. k \in Slots /\ rs[k].state = "FREE" /\ \A m \in FreeSlots(rs) : m \in Slots
    BY <2>1, Zenon DEF FreeSlots
  <2>3. ~ (j < 0)
    BY <1>1, <2>2, SMT
  <2> QED
    BY <1>1, <2>1, <2>2, <2>3, Zenon
<1>4. ASSUME NEW k \in Leads(rs)
      PROVE  /\ k < i + 1 => k < i \/ k = i
             /\ i + 1 = MAX_REGIONS => k < i \/ k = i
  <2>1. k \in Int /\ k < MAX_REGIONS
    BY <1>1, <1>3, Zenon
  <2> QED
    BY <1>2, <2>1, SMT
<1>5. \A k \in Passed(rs, i + 1, 0) : k \in Leads(rs) /\ k < i + 1
  BY <1>3, Zenon DEF Passed
<1>6. /\ Passed(rs, i + 1, 0) \subseteq Passed(rs, i, MAX_REGIONS)
      /\ i + 1 = MAX_REGIONS => Leads(rs) \subseteq Passed(rs, i, MAX_REGIONS)
  <2>1. ASSUME NEW k \in Leads(rs), k < i \/ k = i PROVE k \in Passed(rs, i, MAX_REGIONS)
    BY <1>3, <2>1, Zenon DEF Passed
  <2>2. Passed(rs, i + 1, 0) \subseteq Passed(rs, i, MAX_REGIONS)
    BY <1>4, <1>5, <2>1, Zenon
  <2>3. ASSUME i + 1 = MAX_REGIONS, NEW k \in Leads(rs) PROVE k \in Passed(rs, i, MAX_REGIONS)
    BY <1>4, <2>1, <2>3, Zenon
  <2> QED
    BY <2>2, <2>3, Zenon
<1>7. ASSUME rs[i].state # "FREE", NEW b
      PROVE  /\ Passed(rs, i + 1, 0) \subseteq Passed(rs, i, b)
             /\ i + 1 = MAX_REGIONS => Leads(rs) \subseteq Passed(rs, i, b)
  <2>1. ASSUME NEW k \in Leads(rs), k < i \/ k = i PROVE k \in Passed(rs, i, b)
    <3>1. k # i
      BY <1>3, <1>7, Zenon
    <3> QED
      BY <2>1, <3>1, Zenon DEF Passed
  <2>2. Passed(rs, i + 1, 0) \subseteq Passed(rs, i, b)
    BY <1>4, <1>5, <2>1, Zenon
  <2>3. ASSUME i + 1 = MAX_REGIONS, NEW k \in Leads(rs) PROVE k \in Passed(rs, i, b)
    BY <1>4, <2>1, <2>3, Zenon
  <2> QED
    BY <2>2, <2>3, Zenon
<1> QED
  BY <1>6, <1>7, Zenon

\* At the start of the pass no region has been passed.
LEMMA NothingPassed ==
  ASSUME NEW rs
  PROVE  Passed(rs, 0, 0) = {}
<1>1. \A k \in Slots : ~ (k < 0)
  BY RegionsAssumption, SMT DEF Slots
<1> QED
  BY <1>1, Zenon DEF Passed, Leads, FreeSlots

\* The pairs of neighbours are as many as the regions that lead.
LEMMA AdjacentFew ==
  ASSUME NEW rs, Neat(rs)
  PROVE  /\ Cardinality(AdjacentFree(rs)) <= Cardinality(Leads(rs))
         /\ Cardinality(AdjacentFree(rs)) \in Nat
<1> DEFINE A == AdjacentFree(rs)
           f == [e \in A |-> e[1]]
<1>1. ASSUME NEW e \in A
      PROVE  /\ e[1] \in FreeSlots(rs) /\ e[2] \in FreeSlots(rs) /\ e = <<e[1], e[2]>>
             /\ End(rs[e[1]]) = rs[e[2]].start
  BY SMT DEF AdjacentFree
<1>2. \A e \in A : e[1] \in Leads(rs)
  BY <1>1, Zenon DEF Leads
<1>3. ASSUME NEW d \in A, NEW e \in A, d[1] = e[1] PROVE d = e
  <2>1. /\ d[2] \in Slots /\ e[2] \in Slots /\ InUse(rs, d[2]) /\ InUse(rs, e[2])
        /\ rs[d[2]].start = rs[e[2]].start
    BY <1>1, <1>3, FreeInUse, Zenon
  <2>2. d[2] = e[2]
    BY <2>1, Neighbours, Zenon
  <2> QED
    BY <1>1, <1>3, <2>2, Zenon
<1> HIDE DEF A
<1>4. f \in Injection(A, Leads(rs))
  BY <1>2, <1>3, Zenon DEF Injection, IsInjective
<1>5. IsFiniteSet(Leads(rs))
  BY LeadsAreSlots, SlotSets, Zenon
<1>6. IsFiniteSet(A) /\ Cardinality(A) <= Cardinality(Leads(rs))
  BY <1>4, <1>5, FS_Injection, Zenon
<1> QED
  BY <1>6, FS_CardinalityType, Zenon DEF A

\* A free region that does not lead ends where an allocated one starts, or at
\* the end of the RAM.
LEMMA FreeFew ==
  ASSUME NEW rs, Neat(rs)
  PROVE  Cardinality(FreeSlots(rs)) <= Cardinality(AllocatedSlots(rs)) + 1 + Cardinality(Leads(rs))
<1> DEFINE S == FreeSlots(rs) \ Leads(rs)
           T == AllocatedSlots(rs) \cup {-1}
           Next1(i, j) == IF End(rs[i]) = FREE_RAM_END THEN j = -1
                          ELSE j \in AllocatedSlots(rs) /\ rs[j].start = End(rs[i])
           f == [i \in S |-> CHOOSE j \in T : Next1(i, j)]
<1>0. \A i \in AllocatedSlots(rs) : i \in Slots /\ InUse(rs, i) /\ i # -1
  <2>1. \A i \in AllocatedSlots(rs) : i \in Slots /\ rs[i].state = "ALLOCATED"
    BY Zenon DEF AllocatedSlots
  <2>2. \A i \in Slots : i # -1
    BY RegionsAssumption, SMT DEF Slots
  <2>3. \A i \in AllocatedSlots(rs) : InUse(rs, i)
    BY <2>1, SMT DEF InUse
  <2> QED
    BY <2>1, <2>2, <2>3, Zenon
<1>1. \A i \in S : i \in FreeSlots(rs) /\ i \in Slots /\ InUse(rs, i)
  BY FreeInUse, Zenon
<1>2. ASSUME NEW i \in S PROVE \E j \in T : Next1(i, j)
  <2>1. CASE End(rs[i]) = FREE_RAM_END
    BY <2>1, Zenon
  <2>2. CASE End(rs[i]) # FREE_RAM_END
    <3>1. /\ rs[i].start \in Nat /\ rs[i].size \in Nat /\ rs[i].size > 0
          /\ End(rs[i]) = rs[i].start + rs[i].size
      BY <1>1, Neighbours, Zenon
    <3>2. FREE_RAM <= rs[i].start /\ End(rs[i]) <= FREE_RAM_END
      BY <1>1, Zenon DEF Neat, Partition, InRam
    <3>3. End(rs[i]) \in Pages
      BY <2>2, <3>1, <3>2, RegionsAssumption, SMT DEF Pages
    <3>4. PICK j \in Slots : InUse(rs, j) /\ Covers(rs[j], End(rs[i]))
      BY <3>3, Zenon DEF Neat, Partition, Covered
    <3>5. /\ rs[j].start \in Nat /\ rs[j].size \in Nat /\ rs[j].size > 0
          /\ End(rs[j]) = rs[j].start + rs[j].size
      BY <3>4, Neighbours, Zenon
    <3>6. rs[j].start <= End(rs[i]) /\ End(rs[i]) < End(rs[j])
      BY <3>4, Zenon DEF Covers
    <3>7. i = j \/ End(rs[i]) <= rs[j].start \/ End(rs[j]) <= rs[i].start
      BY <1>1, <3>4, Zenon DEF Neat, Partition, Disjoint
    <3>8. CASE i = j
      BY <3>1, <3>6, <3>8, SMT
    <3>9. CASE i # j
      <4>1. rs[j].start = End(rs[i])
        BY <3>1, <3>5, <3>6, <3>7, <3>9, SMT
      <4>2. rs[j].state \in {"FREE", "ALLOCATED"}
        BY <3>4, SMT DEF Neat, IsTable, Region, RegionState, InUse
      <4>3. rs[j].state # "FREE"
        BY <1>1, <4>1, Zenon DEF Leads, FreeSlots
      <4>4. j \in AllocatedSlots(rs)
        BY <4>2, <4>3, Zenon DEF AllocatedSlots
      <4> QED
        BY <2>2, <4>1, <4>4, Zenon
    <3> QED
      BY <3>8, <3>9, Zenon
  <2> QED
    BY <2>1, <2>2, Zenon
<1>3. ASSUME NEW i \in S, NEW k \in S, NEW j \in T, Next1(i, j), Next1(k, j) PROVE i = k
  <2>1. End(rs[i]) = End(rs[k])
    BY <1>0, <1>3, Zenon
  <2> QED
    BY <1>1, <2>1, Neighbours, Zenon
<1> HIDE DEF Next1, S, T
<1>4. \A i \in S : f[i] \in T /\ Next1(i, f[i])
  BY <1>2, Zenon
<1>5. f \in Injection(S, T)
  <2>1. f \in [S -> T]
    BY <1>4, Zenon
  <2>2. \A i, k \in S : f[i] = f[k] => i = k
    BY <1>3, <1>4, Zenon
  <2> HIDE DEF f
  <2> QED
    BY <2>1, <2>2, Zenon DEF Injection, IsInjective
<1>6. AllocatedSlots(rs) \in SUBSET Slots /\ FreeSlots(rs) \in SUBSET Slots
  BY Zenon DEF AllocatedSlots, FreeSlots
<1>7. IsFiniteSet(T) /\ Cardinality(T) <= Cardinality(AllocatedSlots(rs)) + 1
  <2>1. IsFiniteSet(AllocatedSlots(rs))
    BY <1>6, SlotSets, Zenon
  <2>2. IsFiniteSet(T)
    BY <2>1, FS_AddElement, Zenon DEF T
  <2> QED
    BY <1>6, <2>2, OneSlot, Zenon DEF T
<1>8. Cardinality(S) <= Cardinality(T)
  BY <1>5, <1>7, FS_Injection, Zenon
<1>9. Cardinality(S) = Cardinality(FreeSlots(rs)) - Cardinality(FreeSlots(rs) \cap Leads(rs))
  <2>1. IsFiniteSet(FreeSlots(rs))
    BY <1>6, SlotSets, Zenon
  <2> QED
    BY <2>1, FS_Difference, Zenon DEF S
<1>10. Cardinality(S) = Cardinality(FreeSlots(rs)) - Cardinality(Leads(rs))
  <2>1. FreeSlots(rs) \cap Leads(rs) = Leads(rs)
    BY Zenon DEF Leads
  <2> QED
    BY <1>9, <2>1, Zenon
<1>11. /\ Cardinality(FreeSlots(rs)) \in Nat /\ Cardinality(Leads(rs)) \in Nat
       /\ Cardinality(AllocatedSlots(rs)) \in Nat
  BY <1>6, LeadsAreSlots, SlotSets, Zenon
<1>12. Cardinality(T) \in Nat
  BY <1>7, FS_CardinalityType, Zenon
<1> QED
  BY <1>7, <1>8, <1>10, <1>11, <1>12, SMT

\* Every step keeps the count.
LEMMA NextFragments == IInv /\ Fragments /\ [Next]_vars => Fragments'
<1> SUFFICES ASSUME IInv, Fragments, [Next]_vars PROVE Fragments'
  OBVIOUS
<1>0. Neat(regions) /\ mi \in Slots /\ mj \in Slots
  BY Zenon DEF IInv, TypeOK, Partitioned, Neat
<1>c. \A rs, a, b : /\ Cardinality(Leads(rs)) \in Nat
                    /\ Cardinality(Passed(rs, a, b)) \in Nat
  BY LeadsAreSlots, SlotSets, Zenon
<1>p. ASSUME Panic, pc = "idle" PROVE Fragments'
  <2>1. Cardinality(Leads(regions)) <= 1
    BY <1>p, SMT DEF Fragments
  <2> QED
    BY <1>p, <2>1, SMT DEF Panic, Fragments
<1>1. ASSUME NEW n \in 1 .. MAX_REQUEST, alloc_pages(n) PROVE Fragments'
  <2>1. pc = "idle"
    BY <1>1, Zenon DEF alloc_pages
  <2>2. CASE CanAlloc(regions, n) /\ regions' = alloc_region(regions, n)
                                  /\ UNCHANGED <<pc, mi, mj>>
    <3>1. n \in Nat \ {0}
      BY RequestAssumption
    <3>2. Leads(regions') \subseteq Leads(regions)
      BY <1>0, <2>2, <3>1, AllocLeads, Zenon
    <3>3. Cardinality(Leads(regions')) <= Cardinality(Leads(regions))
      BY <3>2, LeadsAreSlots, FewerSlots, Zenon
    <3>4. Cardinality(Leads(regions)) <= 1
      BY <2>1, SMT DEF Fragments
    <3>5. Cardinality(Leads(regions')) <= 1 /\ pc' # "merge"
      BY <1>c, <2>1, <2>2, <3>3, <3>4, SMT
    <3> QED
      BY <3>5, Zenon DEF Fragments
  <2>3. CASE Panic
    BY <1>p, <2>1, <2>3, Zenon
  <2> QED
    BY <1>1, <2>2, <2>3, Zenon DEF alloc_pages
<1>2. ASSUME NEW r \in -1 .. MAX_REGIONS, ReleasePages(r) PROVE Fragments'
  <2>1. pc = "idle"
    BY <1>2, Zenon DEF ReleasePages
  <2>2. CASE /\ r \in AllocatedSlots(regions)
             /\ regions' = [regions EXCEPT ![r].state = "FREE"]
             /\ pc' = "merge" /\ mi' = 0 /\ mj' = 0
    <3>0. \E x : Leads([regions EXCEPT ![r].state = "FREE"])
                   \subseteq (Leads(regions) \cup {r}) \cup {x}
      <4>1. Neat(regions)
        BY <1>0, Zenon
      <4>2. r \in AllocatedSlots(regions)
        BY <2>2, Zenon
      <4> QED
        BY <4>1, <4>2, FreeLeads, SMTT(30)
    <3>1. PICK x : Leads(regions') \subseteq (Leads(regions) \cup {r}) \cup {x}
      BY <2>2, <3>0, Zenon
    <3>2. Cardinality(Leads(regions')) <= Cardinality(Leads(regions)) + 2
      <4>1. PICK y \in Slots : Leads(regions') \subseteq (Leads(regions) \cup {r}) \cup {y}
        BY <2>2, <3>1, LeadsAreSlots, Zenon DEF AllocatedSlots
      <4>2. r \in Slots /\ Leads(regions) \in SUBSET Slots
        BY <2>2, LeadsAreSlots, Zenon DEF AllocatedSlots
      <4> QED
        BY <4>1, <4>2, TwoSlots, Zenon
    <3>3. Cardinality(Passed(regions', mi', mj')) = 0
      <4>1. Passed(regions', mi', mj') = {}
        BY <2>2, NothingPassed, Zenon
      <4> QED
        BY <4>1, FS_EmptySet, Zenon
    <3>4. Cardinality(Leads(regions)) <= 1
      BY <2>1, SMT DEF Fragments
    <3>5. Cardinality(Leads(regions')) + Cardinality(Passed(regions', mi', mj')) <= 3
      BY <1>c, <3>2, <3>3, <3>4, SMT
    <3> QED
      BY <2>2, <3>5, Zenon DEF Fragments
  <2>3. CASE Panic
    BY <1>p, <2>1, <2>3, Zenon
  <2> QED
    BY <1>2, <2>2, <2>3, Zenon DEF ReleasePages
\* The end of a row, with what the row has left.
<1>n. ASSUME pc = "merge", NextI, NEW b,
             Cardinality(Leads(regions')) + Cardinality(Passed(regions', mi, b)) <= 3,
             Passed(regions', mi + 1, 0) \subseteq Passed(regions', mi, b),
             mi + 1 = MAX_REGIONS => Leads(regions') \subseteq Passed(regions', mi, b)
      PROVE  Fragments'
  <2>1. CASE mi' = mi + 1 /\ mj' = 0 /\ pc' = pc
    <3>1. Cardinality(Passed(regions', mi', mj')) <= Cardinality(Passed(regions', mi, b))
      BY <1>n, <2>1, LeadsAreSlots, FewerSlots, Zenon
    <3>2. Cardinality(Leads(regions')) + Cardinality(Passed(regions', mi', mj')) <= 3
      BY <1>c, <1>n, <3>1, SMT
    <3> QED
      BY <1>n, <2>1, <3>2, Zenon DEF Fragments
  <2>2. CASE mi + 1 = MAX_REGIONS /\ pc' = "idle"
    <3>1. Cardinality(Leads(regions')) <= Cardinality(Passed(regions', mi, b))
      BY <1>n, <2>2, LeadsAreSlots, FewerSlots, Zenon
    <3>2. Cardinality(Leads(regions')) <= 1 /\ pc' # "merge"
      BY <1>c, <1>n, <2>2, <3>1, SMT
    <3> QED
      BY <3>2, Zenon DEF Fragments
  <2> QED
    BY <1>n, <2>1, <2>2, Zenon DEF NextI
<1>3. ASSUME MergeSkip PROVE Fragments'
  <2>1. /\ pc = "merge" /\ regions[mi].state # "FREE" /\ NextI /\ regions' = regions
    BY <1>3, Zenon DEF MergeSkip
  <2>2. Cardinality(Leads(regions')) + Cardinality(Passed(regions', mi, mj)) <= 3
    BY <2>1, Zenon DEF Fragments
  <2>3. /\ Passed(regions', mi + 1, 0) \subseteq Passed(regions', mi, mj)
        /\ mi + 1 = MAX_REGIONS => Leads(regions') \subseteq Passed(regions', mi, mj)
    BY <1>0, <2>1, RowPassed, Zenon
  <2> QED
    BY <1>n, <2>1, <2>2, <2>3, Zenon
<1>4. ASSUME MergeStep PROVE Fragments'
  <2>1. /\ pc = "merge" /\ regions[mi].state = "FREE" /\ regions' = MergePair(regions, mi, mj)
    BY <1>4, Zenon DEF MergeStep
  <2>2. Cardinality(Leads(regions)) + Cardinality(Passed(regions, mi, mj)) <= 3
    BY <2>1, Zenon DEF Fragments
  <2>3. Cardinality(Leads(regions')) + Cardinality(Passed(regions', mi, mj + 1)) <= 3
    <3>1. CASE regions' = regions
      <4>1. Passed(regions, mi, mj + 1) \subseteq Passed(regions, mi, mj)
        BY <1>0, <2>1, <3>1, MergeNothing, Zenon
      <4>2. Cardinality(Passed(regions, mi, mj + 1)) <= Cardinality(Passed(regions, mi, mj))
        BY <4>1, LeadsAreSlots, FewerSlots, Zenon
      <4>3. Cardinality(Leads(regions)) + Cardinality(Passed(regions, mi, mj + 1)) <= 3
        BY <1>c, <2>2, <4>2, SMT
      <4> QED
        BY <3>1, <4>3, Zenon
    <3>2. CASE regions' # regions
      <4>1. /\ \E x \in Leads(regions) : Leads(regions') \subseteq Leads(regions) \ {x}
            /\ Passed(regions', mi, mj + 1) \subseteq Passed(regions, mi, mj) \cup {mi}
        <5>1. MergePair(regions, mi, mj) # regions
          BY <2>1, <3>2, Zenon
        <5>2. /\ \E x \in Leads(regions) :
                   Leads(MergePair(regions, mi, mj)) \subseteq Leads(regions) \ {x}
              /\ Passed(MergePair(regions, mi, mj), mi, mj + 1)
                   \subseteq Passed(regions, mi, mj) \cup {mi}
          BY <1>0, <5>1, MergeLeads, Zenon
        <5> QED
          BY <2>1, <5>2, Zenon
      <4>2. PICK x \in Leads(regions) : Leads(regions') \subseteq Leads(regions) \ {x}
        BY <4>1, Zenon
      <4>3. /\ Leads(regions) \ {x} \in SUBSET Slots
            /\ Passed(regions, mi, mj) \cup {mi} \in SUBSET Slots
        BY <1>0, LeadsAreSlots, Zenon
      <4>4. /\ Cardinality(Leads(regions')) <= Cardinality(Leads(regions) \ {x})
            /\ Cardinality(Passed(regions', mi, mj + 1))
                 <= Cardinality(Passed(regions, mi, mj) \cup {mi})
        BY <4>1, <4>2, <4>3, FewerSlots, Zenon
      <4>5. /\ Cardinality(Leads(regions) \ {x}) = Cardinality(Leads(regions)) - 1
            /\ Cardinality(Passed(regions, mi, mj) \cup {mi})
                 <= Cardinality(Passed(regions, mi, mj)) + 1
        BY <4>2, LeadsAreSlots, OneSlot, Zenon
      <4>6. /\ Cardinality(Leads(regions) \ {x}) \in Nat
            /\ Cardinality(Passed(regions, mi, mj) \cup {mi}) \in Nat
        BY <4>3, SlotSets, Zenon
      <4> QED
        BY <1>c, <2>2, <4>4, <4>5, <4>6, SMT
    <3> QED
      BY <3>1, <3>2, Zenon
  <2>4. CASE mj + 1 < MAX_REGIONS /\ mj' = mj + 1 /\ UNCHANGED <<pc, mi>>
    BY <2>1, <2>3, <2>4, Zenon DEF Fragments
  <2>5. CASE mj + 1 = MAX_REGIONS /\ NextI
    <3>1. /\ Passed(regions', mi + 1, 0) \subseteq Passed(regions', mi, mj + 1)
          /\ mi + 1 = MAX_REGIONS => Leads(regions') \subseteq Passed(regions', mi, mj + 1)
      BY <1>0, <2>5, RowPassed, Zenon
    <3> QED
      BY <1>n, <2>1, <2>3, <2>5, <3>1, Zenon
  <2> QED
    BY <1>4, <2>4, <2>5, Zenon DEF MergeStep
<1>5. ASSUME UNCHANGED vars PROVE Fragments'
  BY <1>5, Zenon DEF vars, Fragments
<1> QED
  BY <1>1, <1>2, <1>3, <1>4, <1>5, Zenon DEF Next

\* Every slot of regions[] is unused, free or allocated.
LEMMA SlotsCounted ==
  ASSUME IsTable(regions)
  PROVE  /\ Cardinality(UnusedSlots(regions)) \in Nat
         /\ MAX_REGIONS = Cardinality(UnusedSlots(regions)) + Cardinality(FreeSlots(regions))
                            + Cardinality(AllocatedSlots(regions))
<1> DEFINE U == UnusedSlots(regions)
           F == FreeSlots(regions)
           A == AllocatedSlots(regions)
<1>1. \A i \in Slots : regions[i].state \in RegionState
  BY SMT DEF IsTable, Region
<1>2. Slots = (U \cup F) \cup A
  BY <1>1, SMT DEF UnusedSlots, FreeSlots, AllocatedSlots, RegionState
<1>3. U \cap F = {} /\ (U \cup F) \cap A = {}
  BY SMT DEF UnusedSlots, FreeSlots, AllocatedSlots
<1>4. U \in SUBSET Slots /\ F \in SUBSET Slots /\ A \in SUBSET Slots
  BY <1>2, Zenon
<1>5. /\ IsFiniteSet(U) /\ Cardinality(U) \in Nat
      /\ IsFiniteSet(F) /\ Cardinality(F) \in Nat
      /\ IsFiniteSet(A) /\ Cardinality(A) \in Nat
  BY <1>4, SlotSets, Zenon
<1>6. Cardinality(Slots) = MAX_REGIONS
  BY RegionsAssumption, FS_Interval, SMT DEF Slots
<1> HIDE DEF U, F, A
<1>7. /\ IsFiniteSet(U \cup F)
      /\ Cardinality(U \cup F) = Cardinality(U) + Cardinality(F) - Cardinality(U \cap F)
  BY <1>5, FS_Union, Zenon
<1>8. Cardinality((U \cup F) \cup A)
        = Cardinality(U \cup F) + Cardinality(A) - Cardinality((U \cup F) \cap A)
  BY <1>5, <1>7, FS_Union, Zenon
<1>9. Cardinality({}) = 0
  BY FS_EmptySet, Zenon
<1>10. /\ Cardinality(U \cap F) = 0
       /\ Cardinality((U \cup F) \cap A) = 0
       /\ Cardinality((U \cup F) \cup A) = MAX_REGIONS
  <2>1. Cardinality(U \cap F) = 0
    BY <1>3, <1>9, Zenon
  <2>2. Cardinality((U \cup F) \cap A) = 0
    BY <1>3, <1>9, Zenon
  <2>3. Cardinality((U \cup F) \cup A) = MAX_REGIONS
    BY <1>2, <1>6, Zenon
  <2> QED
    BY <2>1, <2>2, <2>3, Zenon
<1>11. MAX_REGIONS = Cardinality(U) + Cardinality(F) + Cardinality(A)
  BY <1>5, <1>7, <1>8, <1>10, SMT
<1> QED
  BY <1>5, <1>11, Zenon DEF U, F, A

\* The boot table has a single region.
LEMMA InitFragments == Init => Fragments
<1> SUFFICES ASSUME Init PROVE Fragments
  OBVIOUS
<1>1. FreeSlots(regions) \subseteq {0}
  BY SMT DEF Init, init_regions, FreeSlots, UnusedRegion
<1>2. pc # "merge"
  BY SMT DEF Init
<1>3. Leads(regions) \subseteq {0}
  BY <1>1, Zenon DEF Leads
<1>4. Cardinality({0}) = 1 /\ IsFiniteSet({0})
  BY FS_Singleton, Zenon
<1>5. Cardinality(Leads(regions)) <= 1
  BY <1>3, <1>4, FS_Subset, Zenon
<1> QED
  BY <1>2, <1>5, Zenon DEF Fragments

\* What one pass of merge_free_regions leaves behind is bounded, however large
\* the table and the RAM: after every call at most one pair of free regions
\* lies side by side, so the table never holds more than two free regions more
\* than allocated ones.
THEOREM FragmentsBounded == Spec => []FragmentationBounded
<1>1. Init => IInv /\ Fragments
  BY InitIInv, InitFragments
<1>2. IInv /\ Fragments /\ [Next]_vars => IInv' /\ Fragments'
  BY NextIInv, NextFragments
<1>3. IInv /\ Fragments => FragmentationBounded
  <2> SUFFICES ASSUME IInv, Fragments, pc = "idle"
               PROVE  /\ Cardinality(AdjacentFree(regions)) <= 1
                      /\ MAX_REGIONS - 2 * Cardinality(AllocatedSlots(regions)) - 2
                           <= Cardinality(UnusedSlots(regions))
    BY Zenon DEF FragmentationBounded
  <2>1. Neat(regions)
    BY Zenon DEF IInv, TypeOK, Partitioned, Neat
  <2>2. Cardinality(Leads(regions)) <= 1
    BY SMT DEF Fragments
  <2>3. Leads(regions) \in SUBSET Slots /\ AllocatedSlots(regions) \in SUBSET Slots
        /\ FreeSlots(regions) \in SUBSET Slots
    BY LeadsAreSlots, Zenon DEF AllocatedSlots, FreeSlots
  <2>4. /\ Cardinality(Leads(regions)) \in Nat /\ Cardinality(AllocatedSlots(regions)) \in Nat
        /\ Cardinality(FreeSlots(regions)) \in Nat
    BY <2>3, SlotSets, Zenon
  <2>5. Cardinality(AdjacentFree(regions)) <= Cardinality(Leads(regions))
        /\ Cardinality(AdjacentFree(regions)) \in Nat
    BY <2>1, AdjacentFew, Zenon
  <2>6. Cardinality(FreeSlots(regions))
          <= Cardinality(AllocatedSlots(regions)) + 1 + Cardinality(Leads(regions))
    BY <2>1, FreeFew, Zenon
  <2>7. /\ Cardinality(UnusedSlots(regions)) \in Nat
        /\ MAX_REGIONS = Cardinality(UnusedSlots(regions)) + Cardinality(FreeSlots(regions))
                           + Cardinality(AllocatedSlots(regions))
    BY SlotsCounted, Zenon DEF IInv, TypeOK
  <2> QED
    BY <2>2, <2>4, <2>5, <2>6, <2>7, RegionsAssumption, SMT
<1>4. QED
  BY <1>1, <1>2, <1>3, PTL DEF Spec
=============================================================================
