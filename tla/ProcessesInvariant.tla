------------------------ MODULE ProcessesInvariant ------------------------
(***************************************************************************)
(* The inductive invariant behind the theorems on Processes.  Its parts    *)
(* are operators on values of the region table rs, the process table ps    *)
(* and the shm table tb, because exit goes through many of them in one     *)
(* system call.                                                            *)
(***************************************************************************)
EXTENDS Processes

\* The regions somebody may release: all but the drivers'.
Held(rs) == AllocatedSlots(rs) \ (1 .. BOOT_REGIONS)
Listed(l) == {l[i] : i \in 1 .. Len(l)}
Distinct(l) == \A i, j \in 1 .. Len(l) : l[i] = l[j] => i = j

\* A region is in one list, once, or belongs to one object.
Owned(rs, ps, tb) ==
  /\ \A p \in PSlots : Listed(ps[p].regions) \subseteq Held(rs) /\ Distinct(ps[p].regions)
  /\ \A p, q \in PSlots : p # q => Listed(ps[p].regions) \cap Listed(ps[q].regions) = {}
  /\ \A o \in OSlots : tb[o].used =>
       /\ tb[o].region_idx \in Held(rs)
       /\ \A p \in PSlots : tb[o].region_idx \notin Listed(ps[p].regions)
       /\ \A x \in OSlots \ {o} : tb[x].used => tb[x].region_idx # tb[o].region_idx

\* Every region that may be released has an owner, but for slot 0.
Kept(rs, ps, tb) ==
  \A r \in Held(rs) \ {0} :
    \/ \E p \in PSlots : r \in Listed(ps[p].regions)
    \/ \E o \in OSlots : tb[o].used /\ tb[o].region_idx = r

Maps(ps, id) ==
  {m \in PSlots \X MSlots : /\ ps[m[1]].shm_mappings[m[2]].used
                            /\ ps[m[1]].shm_mappings[m[2]].shm_id = id}

\* A used mapping is one of an object, an unused one is cleared.
OfObject(map, tb) ==
  /\ map.used => \E o \in OSlots : tb[o].used /\ tb[o].id = map.shm_id /\ tb[o].pa = map.pa
  /\ ~ map.used => map = NoMapping

\* Objects have ids of their own, the page of their region and a count of
\* their mappings.
Shared(rs, ps, tb, next) ==
  /\ \A o \in OSlots : tb[o].used =>
       /\ tb[o].id \in 1 .. next - 1
       /\ tb[o].pa = rs[tb[o].region_idx].start
       /\ tb[o].refcount = Cardinality(Maps(ps, tb[o].id))
       /\ \A x \in OSlots \ {o} : tb[x].used => tb[x].id # tb[o].id
  /\ \A p \in PSlots, i \in MSlots : OfObject(ps[p].shm_mappings[i], tb)

\* The drivers' regions stay allocated.
BootKept(rs) == 1 .. BOOT_REGIONS \subseteq AllocatedSlots(rs)

\* The tables between any two operations on them.
Sound(rs, ps, tb, next) ==
  /\ IsTable(rs) /\ Partition(rs)
  /\ ps \in [PSlots -> Process]
  /\ tb \in [OSlots -> ShmObject]
  /\ Owned(rs, ps, tb) /\ Kept(rs, ps, tb) /\ Shared(rs, ps, tb, next)

\* Between any two system calls the region table partitions the RAM, every
\* region has its one owner, every mapping its object and every object a
\* truthful count; the drivers' regions are intact until the machine runs out
\* of memory, and release_region is never asked for what is not allocated.
IInv ==
  /\ TypeOK
  /\ Sound(regions, procs, shm_table, next_shm_id)
  /\ panic \in {Running, SwitchedToIdle} => BootKept(regions)
  /\ kmain <= NUSERS => \A p \in PSlots : p >= kmain => procs[p] = UnusedProc
  /\ panic # NotAllocated
=============================================================================
