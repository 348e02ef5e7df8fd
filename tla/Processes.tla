----------------------------- MODULE Processes -----------------------------
(***************************************************************************)
(* kernel/process.c and kernel/shm.c over the region table of              *)
(* kernel/allocator.c: boot creates the idle process and NUSERS user       *)
(* processes, then the current process makes system calls.  A system call  *)
(* runs with interrupts off and none of the calls below waits, so each is  *)
(* one step, with every allocation, release and merge it causes.           *)
(*                                                                         *)
(* The shared-memory window of a process has one page per mapping slot, so *)
(* a window address is written as its slot number; PROC_SHM_MAX stands for *)
(* any address outside the window.                                         *)
(***************************************************************************)
EXTENDS Regions, Scheduler, Sequences

CONSTANTS
  PROC_SHM_MAX, SHM_MAX,
  NUSERS,          \* user processes created at boot
  BOOT_REGIONS,    \* regions the drivers allocate at boot and never release
  KERNEL_TABLES,   \* second-level tables of the kernel and device mappings
  IMAGE_PAGES,     \* pages of a user image
  Keys,            \* keys passed to shm_get
  MAX_ID           \* bound on next_shm_id

ASSUME ProcessesAssumption ==
  /\ {PROC_SHM_MAX, SHM_MAX, MAX_ID} \subseteq Nat \ {0}
  /\ {NUSERS, BOOT_REGIONS, KERNEL_TABLES, IMAGE_PAGES} \subseteq Nat
  /\ NUSERS < PROCS_MAX
  /\ Keys \subseteq Int

VARIABLES
  regions,       \* the region table
  procs,         \* procs[]
  current_proc,  \* slot of the running process
  kmain,         \* calls kernel_main has made: the creations, then yield
  shm_table, next_shm_id,
  panic          \* the PANIC the kernel has stopped in, or Running

vars == <<regions, procs, current_proc, kmain, shm_table, next_shm_id, panic>>

Running == "running"
OutOfMemory == "out of memory"
NotAllocated == "region is not allocated"
SwitchedToIdle == "switched to idle process"

MSlots == 0 .. PROC_SHM_MAX - 1
OSlots == 0 .. SHM_MAX - 1

NoMapping == [used |-> FALSE, shm_id |-> 0, pa |-> 0]
NoObject == [used |-> FALSE, id |-> 0, key |-> 0, pa |-> 0, region_idx |-> 0,
             refcount |-> 0]

\* regions lists the indexes recorded in proc->regions[0 .. current_idx - 1];
\* shm_l2 says whether the table of the shared-memory window exists; pa of a
\* mapping is the page its page-table entry points to, 0 when not valid.
UnusedProc == [pid |-> 0, state |-> "UNUSED", regions |-> <<>>, shm_l2 |-> FALSE,
               shm_mappings |-> [i \in MSlots |-> NoMapping]]

-----------------------------------------------------------------------------
(* The memory of the kernel as a value: the table and the PANIC status.    *)

\* alloc_pages(&idx, 1) followed by proc->regions[current_idx++] = idx.
AllocInto(m, list) ==
  IF m.panic # Running THEN [mem |-> m, list |-> list]
  ELSE IF ~ CanAlloc(m.regions, 1)
  THEN [mem |-> [m EXCEPT !.panic = OutOfMemory], list |-> list]
  ELSE [mem |-> [m EXCEPT !.regions = alloc_region(m.regions, 1)],
        list |-> Append(list, find_unused_region_slot(m.regions))]

AllocMany(m, n) ==
  LET grow[k \in 0 .. n] ==
        IF k = 0 THEN [mem |-> m, list |-> <<>>]
        ELSE AllocInto(grow[k - 1].mem, grow[k - 1].list)
  IN  grow[n]

Release(m, r) ==
  IF m.panic # Running THEN m
  ELSE IF r \notin AllocatedSlots(m.regions)
  THEN [m EXCEPT !.panic = NotAllocated]
  ELSE [m EXCEPT !.regions = release_pages(m.regions, r)]

Memory == [regions |-> regions, panic |-> panic]
SetMemory(m) == regions' = m.regions /\ panic' = m.panic

-----------------------------------------------------------------------------
(* kernel/shm.c *)

find_by_id(table, id) == {o \in OSlots : table[o].used /\ table[o].id = id}
find_by_key(table, key) == {o \in OSlots : table[o].used /\ table[o].key = key}

shm_get(key) ==
  /\ next_shm_id < MAX_ID
  /\ LET free == {o \in OSlots : ~ shm_table[o].used}
         a == AllocInto(Memory, <<>>)
         idx == Head(a.list)
     IN  \/ /\ key <= 0 \/ find_by_key(shm_table, key) # {} \/ free = {}
            /\ UNCHANGED <<regions, panic, shm_table, next_shm_id>>
         \/ /\ key > 0 /\ find_by_key(shm_table, key) = {} /\ free # {}
            /\ SetMemory(a.mem)
            /\ IF a.list = <<>> THEN UNCHANGED <<shm_table, next_shm_id>>
               ELSE /\ shm_table' = [shm_table EXCEPT ![Min(free)] =
                         [used |-> TRUE, id |-> next_shm_id, key |-> key,
                          pa |-> a.mem.regions[idx].start, region_idx |-> idx,
                          refcount |-> 0]]
                    /\ next_shm_id' = next_shm_id + 1
  /\ UNCHANGED <<procs, current_proc, kmain>>

\* Mutation: a loop one short of PROC_SHM_MAX.
FreeMappingsShort(proc) == {i \in MSlots \ {PROC_SHM_MAX - 1} : ~ proc.shm_mappings[i].used}
FreeMappings(proc) == {i \in MSlots : ~ proc.shm_mappings[i].used}

\* map_page allocates the table of the window on the first attach.
shm_attach(id) ==
  LET proc == procs[current_proc]
      objs == find_by_id(shm_table, id)
      slots == FreeMappings(proc)
      a == IF proc.shm_l2 THEN [mem |-> Memory, list |-> proc.regions]
           ELSE AllocInto(Memory, proc.regions)
      o == Min(objs)
      slot == Min(slots)
      map == [used |-> TRUE, shm_id |-> id, pa |-> shm_table[o].pa]
  IN  /\ \/ /\ objs = {} \/ slots = {}
            /\ UNCHANGED <<regions, panic, procs, shm_table>>
         \/ /\ objs # {} /\ slots # {}
            /\ SetMemory(a.mem)
            /\ IF a.mem.panic # Running THEN UNCHANGED <<procs, shm_table>>
               ELSE /\ procs' = [procs EXCEPT ![current_proc].regions = a.list,
                                  ![current_proc].shm_l2 = TRUE,
                                  ![current_proc].shm_mappings[slot] = map]
                    /\ shm_table' = [shm_table EXCEPT ![o].refcount = @ + 1]
      /\ UNCHANGED <<current_proc, kmain, next_shm_id>>

\* Mutation: without the refcount test.
DetachAtOnce(k, i) ==
  LET objs == find_by_id(k.table, k.proc.shm_mappings[i].shm_id)
      o == Min(objs)
      p == [k.proc EXCEPT !.shm_mappings[i] = NoMapping]
  IN  IF objs = {} THEN [k EXCEPT !.proc = p]
      ELSE [k EXCEPT !.proc = p, !.table[o] = NoObject,
                     !.mem = Release(k.mem, k.table[o].region_idx)]

\* Detaching the mapping in one slot of a process: the page-table entry goes,
\* and the last mapping of an object takes the object with it.
Detach(k, i) ==
  LET objs == find_by_id(k.table, k.proc.shm_mappings[i].shm_id)
      o == Min(objs)
      count == k.table[o].refcount - 1
      p == [k.proc EXCEPT !.shm_mappings[i] = NoMapping]
  IN  IF objs = {} THEN [k EXCEPT !.proc = p]
      ELSE IF count > 0
      THEN [mem |-> k.mem, proc |-> p, table |-> [k.table EXCEPT ![o].refcount = count]]
      ELSE [mem |-> Release(k.mem, k.table[o].region_idx), proc |-> p,
            table |-> [k.table EXCEPT ![o] = NoObject]]

Attached(v) == v \in MSlots /\ procs[current_proc].shm_mappings[v].used

shm_detach(v) ==
  LET k == Detach([mem |-> Memory, proc |-> procs[current_proc],
                   table |-> shm_table], v)
  IN  /\ \/ /\ ~ Attached(v)
            /\ UNCHANGED <<regions, panic, procs, shm_table>>
         \/ /\ Attached(v)
            /\ SetMemory(k.mem)
            /\ procs' = [procs EXCEPT ![current_proc] = k.proc]
            /\ shm_table' = k.table
      /\ UNCHANGED <<current_proc, kmain, next_shm_id>>

\* Mutation: a cleanup of the first mapping only.
shm_process_cleanup_short(k0) ==
  IF k0.proc.shm_mappings[0].used THEN Detach(k0, 0) ELSE k0

shm_process_cleanup(k0) ==
  LET upto[i \in 0 .. PROC_SHM_MAX] ==
        IF i = 0 THEN k0
        ELSE LET k == upto[i - 1]
             IN  IF k.proc.shm_mappings[i - 1].used THEN Detach(k, i - 1) ELSE k
  IN  upto[PROC_SHM_MAX]

-----------------------------------------------------------------------------
(* kernel/process.c *)

\* The private regions of a process: the page table, the second-level tables
\* of kernel and devices, and for a user image its pages and their table.
PrivateRegions(image_pages) ==
  1 + KERNEL_TABLES + (IF image_pages = 0 THEN 0 ELSE image_pages + 1)

\* Each create_process call of boot: the first makes the idle process, whose
\* pid init_processes then sets to 0.
create_process ==
  LET i == kmain
      a == AllocMany(Memory, PrivateRegions(IF i = Idle THEN 0 ELSE IMAGE_PAGES))
  IN  /\ panic = Running
      /\ i <= NUSERS
      /\ SetMemory(a.mem)
      /\ procs' = [procs EXCEPT ![i] =
                     IF a.mem.panic # Running THEN [UnusedProc EXCEPT !.regions = a.list]
                     ELSE [UnusedProc EXCEPT !.pid = IF i = Idle THEN 0 ELSE i + 1,
                                             !.state = "RUNNABLE", !.regions = a.list]]
      /\ kmain' = kmain + 1
      /\ UNCHANGED <<current_proc, shm_table, next_shm_id>>

\* Mutation: without state = PROC_UNUSED.
release_process_unmarked(k0) ==
  LET k1 == shm_process_cleanup(k0)
      list == k1.proc.regions
      upto[i \in 0 .. Len(list)] ==
        IF i = 0 THEN k1.mem
        ELSE IF list[i] = 0 THEN upto[i - 1] ELSE Release(upto[i - 1], list[i])
  IN  [k1 EXCEPT !.mem = upto[Len(list)], !.proc = [UnusedProc EXCEPT !.state = "EXITED"]]

\* Mutation: without current_idx = 0.
release_process_keep_list(k0) ==
  LET k1 == shm_process_cleanup(k0)
      list == k1.proc.regions
      upto[i \in 0 .. Len(list)] ==
        IF i = 0 THEN k1.mem
        ELSE IF list[i] = 0 THEN upto[i - 1] ELSE Release(upto[i - 1], list[i])
  IN  [k1 EXCEPT !.mem = upto[Len(list)], !.proc = [UnusedProc EXCEPT !.regions = list]]

\* Mutation: a loop one short of current_idx.
release_process_short(k0) ==
  LET k1 == shm_process_cleanup(k0)
      list == k1.proc.regions
      upto[i \in 0 .. Len(list)] ==
        IF i = 0 THEN k1.mem
        ELSE IF list[i] = 0 THEN upto[i - 1] ELSE Release(upto[i - 1], list[i])
  IN  [k1 EXCEPT !.mem = upto[Len(list) - 1], !.proc = UnusedProc]

\* release_process: entries of proc->regions that are 0 are taken for empty.
release_process(k0) ==
  LET k1 == shm_process_cleanup(k0)
      list == k1.proc.regions
      upto[i \in 0 .. Len(list)] ==
        IF i = 0 THEN k1.mem
        ELSE IF list[i] = 0 THEN upto[i - 1] ELSE Release(upto[i - 1], list[i])
  IN  [mem |-> upto[Len(list)], proc |-> UnusedProc, table |-> k1.table]

\* A user process is running.
InUser == panic = Running /\ kmain = NUSERS + 2 /\ current_proc # Idle

\* yield of a process that stays alive: the SYS_GETCHAR loop without input.
yield ==
  /\ InUser
  /\ current_proc' = PickNext(procs, current_proc)
  /\ UNCHANGED <<regions, procs, kmain, shm_table, next_shm_id, panic>>

\* The yield at the end of kernel_main, and what follows when the idle process
\* gets the processor back.
kernel_main_yield ==
  /\ panic = Running
  /\ kmain = NUSERS + 1
  /\ current_proc' = PickNext(procs, current_proc)
  /\ kmain' = kmain + 1
  /\ UNCHANGED <<regions, procs, shm_table, next_shm_id, panic>>

kernel_main_idle ==
  /\ panic = Running
  /\ kmain = NUSERS + 2
  /\ current_proc = Idle
  /\ panic' = SwitchedToIdle
  /\ UNCHANGED <<regions, procs, current_proc, kmain, shm_table, next_shm_id>>

\* SYS_EXIT: the process is marked EXITED and yield releases it.
exit ==
  LET k == release_process([mem |-> Memory, proc |-> procs[current_proc],
                            table |-> shm_table])
      ps == [procs EXCEPT ![current_proc] = k.proc]
  IN  /\ InUser
      /\ SetMemory(k.mem)
      /\ shm_table' = k.table
      /\ procs' = ps
      /\ current_proc' = PickNext(ps, current_proc)
      /\ UNCHANGED <<kmain, next_shm_id>>

-----------------------------------------------------------------------------

\* init_regions, shm_init, the drivers' own regions and the table zeroing of
\* init_processes; kernel_main runs in the context that becomes idle.
Init ==
  LET a == AllocMany([regions |-> init_regions, panic |-> Running], BOOT_REGIONS)
  IN  /\ regions = a.mem.regions
      /\ panic = a.mem.panic
      /\ procs = [p \in PSlots |-> UnusedProc]
      /\ current_proc = Idle
      /\ kmain = 0
      /\ shm_table = [o \in OSlots |-> NoObject]
      /\ next_shm_id = 1

SysShmGet == InUser /\ \E key \in Keys : shm_get(key)
SysShmAttach == InUser /\ \E id \in 0 .. MAX_ID : shm_attach(id)
SysShmDetach == InUser /\ \E v \in 0 .. PROC_SHM_MAX : shm_detach(v)

Next ==
  \/ create_process
  \/ kernel_main_yield
  \/ kernel_main_idle
  \/ SysShmGet
  \/ SysShmAttach
  \/ SysShmDetach
  \/ yield
  \/ exit

Spec == Init /\ [][Next]_vars

-----------------------------------------------------------------------------

Mapping == [used : BOOLEAN, shm_id : 0 .. MAX_ID, pa : {0} \cup Pages]
Process == [pid : 0 .. PROCS_MAX, state : {"UNUSED", "RUNNABLE"}, regions : Seq(Slots),
            shm_l2 : BOOLEAN, shm_mappings : [MSlots -> Mapping]]
ShmObject == [used : BOOLEAN, id : 0 .. MAX_ID, key : {0} \cup Keys, pa : {0} \cup Pages,
              region_idx : Slots, refcount : Nat]
Status == {Running, OutOfMemory, NotAllocated, SwitchedToIdle}

\* The types of the region table, the process table and the shm table.
TypeOK ==
  /\ IsTable(regions)
  /\ procs \in [PSlots -> Process]
  /\ current_proc \in PSlots
  /\ kmain \in 0 .. NUSERS + 2
  /\ shm_table \in [OSlots -> ShmObject]
  /\ next_shm_id \in 1 .. MAX_ID
  /\ panic \in Status

MappingsOf(id) ==
  {m \in PSlots \X MSlots : LET map == procs[m[1]].shm_mappings[m[2]]
                            IN  map.used /\ map.shm_id = id}
Objects == {o \in OSlots : shm_table[o].used}

\* The reference count of an object is the number of mappings of it in all
\* processes, whoever attached, detached or exited in which order.
RefCountExact ==
  \A o \in Objects : shm_table[o].refcount = Cardinality(MappingsOf(shm_table[o].id))

\* Every page-table entry of the window points to the page of a live object,
\* and that page is allocated: no process can reach a page the allocator has
\* taken back.
NoDanglingMapping ==
  \A p \in PSlots, i \in MSlots :
    LET map == procs[p].shm_mappings[i]
    IN  map.used \/ map.pa # 0 =>
          \E o \in Objects : /\ shm_table[o].id = map.shm_id
                            /\ shm_table[o].pa = map.pa
                            /\ OwnerOf(regions, map.pa) = shm_table[o].region_idx

\* Every claim on a region, by a process list entry or by a shm object.
Claims ==
  {<<"proc", p, i>> : p \in PSlots, i \in 1 .. MAX_REGIONS} \cup
  {<<"shm", o, 0>> : o \in OSlots}
Live(c) ==
  IF c[1] = "proc" THEN c[3] <= Len(procs[c[2]].regions) ELSE shm_table[c[2]].used
Claimed(c) ==
  IF c[1] = "proc" THEN procs[c[2]].regions[c[3]] ELSE shm_table[c[2]].region_idx

\* No region has two owners and every claimed region is allocated, so no
\* release frees memory somebody else still uses, or frees it twice.
OwnershipExact ==
  \A c \in Claims : Live(c) =>
    /\ Claimed(c) \in AllocatedSlots(regions)
    /\ Claimed(c) \notin 1 .. BOOT_REGIONS
    /\ \A d \in Claims \ {c} : Live(d) => Claimed(d) # Claimed(c)

\* When nothing has gone wrong the only allocated region without an owner is
\* slot 0: release_process skips index 0, which a merge can have made an
\* ordinary slot, so a process can lose one page table, but only one ever.
LeakOnlySlotZero ==
  panic \in {Running, SwitchedToIdle} =>
    AllocatedSlots(regions) \ {Claimed(c) : c \in {d \in Claims : Live(d)}}
      \subseteq 0 .. BOOT_REGIONS

\* No process starves: the scan of yield starts behind the current process, so
\* whoever is runnable gets the processor although others keep yielding, and
\* although processes exit and the scan starts over at slot 0.
EveryoneRuns ==
  \A p \in PSlots \ {Idle} :
    (kmain = NUSERS + 2 /\ procs[p].state = "RUNNABLE") ~> (current_proc = p \/ panic # Running)
=============================================================================
