# RISC-V-OS1000: a TLA+ verification project

The kernel is a teaching operating system in C for one RV32 hart of QEMU's
`virt` machine. This directory models the parts of it that hold state, checks
them with TLC on small instances, and proves theorems about the page allocator,
processes and shared memory, the trap and switch code, both drivers, ARP, IPv4
and the file system with TLAPS. `PROJECT.json` maps every definition to the
lines it models.

## The system

| part | state | operations | interacts with |
|---|---|---|---|
| page allocator (`allocator.c`) | `regions[128]` | `init_regions`, `alloc_pages`, `release_pages` | everyone that needs pages |
| processes (`process.c`) | `procs[8]`, `current_proc` | `create_process`, `yield`, exit | allocator, shared memory |
| traps (`kernel.c`, `process.c`, `interrupt.c`) | CSRs, kernel stacks | `kernel_entry`, `handle_trap`, `switch_context`, `wait_for_interrupt` | processes, user programs |
| shared memory (`shm.c`) | `shm_table[8]`, mappings of each process | get, attach, detach, cleanup at exit | allocator, page tables |
| virtqueues (`virtio.c`) | rings and indexes in memory shared with a device | push, kick, pop used | both drivers, devices |
| interrupts (`interrupt.c`, `plic.c`, `kernel.c`) | `sstatus.SIE`, PLIC pending and claimed | wait, claim, complete | both drivers |
| block driver (`virtio_blk.c`) | one request page, `blk_done` | `read_write_disk`, `virtio_blk_irq` | virtqueue, interrupts |
| network driver (`virtio_net.c`) | receive buffers, one transmit buffer, capture ring | send, pop frame, `virtio_net_irq` | virtqueues, interrupts, ARP |
| ARP (`arp.c`) | cache, one pending reply | receive (in the handler), poll, request, lookup | network driver, `SYS_GETCHAR` |
| IPv4 (`ipv4.c`) | counters, next identification | receive, send | ARP cache, network driver |
| file system (`filesystem.c`) | `files[2]`, the `disk` array | `fs_init`, `fs_flush`, lookup | block driver |
| shell (`user/shell.c`) | the line buffer, locals of `run_shmtest` | prompt loop, `exit`, `shmtest`, `arp` | system calls |

Scheduling is cooperative and the kernel runs system calls with interrupts off,
so the concurrency is between kernel code, the interrupt handlers (in boot code
anywhere, in a system call only in the window of `wait_for_interrupt`, in user
mode at once) and the devices. `Trap` models that sentence itself; the other
modules rely on it.

## Modules

- `Regions` holds the operators on the region table, `Allocator` the calls as
  actions with `merge_free_regions` one inner iteration at a time, and
  `PageAllocator` the abstract map from pages to owners it implements.
- `Scheduler` is the choice of the next process in `yield`, shared by `Processes`
  and `Trap`.
- `Processes` composes process, shared-memory and allocator code over one table.
  Its operations are atomic because they run with interrupts off. A process is
  the list of regions it took. Page contents and registers are left out.
  `ProcessesInvariant` states its inductive invariant.
- `Shell` puts `user/shell.c` on top of `Processes`: each user process is a shell
  that reads keys into its line buffer, compares it with the commands and makes
  the system calls of `exit` and `shmtest` one at a time.
- `Trap` has the hart (mode, `sp`, `sscratch`, `sepc`, `scause`, `sstatus`,
  `satp`), the frames on each kernel stack and the process table. It is cut
  where an interrupt or another thread can come in, or could if the CSRs were
  written in another order: the end of `yield`, which clears `sscratch` and then
  restores `sstatus`, is two steps. `TrapInvariant` states its
  inductive invariant, and `UserMachine` what a user program is promised: a
  machine whose registers only its own instructions and system calls change.
- `Virtq` is a virtqueue as a record with indexes modulo `INDEX_MOD` (65536 in
  the code). `Irq` is the path from the interrupt line to the handler and back.
- `BlkDriver` composes both with the device. `BlkInvariant` states its inductive
  invariant, and `BlockStore` what the driver promises: one atomic read or write
  per call.
- `NetDriver` composes `Virtq`, `Irq` and `Arp` with the device and the console.
  `NetInvariant` states its inductive invariant.
- `Ipv4` has `ipv4_receive` and `ipv4_send` over the cache of `Arp`, with headers
  as 16-bit words and a payload as a length. `DottedQuad` has `parse_ipv4` and
  the printing of addresses; the `arp` command of the shell parses one of the
  `Texts` and asks for the address, or prints its usage.
- `FileSystem` counts in bytes and stores in sectors. A sector is zero, a header
  or the first bytes of some data; the size field is octal, as in the code.
  `FileSystemInvariant` states its inductive invariant.
- `RegionsProofs`, `AllocatorProofs`, `ProcessesProofs`, `TrapProofs`,
  `BlkDriverProofs`, `NetDriverProofs`, `Ipv4Proofs` and `FileSystemProofs` hold
  the theorems. The `MC` modules hold the values of the constants.

Devices, the PLIC gateway and the console are external: they are modelled from
how the drivers use them. An operator preceded by `Mutation:` is a plausible
mistake in the definition after it; no specification uses it. It documents
which mistake each property detects.

## Runs

| run | bounds | shows |
|---|---|---|
| `allocator` | 5 slots, 5 pages, requests of 1 or 2 pages | the partition of the RAM, bounded fragmentation and use of slots; implements `PageAllocator` |
| `allocator_fragments` | 4 slots, 5 pages | **violation**: neighbouring free regions stay apart |
| `processes` | 2 user processes, 2 objects, 2 mappings each, 16 slots | counts, mappings and ownership under any order of calls and exits, and the inductive invariant behind them |
| `shell` | 3 shells, one object, lines of 3 characters, 7 keys | each runs what was typed to it; `shmtest` passes and leaves nothing behind; everybody runnable runs |
| `trap` | 2 programs of 2 instructions, 2 values, 4 frames per stack | `sscratch`, stacks and `satp` stay straight; implements `UserMachine` |
| `block_driver` | 2 sectors and one beyond the end, indexes modulo 4, one spurious event | no lost wakeup, exclusive request page, `sstatus` restored, implements `BlockStore` |
| `network` | 2 buffers, 3 events, ARP frames of 3 senders and a malformed one, 2 cache entries, keys keep coming | buffers conserved, cache coherent, transmit buffer exclusive; frames and ARP requests get their answer |
| `network_boot` | 5 events, 2 sends, one remote address, starting in boot code | order, capture ring, completion of a send |
| `network_waiting` | 1 event, no key | **violation**: the request is not answered |
| `ipv4` | 1 packet in, 2 calls of send, `arp` with 8579 texts | exactly the good packets are taken, what is sent is good, exactly the dotted quads are addresses |
| `file_system` | 2 files, 5 sectors (the code's sizes), 3 writes of 0, 512, 513 or 1025 bytes, one failing sector | what a crash leaves on the disk |
| `file_system_fit` | 2 writes, no failures, 1024 bytes too | **violation**: the image outgrows the array |

Why the bounds are enough to see the interesting cases:

- Two ring slots with indexes modulo 4 make rings fill and indexes wrap.
- Five region slots let a merge happen below, above and on both sides of a
  region. The tables of `processes` and `shell` are smaller than 128 slots
  because their processes and images are smaller too.
- Seven keys are enough for an overlong line with a command after it, and for
  several shells to run `shmtest` and `exit` in turn. Commands are one character
  long so that lines can outgrow the three-character buffer.
- Four frames are the deepest stack there is, `kernel_entry`, `handle_trap`,
  a wait and the interrupt in it. No action is guarded by the bound: `IInv`
  says that it is never exceeded, and the theorem says so in general.
- The incoming packets are whole, cut at every length that a test of
  `ipv4_receive` tells apart, fragmented, with and without an option, or have
  one byte changed. One destination makes the first checksum fold carry. Damage
  to the header-length field is left out: it changes which words are summed,
  so a single changed byte may go undetected, in any IPv4 stack.
- Payloads of 0, 1, 1480 and 1481 bytes are the two ends of what `ipv4_send`
  accepts.
- The texts behind the `arp` command have every number from 0 to 999 in each of
  the four places, every character in each position of an address, and odd parts
  and ends (no digits, leading zeroes, too few or too many parts).
- The sender of one ARP frame claims the local address: `arp_receive` caches it
  like any other. The capture ring has one slot in `network`, whose properties
  do not read it, and two in `network_boot`, whose properties do.
- The file lengths are an empty file, both sides of a sector boundary, and one
  byte more than `sizeof(file->data)`; a file that grows from 512 to 513 bytes
  moves the one behind it.

Runs whose configuration turns deadlock checking off model a kernel that stops
at a `PANIC`, or whose bounded inputs (keys, writes, packets) are used up.

### Disagreements

1. `merge_free_regions` makes one pass. When a region grows, a free slot that
   only now borders it may already have been passed. The comment on the call
   says that fragments are merged. `FragmentationBounded` states what does
   hold, for every table and RAM size: at most one such pair, and so at most
   `2 * a + 2` slots taken when `a` regions are allocated.
2. `SYS_GETCHAR` polls for a pending ARP reply, but `SIE` is clear in a system
   call and the loop never opens a window, so the frame that would make a reply
   pending is not received until a key ends the call. `docs/arp.md` describes
   the reply as sent while the shell waits.
3. `DISK_MAX_SIZE` is computed from `struct file`, the image from headers and
   whole sectors: two files of more than 512 bytes do not fit.

## Fairness

Weak fairness stands for a hart that keeps executing, handlers that run when
deliverable and devices that finish what they took (`FairSpec` of the drivers).
No fairness is assumed for calls, arriving frames, noise or
failures. `TypingSpec` of `NetDriver` adds that keys keep coming; `network` uses
it, and `network_waiting` asks the same question without it. `Shell` assumes
that a shell with work to do goes on with it and that one without a key takes
the `yield` of `SYS_GETCHAR`; nobody has to type. The loop in the code does just
that, and a program that computes for ever would starve the others there too.

## Proofs

### Allocator

From `RegionsAssumption` and `RequestAssumption`, for every table size, RAM size
and request bound:

- `AllocatorTypeOK`: `Spec => []TypeOK`;
- `AllocatorPartitioned`: `Spec => []Partitioned`. The inductive invariant is
  `IInv == TypeOK /\ Partitioned`: typing is needed for the arithmetic on starts
  and sizes and for the counters of the loop. Each action reduces to one lemma
  on tables in `RegionsProofs` (`AllocPartition`, `FreePartition`,
  `MergePartition`);
- `AllocatorRefines`: `Spec => ImplementsPageAllocator`, by `MergeOwner`,
  `AllocOwner` and `FreeOwner`. The abstract call is busy from a release until it
  returns and may change no owner in between, so a merge that freed the pages of
  another region would not be a step of it;
- `FragmentsBounded`: `Spec => []FragmentationBounded`. A free region *leads*
  when another one lies right behind it. A release makes at most two more
  regions lead, itself and the one before it. In the pass each region takes in
  whatever lies behind it, so one that still leads when the pass is done with it
  (`Passed`) has come to do so by a join, which made another stop leading.
  `Fragments` is the inductive form: during the pass the regions that lead and
  those that have been passed are together at most three; at its end both are
  the same set, so at most one is left. The bound on the slots follows because a
  free region that does not lead ends where an allocated one starts, or at the
  end of the RAM (`SlotsCounted`).

### Processes and shared memory

From `RegionsAssumption`, `SchedulerAssumption` and `ProcessesAssumption`, for
every size of the tables and of the RAM, any number of processes and any keys:

- `ProcessesInvariance`: `Spec => []IInv`;
- `RefCounts`, `NoDangling`, `OneOwner` and `OnlySlotZeroLeaks`: `Spec => []` of
  `RefCountExact`, `NoDanglingMapping`, `OwnershipExact` and `LeakOnlySlotZero`;
- `NoBadRelease`: the `PANIC` of `release_pages` on a region that is not
  allocated is never reached.

That a detach or an exit frees a page only when nobody has it mapped depends on
the count, the count on every mapping being that of an object, and that the
region freed is the object's own depends on no other list holding it. So the
properties are proved together, with the partition of the RAM: `Owned` (one
owner for each region), `Kept` (and at least one, but for slot 0), `Shared`
(ids, pages and counts of the objects). They are operators on values of the
tables, `Sound`, because `exit` goes through many tables in one system call: each
round of `shm_process_cleanup` and `release_process` keeps `Sound`, and so does
the loop. `panic` is part of the model: when memory runs out the kernel stops
with half a process created, and the invariant says what still holds there.

### Traps

From `SchedulerAssumption` and `TrapAssumption`, for any number of processes, any
user programs and any `DEPTH` of at least 4:

- `StacksInOrder`: `Spec => []IInv`;
- `ScratchKept`, `KernelComesHome` and `SpaceCurrent`: `Spec => []` of
  `ScratchProtocol`, `KernelAtHome` and `AddressSpaceCurrent`, each from `IInv`.

None of the three is inductive. Whether `kernel_entry` finds the right value in
`sscratch` depends on what the code that was interrupted will pop, and that code
may have slept in `yield` since. `IInv` therefore says of every thread, running
or not, which frames lie on its stack: `InUser`, `InKernel` and `InTrap` for
the one that runs, by mode and by `SPP`, and `Asleep` for the others, which
are `Fresh` (made by `create_process`) or `Parked` (in `yield`). `Space` relates
`satp`, `current_proc` and the table. The proof has one lemma per action. It
rests on lemmas that a push or a pop on one stack leaves the others alone and
that `PickNext` returns `Idle` or a runnable slot.

`TrapImplementsUserMachine` is `Spec => ImplementsUserMachine`. The mapping finds the state of a user program in one of
four places: the hart, the frame of `kernel_entry` with `sepc`, that frame with
the one of `handle_trap`, or nowhere (before `user_entry` and after exit). It
tells them apart by the first two frames of the kernel stack, so it needs
`Cleared`, next to `IInv`: the model clears a frame when it is popped, and no
cleared frame is taken for a live one. One lemma per action shows that the step
is `Start`, `Step`, `Call`, `Interrupted`, `Return`, `Resume` or `Exit` of one
program, or that no program sees it. The switch is the interesting one: the
process switched to must look as it did when it went to sleep, and the one
switched from must go on looking as it does.

### Block driver

From `VirtqAssumption` and `BlkAssumption`, for every disk, every set of values
and every index modulus:

- `RequestTracked`: `Spec => []IInv`;
- `PageNeverShared`, `CompletionNeverEarly`, `IndexesNeverDrift` and
  `InterruptsAlwaysRestored`: `Spec => []` of `RequestPageExclusive`,
  `DoneMeansServed`, `IndexesAgree` and `InterruptsRestored`;
- `DriverImplementsBlockStore`: `Spec => ImplementsBlockStore`.

`OneRequest` is the heart of `IInv`: the request is nowhere, in the available
ring, with the device, in the used ring or popped, and for each of these it says
where the kernel thread, the handler and the device can be and by how much the
indexes differ. The safety properties only relate two of these parties. The
others are needed because a completion passes through all of them, and an
interrupt for something else may come at any of its stations. `SieAsSaved` does
the same for `sstatus.SIE`: what `wait_for_interrupt` restores is what its caller
had, so a system call is interrupted in the window only. In the refinement the abstract operation takes place
when the device performs the request.

### Network driver and ARP

From `VirtqAssumption`, `NetAssumption` and `ArpAssumption`, for every ring size,
capture ring size and index modulus that both divide, every cache size, every set of
frames and any finite set of hosts:

- `DriverInvariant`: `Spec => []IInv`;
- `BuffersNeverLost`, `FramesNeverReordered`, `CapturesInOrder`,
  `CacheNeverStale`, `TransmitBufferNeverShared` and `SendNeverEarly`: `Spec =>
  []` of `BuffersConserved`, `FramesInOrder`, `CaptureFifo`, `CacheCoherent`,
  `TxBufferExclusive` and `TxDoneMeansSent`.

`IInv` has one part for each thing the contexts share, and the parts are
preserved nearly independently: `KernelApart`, `HandlerApart` and `DeviceApart`
say which steps leave which variables alone.

- `OneFrame` is about the transmit queue: the frame is nowhere, queued, with the
  device or returned, and `net_tx_done` is set during a send only when it has
  made the whole way.
- `BuffersPlaced` lists the receive descriptors in the order in which the handler
  will see them: the one in its hands, those in the used ring, the one the device
  fills, those in the available ring. This list, `Place`, is a bijection, and
  the frames on their way are the contents of its first descriptors. A frame that
  arrives, is returned or is popped changes none of its elements, only where the
  sections begin. The requeue at the end of `virtio_net_drain_rx` rotates it by
  one. Conservation and order both follow, and neither is inductive alone: that a
  slot of a ring is free to be overwritten depends on how many descriptors are
  elsewhere.
- `CaptureFifo` is inductive with the typing in `CaptureShape`. The wrap of the
  indexes is harmless because the size of the ring divides the modulus (`Slots`).
- `HostsCached` says that a host has at most one entry, that it holds what was
  heard last, and that a host is missing only when more were heard than there are
  entries. The eviction of entry 0 needs the pigeonhole principle: a cache with
  no free entry and no entry for the sender holds `ARP_CACHE_SIZE` other hosts.

`Init` gives the receive queue after the loop of `virtio_net_init` directly; the
assumption `InitPushesAll` of `MCNetDriver` compares it with the loop.

### IPv4

From `Ipv4Assumption`, for any set of frames that may arrive and all addresses:

- `ReadsInside`: `Spec => []ReadsWithinFrame`;
- `ReceivesExactly`: `Spec => []ReceiveExact`;
- `SendsAcceptable`: `Spec => []SentIsAccepted`;
- `FoldEnds`, `ChecksumVerifies` and `DamageDetected`: for every 32-bit sum two
  folds are enough, a header with its checksum written passes the test of the
  receiver, and a passing header with one byte changed does not.

`SentIsAccepted` includes that the receiver finds the protocol the sender asked
for. The invariant, `Origins`, is that the last packet received came from the network
and the last one sent from the header that `ipv4_send` writes. The rest is about
single packets. `FoldResidue` turns the checksum into arithmetic modulo 65535;
`SumBounds` and `SumChange` say of the loop that adds the words how large the sum
gets and how it changes with one word. A byte changes a word by less than 65535
and not by 0, so the residue changes. `ReceiveExact` speaks of the packets that
`OneFault` describes: cut short anywhere, or with one byte of the header changed
other than the one with its length. Two changes can cancel out in the sum.

### File system

From `FileSystemAssumption`, for any number of files and sectors, all contents
and any pattern of writes, crashes and failing sectors:

- `FileSystemInvariance`: `Spec => []IInv`;
- `CrashConsistency`, `ShapeKept` and `PanicExplained`: `Spec => []` of
  `DiskMatchesMemory`, `TornWriteKeepsShape` and `PanicOnlyAfterMove`.

The properties say what `Parse` would find on the platter, which is the outcome
of a loop and not inductive. `IInv` says instead where on the platter each file
lies: `Layout(platter, files, torn)` puts the header of entry `i` at
`Start(files, i)`, with the right name and number of sectors, and the right
contents unless `i` is torn, and a zero sector behind the last. Three lemmas carry
the argument. `Parse` of a disk with a layout finds the files at their places, by
induction over its rounds (`ParseReads`). `Image(files)` has the layout that
nothing is torn in, given that the files fit (`ImageLayout`). And a disk that has each of its
sectors from one of two disks with one layout has that layout too (`LayoutMix`):
this is a flush that was cut short, or one with failed sectors, whichever they
are. It needs `moved` to be false, because only then do the old and the new
files begin at the same sectors, and `missed`, because a boot that could not read
a sector knows less than the platter holds. Once a boot has missed sectors the
platter need not match memory, but it stays readable. `Guided` says that some
table of files is a guide to both: the files in memory follow it entry by entry
with the same number of sectors (`Follows`), and where its files begin the platter
has a header for as many sectors, or nothing (`Readable`). `Parse` of such a
platter does not panic (`GuidedParse`), and a flush that moves nothing keeps
the guide (`ReadableMix`), so `PanicOnlyAfterMove` holds. The octal digits are read back as the number
they were written from (`OctalRead`; `TarRead` for the field that `tar` writes
into `disk.tar`), by induction over the digits.

The assumptions on the constants: a file has room for the 22 bytes of the files
in `disk.tar` and its size is an `int`; the array has at least two sectors for each
file, as `DISK_MAX_SIZE` gives it; no program names a file with the empty string;
and a length leaves in its last sector less than would complete the magic of a
header, which is also what the model needs so that data cut out of the disk array
is no header. The last one restricts the contents considered, not the code.

### Loops

The loops of the code are recursive functions, which are `CHOOSE` expressions to
the prover. Each is used through two general lemmas: `LoopExists`, that a function
with its defining equations exists, and `Rounds`, induction over its rounds,
stated for a set of rounds instead of a predicate.

### Model-checked only

Liveness (`CallReturns`, `ReceiveProgress`, `RequestAnswered`,
`EveryoneRuns`) is out of the prover's reach. The properties of `Shell` and
`ParseExact` of the dotted quads have been checked on the instances above; their
proofs have not been attempted.

## Not modelled

- `printf` apart from the decimal numbers of an address, the other string and
  memory functions, the SBI calls and everything that only prints (`dump_procs`,
  `shm_dump`, `arp_dump_cache`, `ipv4_dump_stats`): no state of their own.
- Device probing and the virtio handshake: a sequence of register writes with no
  state that the driver reads back.
- Contents of packets behind the headers, packet counters and the saved test
  frame of the network driver, and `virtio_net_poll`, which nobody calls.
- The checksum of a tar header, which is written and never read.
- `SYS_READFILE`, which copies memory and changes nothing in the kernel, and the
  shell commands that make one system call and print its result.
- The general registers one by one: `Trap` has one caller-saved and one
  callee-saved register.
- A negative length in `SYS_WRITEFILE`: no program of the repository passes one.
- A PLIC claim of no source or of an unknown one, which the `Irq` model cannot
  produce: only the two enabled sources interrupt, and one hart claims.
- Page tables below the mappings of shared memory: `create_process` counts the
  pages they take.
