----------------------------- MODULE FileSystem -----------------------------
(***************************************************************************)
(* kernel/filesystem.c and the file system calls of kernel/syscall.c over  *)
(* a disk that survives crashes.  Sizes and offsets are bytes; the disk is *)
(* made of sectors, and the kernel writes the whole image back, sector by  *)
(* sector, at every SYS_WRITEFILE.  It can stop between any two sectors.   *)
(*                                                                         *)
(* A sector is zero, a tar header (its name and size fields), or len bytes *)
(* of some data followed by zeroes.                                        *)
(***************************************************************************)
EXTENDS Integers, Sequences, FiniteSets, FiniteSetsExt

CONSTANTS FILES_MAX,
          DATA_SIZE,        \* sizeof(file->data)
          DISK_SECTORS,     \* sizeof(disk) in sectors
          Names,            \* the names user programs pass to the system calls
          Lengths,          \* the lengths they pass
          Values,           \* the buffers they pass
          MAX_WRITES,       \* bound on the calls of SYS_WRITEFILE
          MAX_FAILURES      \* bound on the sector reads and writes that fail

SECTOR_SIZE == 512
HEADER_SIZE == 512
MAGIC_END == 263            \* where the magic field of a header ends
NoName == ""                \* in an entry of zeroes

\* A size is an int.  The disk array has room for FILES_MAX times a struct
\* file, which is more than the two sectors of a small file.  No program asks
\* for a file without a name.  A header cut short, which data can come to hold,
\* has no magic.
ASSUME FileSystemAssumption ==
  /\ FILES_MAX \in Nat \ {0}
  /\ DATA_SIZE \in Nat /\ 22 <= DATA_SIZE /\ DATA_SIZE <= 2147483647
  /\ DISK_SECTORS \in Nat /\ 2 * FILES_MAX <= DISK_SECTORS
  /\ NoName \notin Names
  /\ MAX_WRITES \in Nat
  /\ MAX_FAILURES \in Nat
  /\ \A n \in Lengths : n \in Nat /\ n % SECTOR_SIZE < MAGIC_END

VARIABLES
  files,     \* the files array
  disk,      \* the disk array, the image being built or written
  platter,   \* the device
  pc,        \* "down", "idle", "flush" or "panic"
  sector,    \* the loop variable of fs_flush
  writes,    \* calls of SYS_WRITEFILE so far
  failures,  \* failed sector reads and writes so far
  torn,      \* history: files whose last write may not be fully on the platter
  moved,     \* history: a flush that moved files may have left old sectors
  missed     \* history: memory may lack what the last boot could not read

vars == <<files, disk, platter, pc, sector, writes, failures, torn, moved, missed>>

Slots == 0 .. FILES_MAX - 1
Sectors == 0 .. DISK_SECTORS - 1

UnusedFile == [in_use |-> FALSE, name |-> NoName, size |-> 0, data |-> <<>>]
ZeroSector == [kind |-> "zero"]

-----------------------------------------------------------------------------
(* Sizes and the octal size field. *)

align_up(n) == ((n + SECTOR_SIZE - 1) \div SECTOR_SIZE) * SECTOR_SIZE

\* The bytes a file takes in the image, and the sectors of its data.
Extent(size) == align_up(HEADER_SIZE + size)
DataSectors(size) == 1 .. (Extent(size) \div SECTOR_SIZE) - 1

\* The first n bytes of a sector.
Cut(s, n) ==
  IF n >= SECTOR_SIZE \/ s = ZeroSector THEN s
  ELSE IF s.kind = "header" THEN [kind |-> "data", value |-> <<"header", 0>>, len |-> n]
  ELSE [s EXCEPT !.len = Min({@, n})]

\* The sectors of the first size bytes of data that lies in the sectors src.
Bytes(size, src) == [k \in DataSectors(size) |-> Cut(src[k], size - (k - 1) * SECTOR_SIZE)]

NUL == -1
FIELD == 12                 \* sizeof(header->size)

\* Turn the file size into an octal string.
octal(size) ==
  LET filesz[i \in 0 .. FIELD] == IF i = 0 THEN size ELSE filesz[i - 1] \div 8
  IN  [i \in 1 .. FIELD |-> filesz[FIELD - i] % 8]

\* Mutation: the field read as a decimal number.
dec2int(oct) ==
  LET stop == Min({i \in 1 .. FIELD : oct[i] \notin 0 .. 7} \cup {FIELD + 1})
      dec[i \in 0 .. stop - 1] == IF i = 0 THEN 0 ELSE dec[i - 1] * 10 + oct[i]
  IN  dec[stop - 1]

oct2int(oct) ==
  LET stop == Min({i \in 1 .. FIELD : oct[i] \notin 0 .. 7} \cup {FIELD + 1})
      dec[i \in 0 .. stop - 1] == IF i = 0 THEN 0 ELSE dec[i - 1] * 8 + oct[i]
  IN  dec[stop - 1]

-----------------------------------------------------------------------------
(* The tar image: fs_flush builds it, fs_init reads it. *)

Header(f) == [kind |-> "header", name |-> f.name, size |-> octal(f.size)]

\* off when fs_flush comes to entry i.
Offset(fs, i) ==
  LET off[j \in 0 .. FILES_MAX] ==
        IF j = 0 THEN 0
        ELSE off[j - 1] + (IF fs[j - 1].in_use THEN Extent(fs[j - 1].size) ELSE 0)
  IN  off[i]

\* Where the image ends; past the disk array fs_flush writes behind it.
Fits(fs) == Offset(fs, FILES_MAX) <= DISK_SECTORS * SECTOR_SIZE

\* The disk array after the first half of fs_flush; what is written behind the
\* array is not on it.
Image(fs) ==
  LET place(i, s) == s - Offset(fs, i) \div SECTOR_SIZE
      here(s) == {i \in Slots : fs[i].in_use /\ place(i, s) \in {0} \cup DataSectors(fs[i].size)}
      written(i, k) == IF k = 0 THEN Header(fs[i]) ELSE fs[i].data[k]
  IN  [s \in Sectors |->
         IF here(s) = {} THEN ZeroSector
         ELSE LET i == CHOOSE j \in here(s) : TRUE IN written(i, place(i, s))]

\* Behind the array fs_init reads memory that is still zero at boot.
At(img, s) == IF s \in Sectors THEN img[s] ELSE ZeroSector

\* Mutation: without sizeof(struct tar_header) in the offset.
NextOffInPlace(off, filesz) == off + align_up(filesz)

NextOff(off, filesz) == off + align_up(HEADER_SIZE + filesz)

\* The file whose header is sector s.
FileAt(img, s) ==
  LET h == At(img, s)
      filesz == oct2int(h.size)
  IN  [in_use |-> TRUE, name |-> h.name, size |-> filesz,
       data |-> Bytes(filesz, [k \in DataSectors(filesz) |-> At(img, s + k)])]

\* The loop of fs_init: stop at an empty name, PANIC at a sector without the
\* magic, otherwise take the file over.
ReadHeader(img, p) ==
  LET s == p.off \div SECTOR_SIZE
      h == At(img, s)
      filesz == oct2int(h.size)
  IN  IF p.status # "reading" THEN p
      ELSE IF h.kind = "zero" THEN [p EXCEPT !.status = "end"]
      ELSE IF h.kind = "data" THEN [p EXCEPT !.status = "panic"]
      ELSE [off |-> NextOff(p.off, filesz), next |-> p.next + 1, status |-> "reading",
            files |-> [p.files EXCEPT ![p.next] = FileAt(img, s)]]

Parse(img) ==
  LET start == [off |-> 0, next |-> 0, status |-> "reading", files |-> [i \in Slots |-> UnusedFile]]
      after[n \in 0 .. FILES_MAX] == IF n = 0 THEN start ELSE ReadHeader(img, after[n - 1])
  IN after[FILES_MAX]

\* The first entry with the name, used or not.
Named(fs, name) == {i \in Slots : fs[i].name = name}
fs_lookup(fs, name) == Min(Named(fs, name))

\* len bytes of the buffer v.
Buffer(v, len) ==
  Bytes(len, [k \in DataSectors(len) |-> [kind |-> "data", value |-> <<v, k>>, len |-> SECTOR_SIZE]])
-----------------------------------------------------------------------------
\* disk.tar holds one file of each of some distinct names; tar ends the size
\* field with NUL.
InitialFiles ==
  {fs \in [Slots -> {UnusedFile} \cup {[in_use |-> TRUE, name |-> n, size |-> 22, data |-> Buffer(v, 22)] :
                                        n \in Names, v \in Values}] :
     /\ fs[0].in_use
     /\ \A i, j \in Slots : i < j /\ fs[j].in_use => fs[i].in_use /\ fs[i].name # fs[j].name}
TarImage(fs) ==
  [s \in Sectors |-> IF Image(fs)[s].kind = "header"
                     THEN [Image(fs)[s] EXCEPT !.size = Append(Tail(@), NUL)]
                     ELSE Image(fs)[s]]

NoFiles == [i \in Slots |-> UnusedFile]
Zeroes == [s \in Sectors |-> ZeroSector]

Init ==
  /\ files = NoFiles
  /\ disk = Zeroes
  /\ \E fs \in InitialFiles : platter = TarImage(fs)
  /\ pc = "down"
  /\ sector = 0
  /\ writes = 0
  /\ failures = 0
  /\ torn = {}
  /\ moved = FALSE
  /\ missed = FALSE

\* fs_init.  A sector that could not be read stays zero, and nobody notices.
Boot(unread) ==
  /\ pc = "down"
  /\ failures + Cardinality(unread) <= MAX_FAILURES
  /\ failures' = failures + Cardinality(unread)
  /\ disk' = [s \in Sectors |-> IF s \in unread THEN ZeroSector ELSE platter[s]]
  /\ LET p == Parse(disk') IN
     /\ files' = p.files
     /\ pc' = IF p.status = "panic" THEN "panic" ELSE "idle"
  /\ torn' = {}
  /\ moved' = (moved /\ Parse(platter).status = "panic")
  /\ missed' = (unread # {})
  /\ UNCHANGED <<platter, sector, writes>>

\* A length beyond the data array is replaced by the size of the file.  (len
\* is an int: a negative one would pass this test and be a huge count to
\* memcpy.  No program passes one, and Lengths has none.)
Length(len, file) == IF len > DATA_SIZE THEN file.size ELSE len

\* Mutation: fs_flush before the copy into the file.
WriteFileFlushFirst(name, len, v) ==
  /\ pc = "idle"
  /\ writes < MAX_WRITES
  /\ writes' = writes + 1
  /\ Named(files, name) # {}
  /\ LET i == fs_lookup(files, name)
         n == Length(len, files[i])
     IN /\ files' = [files EXCEPT ![i] = [in_use |-> @.in_use, name |-> @.name,
                                          size |-> n, data |-> Buffer(v, n)]]
        /\ torn' = torn \cup {i}
        /\ moved' = (moved \/ Extent(files[i].size) # Extent(n))
  /\ disk' = Image(files)
  /\ sector' = 0
  /\ pc' = "flush"
  /\ UNCHANGED <<platter, failures, missed>>

\* SYS_WRITEFILE up to the loop over the sectors.
WriteFile(name, len, v) ==
  /\ pc = "idle"
  /\ writes < MAX_WRITES
  /\ writes' = writes + 1
  /\ Named(files, name) # {}
  /\ LET i == fs_lookup(files, name)
         n == Length(len, files[i])
     IN /\ files' = [files EXCEPT ![i] = [in_use |-> @.in_use, name |-> @.name,
                                          size |-> n, data |-> Buffer(v, n)]]
        /\ torn' = torn \cup {i}
        /\ moved' = (moved \/ Extent(files[i].size) # Extent(n))
  /\ disk' = Image(files')
  /\ sector' = 0
  /\ pc' = "flush"
  /\ UNCHANGED <<platter, failures, missed>>

FlushSector ==
  /\ pc = "flush"
  /\ sector < DISK_SECTORS
  /\ platter' = [platter EXCEPT ![sector] = disk[sector]]
  /\ sector' = sector + 1
  /\ UNCHANGED <<files, disk, pc, writes, failures, torn, moved, missed>>

\* read_write_disk warns and returns; the loop goes on.
FlushSectorFails ==
  /\ pc = "flush"
  /\ sector < DISK_SECTORS
  /\ failures < MAX_FAILURES
  /\ failures' = failures + 1
  /\ sector' = sector + 1
  /\ UNCHANGED <<files, disk, platter, pc, writes, torn, moved, missed>>

\* The system call returns.
FlushDone ==
  /\ pc = "flush"
  /\ sector = DISK_SECTORS
  /\ pc' = "idle"
  /\ IF platter = disk THEN torn' = {} /\ moved' = FALSE /\ missed' = FALSE
                       ELSE UNCHANGED <<torn, moved, missed>>
  /\ UNCHANGED <<files, disk, platter, sector, writes, failures>>

\* The machine stops; only the platter survives.
Crash ==
  /\ pc \in {"idle", "flush"}
  /\ pc' = "down"
  /\ files' = NoFiles
  /\ disk' = Zeroes
  /\ sector' = 0
  /\ torn' = {}
  /\ UNCHANGED <<platter, writes, failures, moved, missed>>

Next ==
  \/ \E unread \in SUBSET Sectors : Boot(unread)
  \/ \E name \in Names, len \in Lengths, v \in Values : WriteFile(name, len, v)
  \/ FlushSector
  \/ FlushSectorFails
  \/ FlushDone
  \/ Crash

Spec == Init /\ [][Next]_vars
-----------------------------------------------------------------------------
\* When the platter ought to hold what memory holds: no flush that moves files
\* to other sectors is under way or was left with an old sector on the platter
\* (and no later one has written every sector), no sector was missing at the
\* boot (and no flush has written every sector since), and the image fits the
\* disk array.
InStep == pc \in {"idle", "flush"} /\ ~ moved /\ ~ missed /\ Fits(files)

\* What a reboot would find now: in step, the platter is a readable archive
\* at every moment, also between two sectors of a flush and after sectors
\* that could not be written, and every file but those being written is on it
\* just as it is in memory; after a flush without failures, all of them are.
\* (fs_flush rewrites all files at every write, fs_init trusts what it reads.)
DiskMatchesMemory ==
  InStep => /\ Parse(platter).status # "panic"
            /\ \A i \in Slots : i \notin torn => Parse(platter).files[i] = files[i]

\* In step, a torn write keeps the shape of the image: even the file being
\* written keeps its name, its place and its number of sectors.
TornWriteKeepsShape ==
  InStep => \A i \in torn : /\ Parse(platter).files[i].name = files[i].name
                            /\ Extent(Parse(platter).files[i].size) = Extent(files[i].size)

\* fs_init panics only because of a flush that moved files and did not write
\* every sector, as the machine stopped or a sector failed, and that no later
\* flush or boot has made good.  Nothing else leads there: no crash in a flush
\* that moves nothing, no sector that could not be read or written, no files
\* that memory has missed since a boot, no image larger than the disk array.
PanicOnlyAfterMove == pc = "panic" => moved

\* The image fits the disk array: "Copy all file contents into `disk` buffer."
AllContentsFit == pc = "flush" => Fits(files)
=============================================================================
