------------------------ MODULE FileSystemInvariant ------------------------
(***************************************************************************)
(* The inductive invariant of FileSystem: what the files and the sectors   *)
(* look like, and where on the platter each file lies.                     *)
(***************************************************************************)
EXTENDS FileSystem

\* The sector at which entry i begins.
Start(fs, i) == Offset(fs, i) \div SECTOR_SIZE

Fields == [1 .. FIELD -> {NUL} \cup 0 .. 7]
DataValues == (Values \X Nat) \cup {<<"header", 0>>}

Headers == {h \in [kind : {"header"}, name : Names, size : Fields] : oct2int(h.size) \in 0 .. DATA_SIZE}
Sector == {ZeroSector} \cup Headers \cup [kind : {"data"}, value : DataValues, len : Nat]
Disks == [Sectors -> Sector]

\* An entry of the files array in use: its data is as long as its size says.
UsedFile(f) ==
  /\ f = [in_use |-> TRUE, name |-> f.name, size |-> f.size, data |-> f.data]
  /\ f.name \in Names
  /\ f.size \in 0 .. DATA_SIZE
  /\ f.data = Bytes(f.size, f.data)
  /\ \A k \in DataSectors(f.size) : f.data[k] \in Sector

\* The files array: the entries in use come first.
Table(fs) ==
  /\ fs = [i \in Slots |-> fs[i]]
  /\ \A i \in Slots : fs[i] = UnusedFile \/ UsedFile(fs[i])
  /\ \A i, j \in Slots : i < j /\ fs[j].in_use => fs[i].in_use

\* On the disk img, the file of entry i is at its place: all of it, or only its
\* name and its number of sectors while it is torn.
InPlace(img, fs, i, T) ==
  LET h == At(img, Start(fs, i))
  IN  /\ h.kind = "header" /\ h.name = fs[i].name
      /\ Extent(oct2int(h.size)) = Extent(fs[i].size)
      /\ i \notin T => FileAt(img, Start(fs, i)) = fs[i]

\* The disk img holds the files fs, one behind the other, and then a zero.
Layout(img, fs, T) ==
  \A i \in Slots : IF fs[i].in_use THEN InPlace(img, fs, i, T)
                   ELSE i = 0 \/ fs[i - 1].in_use => At(img, Start(fs, i)) = ZeroSector

\* Each file of fs takes as many sectors as the one in the same entry of gs.
Follows(fs, gs) ==
  \A i \in Slots : fs[i].in_use => gs[i].in_use /\ Extent(fs[i].size) = Extent(gs[i].size)

\* Where the files gs begin, the disk img has a header for as many sectors, or
\* nothing; and nothing behind the last of them.
Readable(img, gs) ==
  \A i \in Slots :
    LET h == At(img, Start(gs, i))
    IN  \/ h = ZeroSector
        \/ gs[i].in_use /\ h.kind = "header" /\ Extent(oct2int(h.size)) = Extent(gs[i].size)
        \/ ~ gs[i].in_use /\ i # 0 /\ ~ gs[i - 1].in_use

\* Memory and the platter go by the same places.
Guided == \E gs : Table(gs) /\ Follows(files, gs) /\ Readable(platter, gs)

TypeOK ==
  /\ Table(files)
  /\ disk \in Disks /\ platter \in Disks
  /\ pc \in {"down", "idle", "flush", "panic"}
  /\ sector \in Nat
  /\ torn \subseteq {i \in Slots : files[i].in_use}
  /\ moved \in BOOLEAN /\ missed \in BOOLEAN

\* The inductive invariant.  In step, the platter holds the files of memory at
\* their places, up to what is torn.  Unless files were moved, the platter has
\* headers where headers are looked for, however many files memory knows of.
IInv ==
  /\ TypeOK
  /\ pc = "flush" => disk = Image(files)
  /\ InStep => Layout(platter, files, torn)
  /\ pc \in {"idle", "flush"} /\ ~ moved => Guided
  /\ pc = "down" /\ ~ moved => Parse(platter).status # "panic"
  /\ pc = "panic" => moved
=============================================================================
