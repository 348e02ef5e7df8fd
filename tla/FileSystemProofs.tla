------------------------- MODULE FileSystemProofs -------------------------
(***************************************************************************)
(* IInv is an invariant of FileSystem for any number of files and sectors, *)
(* any lengths and any pattern of crashes and failures, and the safety     *)
(* properties of FileSystem follow from it.                                *)
(***************************************************************************)
EXTENDS FileSystemInvariant, SequenceTheorems, WellFoundedInduction, TLAPS

\* The numbers of the configuration.
LEMMA Constants ==
  /\ FILES_MAX \in Nat /\ FILES_MAX \in Nat \ {0}
  /\ DATA_SIZE \in Nat /\ 22 <= DATA_SIZE
  /\ DISK_SECTORS \in Nat /\ 2 * FILES_MAX <= DISK_SECTORS
  /\ NoName \notin Names /\ \A n \in Lengths : n \in Nat
  BY FileSystemAssumption, SMT

\* A non-empty set of naturals has its Min as an element and a lower bound.
LEMMA MinIsFirst ==
  ASSUME NEW S \in SUBSET Nat, S # {}
  PROVE  Min(S) \in S /\ \A y \in S : Min(S) <= y
<1>1. PICK x \in S : \A y \in S : ~ (<<y, x>> \in OpToRel(<, Nat))
  BY WFMin, NatLessThanWellFounded
<1>2. ASSUME NEW y \in S PROVE x <= y
  <2>1. x \in Nat /\ y \in Nat
    OBVIOUS
  <2>2. ~ (y < x)
    BY <1>1, <2>1, Zenon DEF OpToRel
  <2>3. QED
    BY <2>1, <2>2
<1>3. QED
  BY <1>2 DEF Min

\* Induction over the rounds of a loop: a set that holds the start and, with
\* every round, the next, holds them all.
LEMMA Rounds ==
  ASSUME NEW n \in Nat, NEW T, 0 \in T,
         \A k \in 1 .. n : k - 1 \in T => k \in T
  PROVE  0 .. n \subseteq T
<1> DEFINE bad == (0 .. n) \ T
<1>1. SUFFICES ASSUME bad # {} PROVE FALSE
  BY Zenon
<1>2. bad \in SUBSET Nat
  BY SMT
<1>3. PICK b \in bad : \A y \in bad : b <= y
  BY <1>1, <1>2, MinIsFirst, Zenon
<1>4. b \in 1 .. n /\ b - 1 \in 0 .. n /\ ~ (b <= b - 1)
  BY <1>3, SMT
<1>5. b - 1 \in T
  BY <1>3, <1>4, Zenon
<1> QED
  BY <1>3, <1>4, <1>5, Zenon

IsLoop(g, n, X, x0, step) ==
  /\ g \in [0 .. n -> X]
  /\ g = [k \in 0 .. n |-> IF k = 0 THEN x0 ELSE step[<<g[k - 1], k>>]]

\* A for loop that goes from one state of X to another has a run: the
\* recursive function that stands for it exists.
LEMMA LoopExists ==
  ASSUME NEW n \in Nat, NEW X, NEW x0 \in X, NEW step \in [X \X (1 .. n) -> X]
  PROVE  \E g : IsLoop(g, n, X, x0, step)
<1> DEFINE Run(g, m) == /\ g \in [0 .. m -> X]
                        /\ g[0] = x0
                        /\ \A k \in 1 .. m : g[k] = step[<<g[k - 1], k>>]
           T == {m \in 0 .. n : \E g : Run(g, m)}
<1>1. 0 \in T
  <2>1. Run([k \in 0 .. 0 |-> x0], 0)
    BY SMT
  <2>2. 0 \in 0 .. n
    BY SMT
  <2> QED
    BY <2>1, <2>2, Zenon
<1>2. ASSUME NEW k \in 1 .. n, k - 1 \in T PROVE k \in T
  <2>1. PICK h : Run(h, k - 1)
    BY <1>2, Zenon
  <2> DEFINE g == [i \in 0 .. k |-> IF i = k THEN step[<<h[k - 1], k>>] ELSE h[i]]
  <2>2. k - 1 \in 0 .. k - 1 /\ h[k - 1] \in X
    BY <2>1, SMT
  <2>3. step[<<h[k - 1], k>>] \in X
    BY <2>2, SMT
  <2>4. g \in [0 .. k -> X] /\ g[0] = x0
    BY <2>1, <2>3, SMT
  <2>5. ASSUME NEW i \in 1 .. k PROVE g[i] = step[<<g[i - 1], i>>]
    <3>1. i - 1 \in 0 .. k /\ i \in 0 .. k /\ i - 1 # k
      BY SMT
    <3>2. g[i - 1] = h[i - 1]
      BY <3>1, Zenon
    <3>3. CASE i = k
      BY <3>1, <3>2, <3>3, Zenon
    <3>4. CASE i # k
      <4>1. i \in 1 .. k - 1
        BY <3>4, SMT
      <4> QED
        BY <2>1, <3>1, <3>2, <3>4, <4>1, Zenon
    <3> QED
      BY <3>3, <3>4, Zenon
  <2> HIDE DEF g
  <2>6. Run(g, k)
    BY <2>4, <2>5, Zenon
  <2>7. k \in 0 .. n
    BY SMT
  <2> QED
    BY <2>6, <2>7, Zenon
<1>3. n \in T
  <2>1. 0 .. n \subseteq T
    <3> HIDE DEF T
    <3> QED
      BY <1>1, <1>2, Rounds, Zenon
  <2> QED
    BY <2>1, SMT
<1>4. PICK g : Run(g, n)
  BY <1>3, Zenon
<1> DEFINE e == [k \in 0 .. n |-> IF k = 0 THEN x0 ELSE step[<<g[k - 1], k>>]]
<1>5. ASSUME NEW k \in 0 .. n PROVE g[k] = e[k]
  <2>1. k = 0 \/ k \in 1 .. n
    BY SMT
  <2> QED
    BY <1>4, <2>1, Zenon
<1>6. g = e
  BY <1>4, <1>5, SMT
<1> QED
  BY <1>4, <1>6, Zenon DEF IsLoop

-----------------------------------------------------------------------------
(* Sizes and offsets. *)

\* The sectors a file takes, its header included.
Blocks(size) == Extent(size) \div SECTOR_SIZE

\* A file takes whole sectors, at least the one of its header, and each sector
\* of its data holds some of its bytes.
LEMMA ExtentIs ==
  ASSUME NEW size \in Nat
  PROVE  /\ Blocks(size) \in Nat /\ 1 <= Blocks(size)
         /\ Extent(size) = SECTOR_SIZE * Blocks(size)
         /\ DataSectors(size) = 1 .. Blocks(size) - 1
         /\ \A k \in DataSectors(size) : k \in Nat /\ 1 <= k /\ size - (k - 1) * SECTOR_SIZE \in Nat
<1> DEFINE b == (SECTOR_SIZE + size + SECTOR_SIZE - 1) \div SECTOR_SIZE
<1>1. Extent(size) = b * SECTOR_SIZE
  BY SMT DEF Extent, align_up, SECTOR_SIZE, HEADER_SIZE
<1>2. b \in Nat /\ 1 <= b /\ SECTOR_SIZE * (b - 1) < size + SECTOR_SIZE
  BY SMT DEF SECTOR_SIZE
<1> HIDE DEF b
<1>3. (b * SECTOR_SIZE) \div SECTOR_SIZE = b /\ b * SECTOR_SIZE = SECTOR_SIZE * b
  BY <1>2, SMT DEF SECTOR_SIZE
<1>4. Blocks(size) = b
  BY <1>1, <1>3, SMT DEF Blocks, SECTOR_SIZE
<1>5. DataSectors(size) = 1 .. b - 1
  BY <1>1, <1>3, SMT DEF DataSectors, SECTOR_SIZE
<1>6. ASSUME NEW k \in 1 .. b - 1 PROVE k \in Nat /\ 1 <= k /\ size - (k - 1) * SECTOR_SIZE \in Nat
  BY <1>2, SMT DEF SECTOR_SIZE
<1> QED
  BY <1>1, <1>2, <1>3, <1>4, <1>5, <1>6, Zenon

\* It is a number of bytes.
LEMMA ExtentNat == \A size \in Nat : Extent(size) \in Nat
<1> SUFFICES ASSUME NEW size \in Nat PROVE Extent(size) \in Nat
  BY Zenon
<1>1. Blocks(size) \in Nat /\ Extent(size) = SECTOR_SIZE * Blocks(size)
  BY ExtentIs, Zenon
<1> QED
  BY <1>1, SMT DEF SECTOR_SIZE

\* Files of as many bytes take as many sectors, and only those.
LEMMA SameExtent ==
  ASSUME NEW m \in Nat, NEW n \in Nat
  PROVE  Extent(m) = Extent(n) <=> Blocks(m) = Blocks(n)
<1>1. /\ Blocks(m) \in Nat /\ Extent(m) = SECTOR_SIZE * Blocks(m)
      /\ Blocks(n) \in Nat /\ Extent(n) = SECTOR_SIZE * Blocks(n)
  BY ExtentIs, Zenon
<1> QED
  BY <1>1, SMT DEF SECTOR_SIZE

\* Enough of a files array for offsets.
Sized(fs) == \A i \in Slots : fs[i].in_use => fs[i].size \in Nat

Step(fs, j) == IF fs[j].in_use THEN Extent(fs[j].size) ELSE 0

OffsetRun(f, fs) ==
  f = [j \in 0 .. FILES_MAX |-> IF j = 0 THEN 0 ELSE f[j - 1] + Step(fs, j - 1)]

\* The offsets of fs_flush are numbers that grow with every file in use.
LEMMA OffsetIs ==
  ASSUME NEW fs, Sized(fs)
  PROVE  /\ \A j \in 0 .. FILES_MAX : Offset(fs, j) \in Nat
         /\ Offset(fs, 0) = 0
         /\ \A j \in 1 .. FILES_MAX : Offset(fs, j) = Offset(fs, j - 1) + Step(fs, j - 1)
<1> DEFINE n == FILES_MAX
           step == [y \in Nat \X (1 .. n) |-> y[1] + Step(fs, y[2] - 1)]
           f == CHOOSE g : OffsetRun(g, fs)
<1>1. n \in Nat
  BY Constants, Zenon
<1> HIDE DEF n
<1>2. ASSUME NEW j \in 1 .. n PROVE Step(fs, j - 1) \in Nat
  <2>1. j - 1 \in Slots
    BY <1>1, SMT DEF Slots, n
  <2>2. CASE fs[j - 1].in_use
    <3>1. fs[j - 1].size \in Nat
      BY <2>1, <2>2, Zenon DEF Sized
    <3>2. Extent(fs[j - 1].size) \in Nat
      BY <3>1, ExtentNat, Zenon
    <3> QED
      BY <2>2, <3>2, Zenon DEF Step
  <2>3. CASE ~ fs[j - 1].in_use
    BY <2>3, SMT DEF Step
  <2> QED
    BY <2>2, <2>3, Zenon
<1>3. step \in [Nat \X (1 .. n) -> Nat]
  <2>1. ASSUME NEW a \in Nat, NEW j \in 1 .. n PROVE a + Step(fs, j - 1) \in Nat
    <3>1. Step(fs, j - 1) \in Nat
      BY <1>2, Zenon
    <3> QED
      BY <3>1, SMT
  <2> QED
    BY <2>1, Zenon
<1>4. PICK g : IsLoop(g, n, Nat, 0, step)
  <2> HIDE DEF step
  <2>1. 0 \in Nat
    BY SMT
  <2> QED
    BY <1>1, <1>3, <2>1, LoopExists, Zenon
<1>5. OffsetRun(g, fs)
  <2>1. ASSUME NEW k \in 0 .. n, k # 0
        PROVE  step[<<g[k - 1], k>>] = g[k - 1] + Step(fs, k - 1)
    <3>1. k \in 1 .. n /\ k - 1 \in 0 .. n
      BY <1>1, <2>1, SMT
    <3>2. <<g[k - 1], k>> \in Nat \X (1 .. n)
      BY <1>4, <3>1 DEF IsLoop
    <3> QED
      BY <3>2
  <2>2. \A k \in 0 .. n : (IF k = 0 THEN 0 ELSE step[<<g[k - 1], k>>])
                            = (IF k = 0 THEN 0 ELSE g[k - 1] + Step(fs, k - 1))
    BY <2>1, Zenon
  <2> HIDE DEF step
  <2>3. g = [k \in 0 .. n |-> IF k = 0 THEN 0 ELSE g[k - 1] + Step(fs, k - 1)]
    BY <1>4, <2>2, Zenon DEF IsLoop
  <2> QED
    BY <2>3, Zenon DEF OffsetRun, n
<1>6. OffsetRun(f, fs)
  <2> HIDE DEF step
  <2> QED
    BY <1>5, Zenon
<1>7. \A j \in 0 .. n : Offset(fs, j) = f[j]
  BY Zenon DEF Offset, OffsetRun, Step, n
<1> HIDE DEF f, step
<1>8. /\ 0 \in 0 .. n
      /\ \A k \in 1 .. n : k \in 0 .. n /\ k - 1 \in 0 .. n /\ k # 0
  BY <1>1, SMT
<1>9. f[0] = 0 /\ \A j \in 1 .. n : f[j] = f[j - 1] + Step(fs, j - 1)
  BY <1>6, <1>8, Zenon DEF OffsetRun, n
<1>10. \A j \in 0 .. n : f[j] \in Nat
  <2> DEFINE T == {k \in 0 .. n : f[k] \in Nat}
  <2>1. 0 \in T
    BY <1>8, <1>9, SMT
  <2>2. ASSUME NEW k \in 1 .. n, k - 1 \in T PROVE k \in T
    <3>1. f[k - 1] \in Nat /\ Step(fs, k - 1) \in Nat /\ k \in 0 .. n
      BY <1>2, <1>8, <2>2, Zenon
    <3>2. f[k] \in Nat
      BY <1>9, <3>1, SMT
    <3> QED
      BY <3>1, <3>2, Zenon
  <2>3. 0 .. n \subseteq T
    <3> HIDE DEF T
    <3> QED
      BY <1>1, <2>1, <2>2, Rounds, Zenon
  <2> QED
    BY <2>3, Zenon
<1> QED
  BY <1>7, <1>8, <1>9, <1>10, Zenon DEF n

\* The sectors that entry j takes.
Taken(fs, j) == IF fs[j].in_use THEN Blocks(fs[j].size) ELSE 0

\* The same in sectors.
LEMMA StartIs ==
  ASSUME NEW fs, Sized(fs)
  PROVE  /\ \A j \in 0 .. FILES_MAX : Start(fs, j) \in Nat /\ Offset(fs, j) = SECTOR_SIZE * Start(fs, j)
         /\ Start(fs, 0) = 0
         /\ \A j \in 1 .. FILES_MAX : /\ Taken(fs, j - 1) \in Nat
                                      /\ Start(fs, j) = Start(fs, j - 1) + Taken(fs, j - 1)
<1> DEFINE n == FILES_MAX
           T == {j \in 0 .. n : Start(fs, j) \in Nat /\ Offset(fs, j) = SECTOR_SIZE * Start(fs, j)}
<1>1. n \in Nat
  BY Constants, Zenon
<1>2. /\ \A j \in 0 .. n : Offset(fs, j) \in Nat
      /\ Offset(fs, 0) = 0
      /\ \A j \in 1 .. n : Offset(fs, j) = Offset(fs, j - 1) + Step(fs, j - 1)
  BY OffsetIs, Zenon
<1>3. Start(fs, 0) = 0
  BY <1>2, SMT DEF Start, SECTOR_SIZE
<1>4. ASSUME NEW j \in 1 .. n PROVE Taken(fs, j - 1) \in Nat /\ Step(fs, j - 1) = SECTOR_SIZE * Taken(fs, j - 1)
  <2>1. j - 1 \in Slots
    BY <1>1, SMT DEF Slots
  <2>2. CASE fs[j - 1].in_use
    <3>1. fs[j - 1].size \in Nat
      BY <2>1, <2>2, Zenon DEF Sized
    <3> QED
      BY <2>2, <3>1, ExtentIs, Zenon DEF Step, Taken
  <2>3. CASE ~ fs[j - 1].in_use
    BY <2>3, SMT DEF Step, Taken, SECTOR_SIZE
  <2> QED
    BY <2>2, <2>3, Zenon
<1> HIDE DEF n
<1>5. ASSUME NEW j \in 1 .. n, j - 1 \in T
      PROVE  j \in T /\ Start(fs, j) = Start(fs, j - 1) + Taken(fs, j - 1)
  <2>1. /\ Start(fs, j - 1) \in Nat /\ Taken(fs, j - 1) \in Nat
        /\ Offset(fs, j) = SECTOR_SIZE * Start(fs, j - 1) + SECTOR_SIZE * Taken(fs, j - 1)
    <3>1. /\ Offset(fs, j) = Offset(fs, j - 1) + Step(fs, j - 1)
          /\ Step(fs, j - 1) = SECTOR_SIZE * Taken(fs, j - 1) /\ Taken(fs, j - 1) \in Nat
      BY <1>2, <1>4, Zenon
    <3>2. Start(fs, j - 1) \in Nat /\ Offset(fs, j - 1) = SECTOR_SIZE * Start(fs, j - 1)
      BY <1>5, Zenon
    <3> QED
      BY <3>1, <3>2, Zenon
  <2> DEFINE m == Start(fs, j - 1) + Taken(fs, j - 1)
  <2>2. m \in Nat /\ Offset(fs, j) = SECTOR_SIZE * m
    BY <2>1, SMT DEF SECTOR_SIZE
  <2> HIDE DEF m
  <2>3. Start(fs, j) = m
    BY <2>2, SMT DEF Start, SECTOR_SIZE
  <2>4. j \in 0 .. n
    BY <1>1, SMT
  <2> QED
    BY <2>2, <2>3, <2>4, Zenon DEF m
<1>6. 0 .. n \subseteq T
  <2>1. 0 \in T
    BY <1>1, <1>2, <1>3, SMT DEF SECTOR_SIZE
  <2> HIDE DEF T
  <2> QED
    BY <1>1, <1>5, <2>1, Rounds, Zenon
<1>7. ASSUME NEW j \in 1 .. n PROVE j - 1 \in T
  <2>1. j - 1 \in 0 .. n
    BY <1>1, SMT
  <2> QED
    BY <1>6, <2>1, Zenon
<1>8. \A j \in 0 .. n : j \in T
  BY <1>6, Zenon
<1> QED
  BY <1>3, <1>4, <1>5, <1>7, <1>8, Zenon DEF n

\* A file ends before the next entry begins.
LEMMA StartsRise ==
  ASSUME NEW fs, Sized(fs), NEW i \in Slots, NEW j \in 0 .. FILES_MAX, i < j
  PROVE  Start(fs, i) + Taken(fs, i) <= Start(fs, j)
<1> DEFINE n == FILES_MAX
           T == {k \in 0 .. n : i < k => Start(fs, i) + Taken(fs, i) <= Start(fs, k)}
<1>1. n \in Nat /\ i \in 0 .. n - 1
  BY Constants, Zenon DEF Slots
<1>2. /\ \A k \in 0 .. n : Start(fs, k) \in Nat
      /\ \A k \in 1 .. n : /\ Taken(fs, k - 1) \in Nat
                           /\ Start(fs, k) = Start(fs, k - 1) + Taken(fs, k - 1)
  BY StartIs, Zenon
<1> HIDE DEF n
<1>3. 0 \in T
  BY <1>1, SMT
<1>4. ASSUME NEW k \in 1 .. n, k - 1 \in T PROVE k \in T
  <2>1. k \in 0 .. n /\ k - 1 \in 0 .. n
    BY <1>1, SMT
  <2>2. SUFFICES ASSUME i < k PROVE Start(fs, i) + Taken(fs, i) <= Start(fs, k)
    BY <2>1, Zenon
  <2>3. /\ Taken(fs, k - 1) \in Nat /\ Start(fs, k - 1) \in Nat
        /\ Start(fs, k) = Start(fs, k - 1) + Taken(fs, k - 1)
    BY <1>2, <2>1, Zenon
  <2>4. CASE i = k - 1
    BY <2>3, <2>4, SMT
  <2>5. CASE i < k - 1
    <3>1. Start(fs, i) + Taken(fs, i) <= Start(fs, k - 1)
      BY <1>4, <2>5, Zenon
    <3>2. Start(fs, i) \in Nat /\ Taken(fs, i) \in Nat
      <4>1. i \in 0 .. n /\ i + 1 \in 1 .. n /\ (i + 1) - 1 = i
        BY <1>1, SMT
      <4>2. Taken(fs, (i + 1) - 1) \in Nat
        BY <1>2, <4>1, Zenon
      <4> QED
        BY <1>2, <4>1, <4>2, Zenon
    <3> QED
      BY <2>3, <3>1, <3>2, SMT
  <2> QED
    BY <1>1, <2>2, <2>4, <2>5, SMT
<1>5. 0 .. n \subseteq T
  <2> HIDE DEF T
  <2> QED
    BY <1>1, <1>3, <1>4, Rounds, Zenon
<1> QED
  BY <1>5, Zenon DEF n

\* Where an entry begins depends on the sectors that those before it take.
LEMMA StartAgrees ==
  ASSUME NEW fs, NEW gs, Sized(fs), Sized(gs), NEW i \in 0 .. FILES_MAX,
         \A j \in Slots : j < i => Taken(fs, j) = Taken(gs, j)
  PROVE  Start(fs, i) = Start(gs, i)
<1> DEFINE n == FILES_MAX
           T == {k \in 0 .. n : k <= i => Start(fs, k) = Start(gs, k)}
<1>1. n \in Nat
  BY Constants, Zenon
<1>2. /\ Start(fs, 0) = 0 /\ Start(gs, 0) = 0
      /\ \A k \in 1 .. n : /\ Start(fs, k) = Start(fs, k - 1) + Taken(fs, k - 1)
                           /\ Start(gs, k) = Start(gs, k - 1) + Taken(gs, k - 1)
  BY StartIs, Zenon
<1>3. 0 \in T
  BY <1>1, <1>2, SMT
<1>4. ASSUME NEW k \in 1 .. n, k - 1 \in T PROVE k \in T
  <2>1. k \in 0 .. n /\ k - 1 \in Slots /\ (k <= i => k - 1 <= i /\ k - 1 < i)
    BY <1>1, SMT DEF Slots
  <2> QED
    BY <1>2, <1>4, <2>1, Zenon
<1>5. 0 .. n \subseteq T
  <2> HIDE DEF T, n
  <2> QED
    BY <1>1, <1>3, <1>4, Rounds, Zenon
<1>6. i <= i
  BY SMT
<1> QED
  BY <1>5, <1>6, Zenon
-----------------------------------------------------------------------------
(* The octal size field. *)

OctalRun(f, size) == f = [i \in 0 .. FIELD |-> IF i = 0 THEN size ELSE f[i - 1] \div 8]

\* filesz in the loop of fs_flush: the size divided by eight, again and again,
\* until nothing is left of it.
Quotients(q, size) ==
  /\ q \in [0 .. 12 -> Nat]
  /\ q[0] = size
  /\ \A k \in 1 .. 12 : q[k] = q[k - 1] \div 8
  /\ octal(size) = [i \in 1 .. 12 |-> q[12 - i] % 8]

\* The loop has a run, from which its digits come.
LEMMA OctalRuns ==
  ASSUME NEW size \in Nat
  PROVE  \E q : Quotients(q, size)
<1> DEFINE step == [y \in Nat \X (1 .. 12) |-> y[1] \div 8]
           f == CHOOSE g : OctalRun(g, size)
<1>1. \A a \in Nat : a \div 8 \in Nat
  BY SMT
<1>2. step \in [Nat \X (1 .. 12) -> Nat]
  BY <1>1, Zenon
<1>3. PICK g : IsLoop(g, 12, Nat, size, step)
  <2> HIDE DEF step
  <2>1. 12 \in Nat
    BY SMT
  <2> QED
    BY <1>2, <2>1, LoopExists, Zenon
<1>4. OctalRun(g, size)
  <2>1. ASSUME NEW k \in 0 .. 12, k # 0
        PROVE  step[<<g[k - 1], k>>] = g[k - 1] \div 8
    <3>1. k \in 1 .. 12 /\ k - 1 \in 0 .. 12
      BY <2>1, SMT
    <3>2. <<g[k - 1], k>> \in Nat \X (1 .. 12)
      BY <1>3, <3>1 DEF IsLoop
    <3> QED
      BY <3>2
  <2> HIDE DEF step
  <2>2. \A k \in 0 .. 12 : (IF k = 0 THEN size ELSE step[<<g[k - 1], k>>])
                             = (IF k = 0 THEN size ELSE g[k - 1] \div 8)
    BY <2>1, Zenon
  <2>3. g = [k \in 0 .. 12 |-> IF k = 0 THEN size ELSE g[k - 1] \div 8]
    BY <1>3, <2>2, Zenon DEF IsLoop
  <2> QED
    BY <2>3, Zenon DEF OctalRun, FIELD
<1>5. OctalRun(f, size)
  <2> HIDE DEF step
  <2> QED
    BY <1>4, Zenon
<1>6. octal(size) = [i \in 1 .. 12 |-> f[12 - i] % 8]
  BY Zenon DEF octal, OctalRun, FIELD
<1> HIDE DEF f, step
<1>7. 0 \in 0 .. 12 /\ \A k \in 1 .. 12 : k \in 0 .. 12 /\ k # 0
  BY SMT
<1>8. f[0] = size /\ \A k \in 1 .. 12 : f[k] = f[k - 1] \div 8
  BY <1>5, <1>7, Zenon DEF OctalRun, FIELD
<1>9. f \in [0 .. 12 -> Nat]
  <2> DEFINE T == {k \in 0 .. 12 : f[k] \in Nat}
  <2>1. 0 \in T
    BY <1>7, <1>8, Zenon
  <2>2. ASSUME NEW k \in 1 .. 12, k - 1 \in T PROVE k \in T
    BY <1>1, <1>7, <1>8, <2>2, Zenon
  <2>3. 0 .. 12 \subseteq T
    <3> HIDE DEF T
    <3>1. 12 \in Nat
      BY SMT
    <3> QED
      BY <2>1, <2>2, <3>1, Rounds, Zenon
  <2>4. f = [k \in 0 .. 12 |-> f[k]]
    BY <1>5, Zenon DEF OctalRun, FIELD
  <2> QED
    BY <2>3, <2>4, Zenon
<1> QED
  BY <1>6, <1>8, <1>9, Zenon DEF Quotients

\* The sizes an int can hold.
Ints == {n \in Nat : n <= 2147483647}

\* Eleven digits are enough for a size that is an int.
LEMMA ElevenDigits ==
  ASSUME NEW size \in Ints, NEW q, Quotients(q, size)
  PROVE  q[11] = 0 /\ q[12] = 0
<1>1. \A a, b \in Nat : a < 8 * b => a \div 8 < b
  BY SMT
<1>2. /\ \A k \in 0 .. 12 : q[k] \in Nat
      /\ q[0] = size
      /\ \A k \in 1 .. 12 : q[k] = q[k - 1] \div 8
  BY SMT DEF Quotients
<1>3. q[0] \in Nat /\ q[0] < 8 * 268435456
  BY <1>2, SMT DEF Ints
<1>4. q[1] \in Nat /\ q[1] = q[0] \div 8 /\ q[1] < 8 * 33554432
  BY <1>2, <1>3, SMT
<1>5. q[2] \in Nat /\ q[2] = q[1] \div 8 /\ q[2] < 8 * 4194304
  BY <1>2, <1>4, SMT
<1>6. q[3] \in Nat /\ q[3] = q[2] \div 8 /\ q[3] < 8 * 524288
  BY <1>2, <1>5, SMT
<1>7. q[4] \in Nat /\ q[4] = q[3] \div 8 /\ q[4] < 8 * 65536
  BY <1>2, <1>6, SMT
<1>8. q[5] \in Nat /\ q[5] = q[4] \div 8 /\ q[5] < 8 * 8192
  BY <1>2, <1>7, SMT
<1>9. q[6] \in Nat /\ q[6] = q[5] \div 8 /\ q[6] < 8 * 1024
  BY <1>2, <1>8, SMT
<1>10. q[7] \in Nat /\ q[7] = q[6] \div 8 /\ q[7] < 8 * 128
  BY <1>2, <1>9, SMT
<1>11. q[8] \in Nat /\ q[8] = q[7] \div 8 /\ q[8] < 8 * 16
  BY <1>2, <1>10, SMT
<1>12. q[9] \in Nat /\ q[9] = q[8] \div 8 /\ q[9] < 8 * 2
  BY <1>2, <1>11, SMT
<1>13. q[10] \in Nat /\ q[10] = q[9] \div 8 /\ q[10] < 2
  BY <1>2, <1>12, SMT
<1>14. q[11] = 0
  BY <1>2, <1>13, SMT
<1> QED
  BY <1>2, <1>14, SMT

DecRun(f, oct, m) == f = [i \in 0 .. m |-> IF i = 0 THEN 0 ELSE f[i - 1] * 8 + oct[i]]

\* oct2int on a field of m digits and, if it is longer, a NUL behind them.
LEMMA Oct2intIs ==
  ASSUME NEW oct \in Fields, NEW m \in 0 .. 12,
         \A i \in 1 .. m : oct[i] \in 0 .. 7,
         m < 12 => oct[m + 1] = NUL,
         NEW g, g[0] = 0, \A i \in 1 .. m : g[i] = g[i - 1] * 8 + oct[i]
  PROVE  oct2int(oct) = g[m]
<1> DEFINE S == {i \in 1 .. FIELD : oct[i] \notin 0 .. 7} \cup {FIELD + 1}
           f == CHOOSE h : DecRun(h, oct, m)
<1>1. Min(S) = m + 1
  <2>1. S \in SUBSET Nat /\ S # {}
    BY SMT DEF FIELD
  <2>2. Min(S) \in S /\ \A y \in S : Min(S) <= y
    <3> HIDE DEF S
    <3> QED
      BY <2>1, MinIsFirst, Zenon
  <2>3. m + 1 \in S
    BY SMT DEF FIELD, NUL
  <2>4. \A y \in S : ~ (y < m + 1)
    <3>1. \A y \in 1 .. 12 : y < m + 1 => y \in 1 .. m
      BY SMT
    <3>2. ~ (12 + 1 < m + 1)
      BY SMT
    <3> QED
      BY <3>1, <3>2, Zenon DEF FIELD
  <2> HIDE DEF S
  <2> QED
    <3>1. m + 1 \in Nat /\ Min(S) \in Nat
      <4>1. m + 1 \in Nat
        BY SMT
      <4> QED
        BY <2>1, <2>2, <4>1, Zenon
    <3>2. Min(S) <= m + 1 /\ ~ (Min(S) < m + 1)
      BY <2>2, <2>3, <2>4, Zenon
    <3> QED
      BY <3>1, <3>2, SMT
<1>2. (m + 1) - 1 = m
  BY SMT
<1>3. oct2int(oct) = f[m]
  <2> HIDE DEF f
  <2>1. oct2int(oct) = (CHOOSE h : DecRun(h, oct, Min(S) - 1))[Min(S) - 1]
    BY Zenon DEF oct2int, DecRun
  <2> HIDE DEF S
  <2> QED
    BY <1>1, <1>2, <2>1, Zenon DEF f
<1>4. DecRun([i \in 0 .. m |-> g[i]], oct, m)
  <2> DEFINE h == [i \in 0 .. m |-> g[i]]
  <2>1. ASSUME NEW i \in 0 .. m PROVE h[i] = IF i = 0 THEN 0 ELSE h[i - 1] * 8 + oct[i]
    <3>1. CASE i = 0
      BY <3>1, Zenon
    <3>2. CASE i # 0
      <4>1. i \in 1 .. m /\ i - 1 \in 0 .. m
        BY <3>2, SMT
      <4> QED
        BY <3>2, <4>1, Zenon
    <3> QED
      BY <3>1, <3>2, Zenon
  <2>2. h = [i \in 0 .. m |-> IF i = 0 THEN 0 ELSE h[i - 1] * 8 + oct[i]]
    BY <2>1, Zenon
  <2> HIDE DEF h
  <2>3. DecRun(h, oct, m)
    BY <2>2, Zenon DEF DecRun
  <2> QED
    BY <2>3, Zenon DEF h
<1>5. DecRun(f, oct, m)
  BY <1>4, Zenon
<1> HIDE DEF f
<1>6. 0 \in 0 .. m /\ \A k \in 1 .. m : k \in 0 .. m /\ k # 0
  BY SMT
<1>7. f[0] = 0 /\ \A k \in 1 .. m : f[k] = f[k - 1] * 8 + oct[k]
  BY <1>5, <1>6, Zenon DEF DecRun
<1> DEFINE T == {k \in 0 .. m : f[k] = g[k]}
<1>8. 0 \in T
  BY <1>6, <1>7, Zenon
<1>9. ASSUME NEW k \in 1 .. m, k - 1 \in T PROVE k \in T
  BY <1>6, <1>7, <1>9, Zenon
<1>10. m \in T
  <2>1. 0 .. m \subseteq T
    <3> HIDE DEF T
    <3>1. m \in Nat
      BY SMT
    <3> QED
      BY <1>8, <1>9, <3>1, Rounds, Zenon
  <2>2. m \in 0 .. m
    BY SMT
  <2> QED
    BY <2>1, <2>2, Zenon
<1> QED
  BY <1>3, <1>10, Zenon

\* The digits of a quotient are what is left when it is divided once more.
LEMMA NextDigit ==
  ASSUME NEW size \in Nat, NEW q, Quotients(q, size), NEW k \in 1 .. 12
  PROVE  q[k - 1] = q[k] * 8 + (q[k - 1] % 8) /\ q[k - 1] % 8 \in 0 .. 7
<1>1. q[k - 1] \in Nat /\ q[k] = q[k - 1] \div 8
  BY SMT DEF Quotients
<1> DEFINE a == q[k - 1]
<1> HIDE DEF a
<1>2. \A b \in Nat : b = (b \div 8) * 8 + (b % 8) /\ b % 8 \in 0 .. 7
  BY SMT
<1> QED
  BY <1>1, <1>2, Zenon

\* fs_init reads the size field that fs_flush writes as the size.
LEMMA OctalRead ==
  ASSUME NEW size \in Ints
  PROVE  octal(size) \in Fields /\ oct2int(octal(size)) = size
<1>1. size \in Nat
  BY SMT DEF Ints
<1>2. PICK q : Quotients(q, size)
  BY <1>1, OctalRuns, Zenon
<1> DEFINE o == octal(size)
           g == [i \in 0 .. 12 |-> q[12 - i]]
<1>3. ASSUME NEW i \in 1 .. 12
      PROVE  o[i] = q[12 - i] % 8 /\ o[i] \in 0 .. 7 /\ g[i] = g[i - 1] * 8 + o[i]
  <2>1. o[i] = q[12 - i] % 8
    BY <1>2, Zenon DEF Quotients
  <2>2. /\ 13 - i \in 1 .. 12 /\ (13 - i) - 1 = 12 - i /\ 12 - (i - 1) = 13 - i
        /\ i \in 0 .. 12 /\ i - 1 \in 0 .. 12
    BY SMT
  <2>3. q[12 - i] = q[13 - i] * 8 + (q[12 - i] % 8) /\ q[12 - i] % 8 \in 0 .. 7
    BY <1>1, <1>2, <2>2, NextDigit, Zenon
  <2>4. g[i] = q[12 - i] /\ g[i - 1] = q[13 - i]
    BY <2>2, Zenon
  <2> QED
    BY <2>1, <2>3, <2>4, Zenon
<1>4. o \in Fields
  <2>1. o = [i \in 1 .. 12 |-> o[i]]
    BY <1>2, Zenon DEF Quotients
  <2> HIDE DEF o
  <2> QED
    BY <1>3, <2>1, Zenon DEF Fields, FIELD
<1>5. g[0] = 0 /\ g[12] = size
  <2>1. 0 \in 0 .. 12 /\ 12 \in 0 .. 12 /\ 12 - 0 = 12 /\ 12 - 12 = 0
    BY SMT
  <2>2. q[12] = 0 /\ q[0] = size
    BY <1>2, ElevenDigits, Zenon DEF Quotients
  <2> QED
    BY <2>1, <2>2, Zenon
<1> HIDE DEF o, g
<1>6. 12 \in 0 .. 12 /\ ~ (12 < 12)
  BY SMT
<1>7. oct2int(o) = g[12]
  BY <1>3, <1>4, <1>5, <1>6, Oct2intIs, ZenonT(40)
<1> QED
  BY <1>4, <1>5, <1>7, Zenon DEF o

\* w, n long, without its first element and with x at its end.
Shift(w, n, x) == [i \in 1 .. n |-> IF i = n THEN x ELSE w[i + 1]]

\* A sequence without its first and with another last element.
LEMMA Shifted ==
  ASSUME NEW X, NEW n \in Nat, 1 <= n, NEW w \in [1 .. n -> X], NEW x \in X
  PROVE  Append(Tail(w), x) = Shift(w, n, x)
<1> DEFINE v == Tail(w)
           o == Append(v, x)
<1>1. w \in Seq(X) /\ Len(w) = n
  BY SMT
<1>2. v \in Seq(X) /\ Len(v) = n - 1 /\ \A i \in 1 .. n - 1 : v[i] = w[i + 1]
  BY <1>1, SMT
<1> HIDE DEF v
<1>3. o \in Seq(X) /\ Len(o) = n /\ o[n] = x /\ \A i \in 1 .. n - 1 : o[i] = v[i]
  BY <1>2, SMT
<1> HIDE DEF o
<1>4. o \in [1 .. Len(o) -> X]
  BY <1>3, LenProperties, Zenon
<1>5. o = [i \in 1 .. n |-> o[i]]
  BY <1>3, <1>4, Zenon
<1>6. ASSUME NEW i \in 1 .. n PROVE o[i] = IF i = n THEN x ELSE w[i + 1]
  <2>1. i = n \/ i \in 1 .. n - 1
    BY SMT
  <2>2. n \notin 1 .. n - 1
    BY SMT
  <2> QED
    BY <1>2, <1>3, <2>1, <2>2, Zenon
<1>7. o = [i \in 1 .. n |-> IF i = n THEN x ELSE w[i + 1]]
  BY <1>5, <1>6, Zenon
<1> QED
  BY <1>7, Zenon DEF o, v, Shift

\* And the one that tar writes, with one digit less and a NUL.
LEMMA TarRead ==
  ASSUME NEW size \in Ints, NEW o, o = Append(Tail(octal(size)), NUL)
  PROVE  o \in Fields /\ oct2int(o) = size
<1>1. size \in Nat
  BY SMT DEF Ints
<1>2. PICK q : Quotients(q, size)
  BY <1>1, OctalRuns, Zenon
<1> DEFINE g == [i \in 0 .. 11 |-> q[11 - i]]
<1>3. ASSUME NEW i \in 1 .. 12 PROVE octal(size)[i] = q[12 - i] % 8
  BY <1>2, Zenon DEF Quotients
<1>4. octal(size) \in Fields
  BY OctalRead, Zenon
<1>5. /\ o = [i \in 1 .. 12 |-> o[i]] /\ o[12] = NUL
      /\ \A i \in 1 .. 11 : o[i] = octal(size)[i + 1]
  <2> DEFINE X == {NUL} \cup 0 .. 7
             n == 12
             w == octal(size)
  <2>1. w \in [1 .. n -> X] /\ NUL \in X
    BY <1>4, Zenon DEF Fields, FIELD
  <2>2. n \in Nat /\ 1 <= n /\ n \in 1 .. n /\ \A i \in 1 .. 11 : i \in 1 .. n /\ i # n
    BY SMT
  <2>3. o = Append(Tail(w), NUL)
    BY Zenon
  <2> HIDE DEF X, n, w
  <2>4. Append(Tail(w), NUL) = Shift(w, n, NUL)
    BY <2>1, <2>2, Shifted, Zenon
  <2>5. /\ o = [i \in 1 .. n |-> o[i]] /\ o[n] = NUL
        /\ \A i \in 1 .. 11 : o[i] = w[i + 1]
    BY <2>2, <2>3, <2>4, Zenon DEF Shift
  <2> QED
    BY <2>5, Zenon DEF n, w
<1>6. ASSUME NEW i \in 1 .. 11
      PROVE  o[i] \in 0 .. 7 /\ g[i] = g[i - 1] * 8 + o[i]
  <2>1. /\ i + 1 \in 1 .. 12 /\ 12 - (i + 1) = 11 - i
        /\ 12 - i \in 1 .. 12 /\ (12 - i) - 1 = 11 - i /\ 11 - (i - 1) = 12 - i
        /\ i \in 0 .. 11 /\ i - 1 \in 0 .. 11
    BY SMT
  <2>2. o[i] = q[11 - i] % 8
    BY <1>3, <1>5, <2>1, Zenon
  <2>3. q[11 - i] = q[12 - i] * 8 + (q[11 - i] % 8) /\ q[11 - i] % 8 \in 0 .. 7
    BY <1>1, <1>2, <2>1, NextDigit, Zenon
  <2>4. g[i] = q[11 - i] /\ g[i - 1] = q[12 - i]
    BY <2>1, Zenon
  <2> QED
    BY <2>2, <2>3, <2>4, Zenon
<1>7. o \in Fields
  <2>1. \A i \in 1 .. 12 : i \in 1 .. 11 \/ i = 12
    BY SMT
  <2>2. \A i \in 1 .. 12 : o[i] \in {NUL} \cup 0 .. 7
    BY <1>5, <1>6, <2>1, Zenon
  <2> QED
    BY <1>5, <2>2, Zenon DEF Fields, FIELD
<1>8. g[0] = 0 /\ g[11] = size
  <2>1. 0 \in 0 .. 11 /\ 11 \in 0 .. 11 /\ 11 - 0 = 11 /\ 11 - 11 = 0
    BY SMT
  <2>2. q[11] = 0 /\ q[0] = size
    BY <1>2, ElevenDigits, Zenon DEF Quotients
  <2> QED
    BY <2>1, <2>2, Zenon
<1> HIDE DEF g
<1>9. 11 \in 0 .. 12 /\ 11 + 1 = 12
  BY SMT
<1>10. oct2int(o) = g[11]
  BY <1>5, <1>6, <1>7, <1>8, <1>9, Oct2intIs, Zenon
<1> QED
  BY <1>7, <1>8, <1>10, Zenon
-----------------------------------------------------------------------------
(* Sectors, and the file that begins at one. *)

\* The lesser of two numbers.
LEMMA MinTwo ==
  ASSUME NEW a \in Nat, NEW b \in Nat
  PROVE  Min({a, b}) \in Nat /\ Min({a, b}) <= b /\ (a <= b => Min({a, b}) = a)
<1>1. {a, b} \in SUBSET Nat /\ {a, b} # {}
  BY Zenon
<1>2. Min({a, b}) \in {a, b} /\ \A y \in {a, b} : Min({a, b}) <= y
  BY <1>1, MinIsFirst, Zenon
<1> QED
  BY <1>2, SMT

\* A sector is told apart by its kind.
LEMMA Kinds ==
  ASSUME NEW x \in Sector
  PROVE  /\ x.kind \in {"zero", "header", "data"}
         /\ x.kind = "zero" <=> x = ZeroSector
         /\ x.kind = "header" <=> x \in Headers
         /\ x.kind = "data" <=> x \in [kind : {"data"}, value : DataValues, len : Nat]
<1>1. ZeroSector.kind = "zero"
  BY SMT DEF ZeroSector
<1>2. ASSUME x \in Headers PROVE x.kind = "header"
  BY <1>2, SMT DEF Headers
<1>3. ASSUME x \in [kind : {"data"}, value : DataValues, len : Nat] PROVE x.kind = "data"
  BY <1>3, SMT
<1>4. "zero" # "header" /\ "zero" # "data" /\ "header" # "data"
  BY SMT
<1> QED
  BY <1>1, <1>2, <1>3, <1>4, Zenon DEF Sector

\* The first bytes of a sector are a sector, and cutting them off again changes
\* nothing.
LEMMA CutIs ==
  ASSUME NEW x \in Sector, NEW n \in Nat
  PROVE  Cut(x, n) \in Sector /\ Cut(Cut(x, n), n) = Cut(x, n)
<1>1. CASE n >= SECTOR_SIZE \/ x = ZeroSector
  BY <1>1, Zenon DEF Cut
<1>2. CASE ~ (n >= SECTOR_SIZE) /\ x.kind = "header" /\ x # ZeroSector
  <2> DEFINE c == [kind |-> "data", value |-> <<"header", 0>>, len |-> n]
  <2>1. Cut(x, n) = c
    BY <1>2, Zenon DEF Cut
  <2>2. c \in [kind : {"data"}, value : DataValues, len : Nat]
    BY SMT DEF DataValues
  <2>3. c \in Sector
    BY <2>2, Zenon DEF Sector
  <2>4. c.kind = "data" /\ c.len = n /\ c = [kind |-> "data", value |-> c.value, len |-> n]
    BY SMT
  <2> HIDE DEF c
  <2>5. c # ZeroSector /\ c.kind # "header"
    BY <2>4, SMT DEF ZeroSector
  <2>6. Min({n, n}) = n
    BY MinTwo, SMT
  <2>7. Cut(c, n) = [c EXCEPT !.len = n]
    BY <1>2, <2>4, <2>5, <2>6, Zenon DEF Cut
  <2>8. [c EXCEPT !.len = n] = c
    BY <2>4, SMT
  <2> QED
    BY <2>1, <2>3, <2>7, <2>8, Zenon
<1>3. CASE ~ (n >= SECTOR_SIZE) /\ x.kind # "header" /\ x # ZeroSector
  <2>1. x \in [kind : {"data"}, value : DataValues, len : Nat]
    BY <1>3, Kinds, Zenon
  <2> DEFINE m == Min({x.len, n})
             c == [x EXCEPT !.len = m]
  <2>2. x.len \in Nat
    BY <2>1, SMT
  <2>3. m \in Nat /\ m <= n
    BY <2>2, MinTwo, Zenon
  <2>4. Cut(x, n) = c
    BY <1>3, Zenon DEF Cut
  <2> HIDE DEF m
  <2>5. /\ c \in [kind : {"data"}, value : DataValues, len : Nat]
        /\ c.len = m /\ [c EXCEPT !.len = m] = c
    <3>1. PICK y \in DataValues, l \in Nat : x = [kind |-> "data", value |-> y, len |-> l]
      BY <2>1, SMT
    <3>2. c = [kind |-> "data", value |-> y, len |-> m]
      BY <3>1, SMT
    <3> HIDE DEF c
    <3> QED
      BY <2>3, <3>2, SMT
  <2> HIDE DEF c
  <2>6. c \in Sector /\ c # ZeroSector /\ c.kind # "header"
    <3>1. c \in Sector
      BY <2>5, Zenon DEF Sector
    <3>2. c.kind = "data"
      BY <2>5, SMT
    <3> QED
      BY <3>1, <3>2, Kinds, SMT
  <2>7. Min({m, n}) = m
    BY <2>3, MinTwo, Zenon
  <2>8. Cut(c, n) = [c EXCEPT !.len = m]
    BY <1>3, <2>5, <2>6, <2>7, Zenon DEF Cut
  <2> QED
    BY <2>4, <2>5, <2>6, <2>8, Zenon
<1> QED
  BY <1>1, <1>2, <1>3, Zenon

\* Data of a given size, taken from sectors.
LEMMA BytesIs ==
  ASSUME NEW size \in Nat, NEW src, \A k \in DataSectors(size) : src[k] \in Sector
  PROVE  /\ \A k \in DataSectors(size) : Bytes(size, src)[k] \in Sector
         /\ Bytes(size, Bytes(size, src)) = Bytes(size, src)
<1>1. ASSUME NEW k \in DataSectors(size)
      PROVE  LET n == size - (k - 1) * SECTOR_SIZE
             IN  /\ Cut(src[k], n) \in Sector
                 /\ Cut(Cut(src[k], n), n) = Cut(src[k], n)
  <2>1. size - (k - 1) * SECTOR_SIZE \in Nat
    BY ExtentIs, Zenon
  <2> QED
    BY <2>1, CutIs, Zenon
<1> QED
  BY <1>1, Zenon DEF Bytes

\* What fs_init finds at a sector is a sector.
LEMMA AtIs ==
  ASSUME NEW img \in Disks, NEW s
  PROVE  At(img, s) \in Sector
  BY Zenon DEF At, Disks, Sector

\* Sizes fit an int.
LEMMA SizesAreInts == 0 .. DATA_SIZE \subseteq Ints /\ 0 .. DATA_SIZE \subseteq Nat
  BY FileSystemAssumption, SMT DEF Ints

\* The size bytes behind sector s.
DataAt(img, s, size) ==
  [k \in DataSectors(size) |-> Cut(At(img, s + k), size - (k - 1) * SECTOR_SIZE)]

\* A header stands for a file that can be taken over.
LEMMA FileAtIs ==
  ASSUME NEW img \in Disks, NEW s, At(img, s).kind = "header"
  PROVE  /\ UsedFile(FileAt(img, s))
         /\ FileAt(img, s).in_use
         /\ FileAt(img, s).name = At(img, s).name
         /\ FileAt(img, s).size = oct2int(At(img, s).size)
         /\ oct2int(At(img, s).size) \in Nat
         /\ FileAt(img, s).data = DataAt(img, s, oct2int(At(img, s).size))
<1> DEFINE h == At(img, s)
           size == oct2int(h.size)
           src == [k \in DataSectors(size) |-> At(img, s + k)]
           d == Bytes(size, src)
           f == FileAt(img, s)
<1>1. h \in Headers
  BY AtIs, Kinds, Zenon
<1>2. h.name \in Names /\ size \in 0 .. DATA_SIZE
  <2> HIDE DEF h
  <2>1. h \in [kind : {"header"}, name : Names, size : Fields] /\ oct2int(h.size) \in 0 .. DATA_SIZE
    BY <1>1, Zenon DEF Headers
  <2> QED
    BY <2>1, SMT
<1>3. size \in Nat
  BY <1>2, SizesAreInts, Zenon
<1>4. f = [in_use |-> TRUE, name |-> h.name, size |-> size, data |-> d]
  BY Zenon DEF FileAt
<1> HIDE DEF h, size, f
<1>5. \A k \in DataSectors(size) : src[k] = At(img, s + k) /\ src[k] \in Sector
  BY AtIs, Zenon
<1>6. d = DataAt(img, s, size)
  BY <1>5, Zenon DEF Bytes, DataAt
<1> HIDE DEF src
<1>7. /\ \A k \in DataSectors(size) : d[k] \in Sector
      /\ Bytes(size, d) = d
  BY <1>3, <1>5, BytesIs, Zenon
<1> HIDE DEF d
<1>8. f.in_use = TRUE /\ f.name = h.name /\ f.size = size /\ f.data = d
  BY <1>4, SMT
<1>9. UsedFile(f)
  BY <1>2, <1>4, <1>7, <1>8, Zenon DEF UsedFile
<1> QED
  BY <1>3, <1>6, <1>8, <1>9, Zenon DEF f, h, size

\* The entries of a table have sizes.
LEMMA TableSized ==
  ASSUME NEW fs, Table(fs)
  PROVE  Sized(fs) /\ \A i \in Slots : (fs[i].in_use => UsedFile(fs[i])) /\ (~ fs[i].in_use => fs[i] = UnusedFile)
<1>1. UnusedFile.in_use = FALSE
  BY SMT DEF UnusedFile
<1>2. ASSUME NEW i \in Slots, UsedFile(fs[i]) PROVE fs[i].in_use /\ fs[i].size \in Nat
  <2>1. fs[i].in_use = TRUE
    <3> DEFINE f == fs[i]
    <3>1. f = [in_use |-> TRUE, name |-> f.name, size |-> f.size, data |-> f.data]
      BY <1>2, Zenon DEF UsedFile
    <3> HIDE DEF f
    <3>2. f.in_use = TRUE
      BY <3>1, SMT
    <3> QED
      BY <3>2, Zenon DEF f
  <2>2. fs[i].size \in Nat
    BY <1>2, SizesAreInts, Zenon DEF UsedFile
  <2> QED
    BY <2>1, <2>2, Zenon
<1> QED
  BY <1>1, <1>2, Zenon DEF Table, Sized
-----------------------------------------------------------------------------
(* fs_init: the loop over the headers. *)

\* The states of the loop, and the first of them.
ParseStates(img) ==
  [off : Nat, next : Nat, status : {"reading", "end", "panic"},
   files : [Slots -> {UnusedFile} \cup {FileAt(img, s) : s \in Nat}]]

ParseStart == [off |-> 0, next |-> 0, status |-> "reading", files |-> NoFiles]

\* One round.
LEMMA ReadHeaderIs ==
  ASSUME NEW img \in Disks, NEW p \in ParseStates(img)
  PROVE  LET s == p.off \div SECTOR_SIZE
             h == At(img, s)
             q == ReadHeader(img, p)
         IN  /\ q \in ParseStates(img)
             /\ p.status # "reading" => q = p
             /\ p.status = "reading" /\ h.kind = "zero" =>
                  q.off = p.off /\ q.next = p.next /\ q.status = "end" /\ q.files = p.files
             /\ p.status = "reading" /\ h.kind = "data" =>
                  q.off = p.off /\ q.next = p.next /\ q.status = "panic" /\ q.files = p.files
             /\ p.status = "reading" /\ h.kind = "header" =>
                  /\ q.off = p.off + Extent(oct2int(h.size)) /\ q.next = p.next + 1
                  /\ q.status = "reading"
                  /\ q.files = [p.files EXCEPT ![p.next] = FileAt(img, s)]
<1> DEFINE s == p.off \div SECTOR_SIZE
           h == At(img, s)
           q == ReadHeader(img, p)
           F == {UnusedFile} \cup {FileAt(img, z) : z \in Nat}
<1>1. /\ p.off \in Nat /\ p.next \in Nat /\ p.files \in [Slots -> F]
      /\ p.status \in {"reading", "end", "panic"}
      /\ p = [off |-> p.off, next |-> p.next, status |-> p.status, files |-> p.files]
  <2> HIDE DEF F
  <2>1. p \in [off : Nat, next : Nat, status : {"reading", "end", "panic"}, files : [Slots -> F]]
    BY Zenon DEF ParseStates, F
  <2> QED
    BY <2>1, SMT
<1>2. s \in Nat
  BY <1>1, SMT DEF SECTOR_SIZE
<1>3. ASSUME NEW r, r \in [off : Nat, next : Nat, status : {"reading", "end", "panic"}, files : [Slots -> F]]
      PROVE  r \in ParseStates(img)
  BY <1>3, Zenon DEF ParseStates
<1>4. FileAt(img, s) \in F
  BY <1>2, Zenon
<1>5. h.kind \in {"zero", "header", "data"}
  BY AtIs, Kinds, Zenon
<1>6. CASE p.status # "reading"
  <2>1. q = p
    BY <1>6, Zenon DEF ReadHeader
  <2> QED
    BY <1>6, <2>1, Zenon
<1>7. CASE p.status = "reading" /\ h.kind = "zero"
  <2>1. q = [p EXCEPT !.status = "end"]
    BY <1>7, Zenon DEF ReadHeader
  <2> HIDE DEF s, h, q, F
  <2>2. /\ q.off = p.off /\ q.next = p.next /\ q.status = "end" /\ q.files = p.files
        /\ q \in [off : Nat, next : Nat, status : {"reading", "end", "panic"}, files : [Slots -> F]]
    BY <1>1, <2>1, SMT
  <2>3. "zero" # "header" /\ "zero" # "data"
    BY SMT
  <2> QED
    BY <1>3, <1>7, <2>2, <2>3, Zenon DEF s, h, q
<1>8. CASE p.status = "reading" /\ h.kind = "data"
  <2>1. q = [p EXCEPT !.status = "panic"]
    <3>1. "zero" # "data"
      BY SMT
    <3> QED
      BY <1>8, <3>1, Zenon DEF ReadHeader
  <2> HIDE DEF s, h, q, F
  <2>2. /\ q.off = p.off /\ q.next = p.next /\ q.status = "panic" /\ q.files = p.files
        /\ q \in [off : Nat, next : Nat, status : {"reading", "end", "panic"}, files : [Slots -> F]]
    BY <1>1, <2>1, SMT
  <2>3. "data" # "header" /\ "zero" # "data"
    BY SMT
  <2> QED
    BY <1>3, <1>8, <2>2, <2>3, Zenon DEF s, h, q
<1>9. CASE p.status = "reading" /\ h.kind = "header"
  <2> DEFINE e == NextOff(p.off, oct2int(h.size))
             g == [p.files EXCEPT ![p.next] = FileAt(img, s)]
  <2>1. q = [off |-> e, next |-> p.next + 1, status |-> "reading", files |-> g]
    <3>1. "zero" # "header" /\ "header" # "data"
      BY SMT
    <3> QED
      BY <1>9, <3>1, Zenon DEF ReadHeader
  <2>2. e = p.off + Extent(oct2int(h.size))
    BY Zenon DEF NextOff, Extent
  <2>3. e \in Nat
    <3>1. oct2int(h.size) \in Nat
      BY <1>9, FileAtIs, Zenon
    <3>2. Extent(oct2int(h.size)) \in Nat
      BY <3>1, ExtentNat, Zenon
    <3> HIDE DEF h, e
    <3> QED
      BY <1>1, <2>2, <3>2, SMT
  <2>4. g \in [Slots -> F]
    <3>1. FileAt(img, s) \in F
      BY <1>4, Zenon
    <3> QED
      BY <1>1, <3>1, Zenon
  <2> HIDE DEF s, h, q, F, e, g
  <2>5. /\ q.off = e /\ q.next = p.next + 1 /\ q.status = "reading" /\ q.files = g
        /\ q \in [off : Nat, next : Nat, status : {"reading", "end", "panic"}, files : [Slots -> F]]
    BY <1>1, <2>1, <2>3, <2>4, SMT
  <2>6. "data" # "header" /\ "zero" # "header"
    BY SMT
  <2> QED
    BY <1>3, <1>9, <2>2, <2>5, <2>6, Zenon DEF s, h, q, g
<1> HIDE DEF q, h
<1> QED
  BY <1>5, <1>6, <1>7, <1>8, <1>9, Zenon DEF q, h

ParseRun(f, img) ==
  f = [n \in 0 .. FILES_MAX |-> IF n = 0 THEN ParseStart ELSE ReadHeader(img, f[n - 1])]

\* The loop round by round.
ParseRounds(r, img) ==
  /\ \A n \in 0 .. FILES_MAX : r[n] \in ParseStates(img)
  /\ r[0] = ParseStart
  /\ \A n \in 1 .. FILES_MAX : r[n] = ReadHeader(img, r[n - 1])
  /\ Parse(img) = r[FILES_MAX]

\* The loop has a run, from which its result comes.
LEMMA ParseRuns ==
  ASSUME NEW img \in Disks
  PROVE  \E r : ParseRounds(r, img)
<1> DEFINE n == FILES_MAX
           X == ParseStates(img)
           step == [y \in X \X (1 .. n) |-> ReadHeader(img, y[1])]
           f == CHOOSE g : ParseRun(g, img)
<1>1. n \in Nat
  BY Constants, Zenon
<1>2. ParseStart \in X
  <2> DEFINE F == {UnusedFile} \cup {FileAt(img, z) : z \in Nat}
  <2>1. NoFiles \in [Slots -> F]
    BY Zenon DEF NoFiles
  <2> HIDE DEF F
  <2>2. ParseStart \in [off : Nat, next : Nat, status : {"reading", "end", "panic"}, files : [Slots -> F]]
    BY <2>1, SMT DEF ParseStart
  <2> QED
    BY <2>2, Zenon DEF ParseStates, F
<1>3. ASSUME NEW p \in X PROVE ReadHeader(img, p) \in X
  BY ReadHeaderIs, Zenon
<1> HIDE DEF n, X
<1>4. step \in [X \X (1 .. n) -> X]
  <2>1. ASSUME NEW y \in X \X (1 .. n) PROVE ReadHeader(img, y[1]) \in X
    BY <1>3, Zenon
  <2> QED
    BY <2>1, Zenon
<1>5. PICK g : IsLoop(g, n, X, ParseStart, step)
  <2> HIDE DEF step
  <2> QED
    BY <1>1, <1>2, <1>4, LoopExists, Zenon
<1>6. ParseRun(g, img)
  <2>1. ASSUME NEW k \in 0 .. n, k # 0
        PROVE  step[<<g[k - 1], k>>] = ReadHeader(img, g[k - 1])
    <3>1. k \in 1 .. n /\ k - 1 \in 0 .. n
      BY <1>1, <2>1, SMT
    <3>2. <<g[k - 1], k>> \in X \X (1 .. n)
      BY <1>5, <3>1 DEF IsLoop
    <3> QED
      BY <3>2
  <2>2. \A k \in 0 .. n : (IF k = 0 THEN ParseStart ELSE step[<<g[k - 1], k>>])
                            = (IF k = 0 THEN ParseStart ELSE ReadHeader(img, g[k - 1]))
    BY <2>1, Zenon
  <2> HIDE DEF step
  <2>3. g = [k \in 0 .. n |-> IF k = 0 THEN ParseStart ELSE ReadHeader(img, g[k - 1])]
    BY <1>5, <2>2, Zenon DEF IsLoop
  <2> QED
    BY <2>3, Zenon DEF ParseRun, n
<1>7. ParseRun(f, img)
  <2> HIDE DEF step
  <2> QED
    BY <1>6, Zenon
<1>8. Parse(img) = f[n]
  BY Zenon DEF Parse, ParseRun, ParseStart, NoFiles, n
<1> HIDE DEF f, step
<1>9. 0 \in 0 .. n /\ \A k \in 1 .. n : k \in 0 .. n /\ k # 0
  BY <1>1, SMT
<1>10. f[0] = ParseStart /\ \A k \in 1 .. n : f[k] = ReadHeader(img, f[k - 1])
  BY <1>7, <1>9, Zenon DEF ParseRun, n
<1>11. \A k \in 0 .. n : f[k] \in X
  <2> DEFINE T == {k \in 0 .. n : f[k] \in X}
  <2>1. 0 \in T
    BY <1>2, <1>9, <1>10, Zenon
  <2>2. ASSUME NEW k \in 1 .. n, k - 1 \in T PROVE k \in T
    BY <1>3, <1>9, <1>10, <2>2, Zenon
  <2>3. 0 .. n \subseteq T
    <3> HIDE DEF T
    <3> QED
      BY <1>1, <2>1, <2>2, Rounds, Zenon
  <2> QED
    BY <2>3, Zenon
<1> QED
  BY <1>8, <1>10, <1>11, Zenon DEF ParseRounds, n, X

\* The files of the first n entries as the disk img has them.
ReadFiles(img, fs, n) ==
  [i \in Slots |-> IF i < n /\ fs[i].in_use THEN FileAt(img, Start(fs, i)) ELSE UnusedFile]

\* Where the loop is after n rounds on a disk that holds the files fs.
Following(q, img, fs, n) ==
  /\ q.files = ReadFiles(img, fs, n)
  /\ IF n = 0 \/ fs[n - 1].in_use
     THEN q.status = "reading" /\ q.next = n /\ q.off = Offset(fs, n)
     ELSE q.status = "end"

\* One round on a disk that holds the files fs.
LEMMA FollowRound ==
  ASSUME NEW img \in Disks, NEW fs, NEW T, Table(fs), Layout(img, fs, T),
         NEW n \in 1 .. FILES_MAX, NEW p \in ParseStates(img), Following(p, img, fs, n - 1)
  PROVE  Following(ReadHeader(img, p), img, fs, n)
<1> DEFINE i == n - 1
           q == ReadHeader(img, p)
           s == p.off \div SECTOR_SIZE
           h == At(img, s)
<1>1. /\ FILES_MAX \in Nat /\ i \in Slots /\ i \in 0 .. FILES_MAX /\ n \in Nat /\ n # 0
      /\ \A j \in Slots : j < n <=> j < i \/ j = i
      /\ (i # 0 => i - 1 \in Slots /\ i - 1 < i)
  BY Constants, SMT DEF Slots
<1>2. Sized(fs)
  BY TableSized, Zenon
<1>3. /\ Start(fs, i) \in Nat /\ Offset(fs, i) = SECTOR_SIZE * Start(fs, i)
      /\ Offset(fs, n) = Offset(fs, i) + Step(fs, i)
  <2>1. \A j \in 0 .. FILES_MAX : Start(fs, j) \in Nat /\ Offset(fs, j) = SECTOR_SIZE * Start(fs, j)
    BY <1>2, StartIs, Zenon
  <2>2. \A j \in 1 .. FILES_MAX : Offset(fs, j) = Offset(fs, j - 1) + Step(fs, j - 1)
    BY <1>2, OffsetIs, Zenon
  <2> QED
    BY <1>1, <2>1, <2>2, Zenon
<1>4. p.off = Offset(fs, i) => s = Start(fs, i)
  BY Zenon DEF Start
<1>5. CASE fs[i].in_use
  <2>1. i = 0 \/ fs[i - 1].in_use
    BY <1>1, <1>5, Zenon DEF Table
  <2>2. p.status = "reading" /\ p.next = i /\ p.off = Offset(fs, i) /\ p.files = ReadFiles(img, fs, i)
    BY <2>1, Zenon DEF Following
  <2>3. InPlace(img, fs, i, T)
    BY <1>1, <1>5, Zenon DEF Layout
  <2>4. h.kind = "header" /\ Extent(oct2int(h.size)) = Extent(fs[i].size)
    BY <1>4, <2>2, <2>3, Zenon DEF InPlace
  <2>5. /\ q.off = p.off + Extent(oct2int(h.size)) /\ q.next = p.next + 1
        /\ q.status = "reading"
        /\ q.files = [p.files EXCEPT ![p.next] = FileAt(img, s)]
    BY <2>2, <2>4, ReadHeaderIs, Zenon
  <2>6. q.off = Offset(fs, n)
    BY <1>3, <1>5, <2>2, <2>4, <2>5, Zenon DEF Step
  <2>7. q.next = n
    BY <1>1, <2>2, <2>5, SMT
  <2>8. q.files = ReadFiles(img, fs, n)
    <3>1. ASSUME NEW j \in Slots
          PROVE  [p.files EXCEPT ![i] = FileAt(img, s)][j] = ReadFiles(img, fs, n)[j]
      <4>1. CASE j = i
        BY <1>1, <1>4, <1>5, <2>2, <4>1, Zenon DEF ReadFiles
      <4>2. CASE j # i
        BY <1>1, <2>2, <4>2, Zenon DEF ReadFiles
      <4> QED
        BY <4>1, <4>2, Zenon
    <3> HIDE DEF i, s
    <3> QED
      BY <2>2, <2>5, <3>1, Zenon DEF ReadFiles
  <2> QED
    BY <1>5, <2>5, <2>6, <2>7, <2>8, Zenon DEF Following
<1>6. CASE ~ fs[i].in_use
  <2>1. ReadFiles(img, fs, n) = ReadFiles(img, fs, i)
    <3>1. ASSUME NEW j \in Slots
          PROVE  j < n /\ fs[j].in_use <=> j < i /\ fs[j].in_use
      BY <1>1, <1>6, Zenon
    <3> QED
      BY <3>1, Zenon DEF ReadFiles
  <2>2. p.files = ReadFiles(img, fs, i)
    BY Zenon DEF Following
  <2>3. CASE i = 0 \/ fs[i - 1].in_use
    <3>1. p.status = "reading" /\ p.off = Offset(fs, i)
      BY <2>3, Zenon DEF Following
    <3>2. At(img, Start(fs, i)) = ZeroSector
      BY <1>1, <1>6, <2>3, Zenon DEF Layout
    <3>3. h.kind = "zero"
      BY <1>4, <3>1, <3>2, SMT DEF ZeroSector
    <3>4. q.status = "end" /\ q.files = p.files
      BY <3>1, <3>3, ReadHeaderIs, Zenon
    <3> QED
      BY <1>1, <1>6, <2>1, <2>2, <3>4, Zenon DEF Following
  <2>4. CASE ~ (i = 0 \/ fs[i - 1].in_use)
    <3>1. p.status = "end"
      BY <2>4, Zenon DEF Following
    <3>2. p.status # "reading"
      BY <3>1, SMT
    <3>3. q = p
      BY <3>2, ReadHeaderIs, Zenon
    <3> QED
      BY <1>1, <1>6, <2>1, <2>2, <3>1, <3>3, Zenon DEF Following
  <2> QED
    BY <2>3, <2>4, Zenon
<1> QED
  BY <1>5, <1>6, Zenon

\* fs_init on a disk that holds the files fs finds each of them at its place.
LEMMA ParseReads ==
  ASSUME NEW img \in Disks, NEW fs, NEW T, Table(fs), Layout(img, fs, T)
  PROVE  /\ Parse(img).status # "panic"
         /\ \A i \in Slots : /\ fs[i].in_use => Parse(img).files[i] = FileAt(img, Start(fs, i))
                             /\ ~ fs[i].in_use => Parse(img).files[i] = UnusedFile
<1>1. PICK r : ParseRounds(r, img)
  BY ParseRuns, Zenon
<1> DEFINE n == FILES_MAX
           D == {k \in 0 .. n : Following(r[k], img, fs, k)}
<1>2. n \in Nat
  BY Constants, Zenon
<1>3. 0 \in D
  <2>1. r[0] = ParseStart /\ 0 \in 0 .. n
    BY <1>1, <1>2, SMT DEF ParseRounds
  <2>2. /\ ParseStart.off = 0 /\ ParseStart.next = 0 /\ ParseStart.status = "reading"
        /\ ParseStart.files = NoFiles
    BY SMT DEF ParseStart
  <2>3. Offset(fs, 0) = 0
    BY TableSized, OffsetIs, Zenon
  <2>4. ReadFiles(img, fs, 0) = NoFiles
    <3>1. \A i \in Slots : ~ (i < 0)
      BY SMT DEF Slots
    <3> QED
      BY <3>1, Zenon DEF ReadFiles, NoFiles
  <2> QED
    BY <2>1, <2>2, <2>3, <2>4, Zenon DEF Following
<1>4. ASSUME NEW k \in 1 .. n, k - 1 \in D PROVE k \in D
  <2>1. k \in 0 .. n /\ k - 1 \in 0 .. n
    BY <1>2, SMT
  <2>2. r[k] = ReadHeader(img, r[k - 1]) /\ r[k - 1] \in ParseStates(img)
    BY <1>1, <2>1, Zenon DEF ParseRounds
  <2> QED
    BY <1>4, <2>1, <2>2, FollowRound, Zenon
<1>5. 0 .. n \subseteq D
  <2> HIDE DEF D, n
  <2> QED
    BY <1>2, <1>3, <1>4, Rounds, Zenon
<1>6. n \in 0 .. n /\ \A i \in Slots : i < n
  BY <1>2, SMT DEF Slots
<1>7. Following(Parse(img), img, fs, n)
  BY <1>1, <1>5, <1>6, Zenon DEF ParseRounds
<1>8. "reading" # "panic" /\ "end" # "panic"
  BY SMT
<1> QED
  BY <1>6, <1>7, <1>8, Zenon DEF Following, ReadFiles

\* The files that the loop has taken over after n rounds lie on the disk one
\* behind the other.
Made(q, img, n) ==
  LET fs == q.files
  IN  /\ q.next \in 0 .. n
      /\ q.status = "reading" => q.next = n
      /\ q.off = Offset(fs, q.next)
      /\ fs = [i \in Slots |-> fs[i]]
      /\ \A i \in Slots : IF i < q.next
                          THEN /\ fs[i] = FileAt(img, Start(fs, i))
                               /\ At(img, Start(fs, i)).kind = "header"
                          ELSE fs[i] = UnusedFile
      /\ q.status = "end" => At(img, Start(fs, q.next)) = ZeroSector

\* Files that were taken over from a disk have sizes.
LEMMA MadeSized ==
  ASSUME NEW img \in Disks, NEW n, NEW q, Made(q, img, n)
  PROVE  /\ Sized(q.files)
         /\ \A i \in Slots : IF i < q.next THEN UsedFile(q.files[i]) /\ q.files[i].in_use
                             ELSE ~ q.files[i].in_use
<1> DEFINE fs == q.files
<1>1. UnusedFile.in_use = FALSE
  BY SMT DEF UnusedFile
<1>2. ASSUME NEW i \in Slots, i < q.next
      PROVE  UsedFile(fs[i]) /\ fs[i].in_use /\ fs[i].size \in Nat
  <2> DEFINE x == FileAt(img, Start(fs, i))
  <2>1. fs[i] = x /\ At(img, Start(fs, i)).kind = "header"
    BY <1>2, Zenon DEF Made
  <2>2. UsedFile(x) /\ x.in_use
    BY <2>1, FileAtIs, Zenon
  <2>3. x.size \in Nat
    BY <2>2, SizesAreInts, Zenon DEF UsedFile
  <2> QED
    BY <2>1, <2>2, <2>3, Zenon
<1>3. ASSUME NEW i \in Slots, ~ (i < q.next) PROVE ~ fs[i].in_use
  BY <1>1, <1>3, Zenon DEF Made
<1> QED
  BY <1>2, <1>3, Zenon DEF Sized

\* A round that takes a file over.
LEMMA MadeByHeader ==
  ASSUME NEW img \in Disks, NEW n \in 1 .. FILES_MAX, NEW p \in ParseStates(img),
         Made(p, img, n - 1), p.status = "reading",
         At(img, p.off \div SECTOR_SIZE).kind = "header"
  PROVE  Made(ReadHeader(img, p), img, n)
<1> DEFINE i == n - 1
           q == ReadHeader(img, p)
           fs == p.files
           s == p.off \div SECTOR_SIZE
           h == At(img, s)
           x == FileAt(img, s)
           gs == [fs EXCEPT ![i] = x]
<1>1. /\ FILES_MAX \in Nat /\ i \in Slots /\ i \in 0 .. FILES_MAX /\ n \in Nat /\ n \in 0 .. n /\ i + 1 = n
      /\ n \in 0 .. FILES_MAX
      /\ \A j \in Slots : j < n <=> j < i \/ j = i
      /\ ~ (i < i)
  BY Constants, SMT DEF Slots
<1>2. p.next = i /\ p.off = Offset(fs, i) /\ s = Start(fs, i) /\ fs = [j \in Slots |-> fs[j]]
  BY Zenon DEF Made, Start
<1>3. /\ q.off = p.off + Extent(oct2int(h.size)) /\ q.next = n
      /\ q.status = "reading" /\ q.files = gs
  <2>1. /\ q.off = p.off + Extent(oct2int(h.size)) /\ q.next = p.next + 1
        /\ q.status = "reading" /\ q.files = [p.files EXCEPT ![p.next] = FileAt(img, s)]
    BY ReadHeaderIs, Zenon
  <2> QED
    BY <1>1, <1>2, <2>1, Zenon
<1>4. UsedFile(x) /\ x.in_use /\ x.size = oct2int(h.size) /\ x.size \in Nat
  BY FileAtIs, Zenon
<1> HIDE DEF x, i
<1>5. gs = [j \in Slots |-> gs[j]] /\ gs[i] = x /\ \A j \in Slots : j # i => gs[j] = fs[j]
  BY <1>1, <1>2, Zenon
<1> HIDE DEF gs
<1>6. Sized(fs) /\ Sized(gs)
  <2>1. Sized(fs)
    BY MadeSized, Zenon
  <2> QED
    BY <1>4, <1>5, <2>1, Zenon DEF Sized
<1>7. ASSUME NEW j \in Slots, j < n PROVE Start(gs, j) = Start(fs, j)
  <2>1. j \in 0 .. FILES_MAX /\ \A k \in Slots : k < j => k # i
    BY <1>1, <1>7, SMT DEF Slots
  <2>2. \A k \in Slots : k < j => Taken(gs, k) = Taken(fs, k)
    BY <1>5, <2>1, Zenon DEF Taken
  <2> QED
    BY <1>6, <2>1, <2>2, StartAgrees, Zenon
<1>8. q.off = Offset(gs, n)
  <2>1. Offset(gs, n) = Offset(gs, i) + Step(gs, i)
    BY <1>1, <1>6, OffsetIs, Zenon DEF i
  <2>2. Offset(gs, i) = SECTOR_SIZE * Start(gs, i) /\ Offset(fs, i) = SECTOR_SIZE * Start(fs, i)
    BY <1>1, <1>6, StartIs, Zenon
  <2>3. Start(gs, i) = Start(fs, i)
    BY <1>1, <1>7, Zenon
  <2>4. Step(gs, i) = Extent(oct2int(h.size))
    BY <1>4, <1>5, Zenon DEF Step
  <2> QED
    BY <1>2, <1>3, <2>1, <2>2, <2>3, <2>4, Zenon
<1>9. ASSUME NEW j \in Slots
      PROVE  IF j < n THEN /\ gs[j] = FileAt(img, Start(gs, j))
                           /\ At(img, Start(gs, j)).kind = "header"
             ELSE gs[j] = UnusedFile
  <2>1. CASE j = i
    BY <1>1, <1>2, <1>5, <1>7, <2>1, Zenon DEF x
  <2>2. CASE j # i
    <3>1. gs[j] = fs[j] /\ (j < n <=> j < i)
      BY <1>1, <1>5, <2>2, Zenon
    <3>2. IF j < i THEN /\ fs[j] = FileAt(img, Start(fs, j))
                        /\ At(img, Start(fs, j)).kind = "header"
          ELSE fs[j] = UnusedFile
      BY <1>2, Zenon DEF Made
    <3> QED
      BY <1>7, <3>1, <3>2, Zenon
  <2> QED
    BY <2>1, <2>2, Zenon
<1>10. q.status # "end"
  BY <1>3, SMT
<1> HIDE DEF q
<1>11. Made(q, img, n)
  BY <1>1, <1>3, <1>5, <1>8, <1>9, <1>10, Zenon DEF Made
<1> QED
  BY <1>11, Zenon DEF q

\* Any round.
LEMMA MadeRound ==
  ASSUME NEW img \in Disks, NEW n \in 1 .. FILES_MAX, NEW p \in ParseStates(img),
         Made(p, img, n - 1)
  PROVE  Made(ReadHeader(img, p), img, n)
<1> DEFINE q == ReadHeader(img, p)
           fs == p.files
           s == p.off \div SECTOR_SIZE
           h == At(img, s)
<1>1. p.next \in 0 .. n /\ (p.next = n - 1 => p.next \in 0 .. n)
  <2>1. p.next \in 0 .. n - 1
    BY Zenon DEF Made
  <2> QED
    BY <2>1, SMT
<1>2. h \in Sector /\ h.kind \in {"zero", "header", "data"} /\ (h.kind = "zero" => h = ZeroSector)
  BY AtIs, Kinds, Zenon
<1>3. CASE p.status # "reading"
  <2>1. q = p
    BY <1>3, ReadHeaderIs, Zenon
  <2>2. Made(p, img, n)
    BY <1>1, <1>3, Zenon DEF Made
  <2> QED
    BY <2>1, <2>2, Zenon
<1>4. CASE p.status = "reading" /\ h.kind = "zero"
  <2>1. q.off = p.off /\ q.next = p.next /\ q.status = "end" /\ q.files = p.files
    BY <1>4, ReadHeaderIs, Zenon
  <2>2. s = Start(fs, p.next)
    BY Zenon DEF Made, Start
  <2>3. q.status # "reading"
    BY <2>1, SMT
  <2> HIDE DEF q
  <2>4. Made(q, img, n)
    BY <1>1, <1>2, <1>4, <2>1, <2>2, <2>3, Zenon DEF Made
  <2> QED
    BY <2>4, Zenon DEF q
<1>5. CASE p.status = "reading" /\ h.kind = "data"
  <2>1. q.off = p.off /\ q.next = p.next /\ q.status = "panic" /\ q.files = p.files
    BY <1>5, ReadHeaderIs, Zenon
  <2>2. q.status # "reading" /\ q.status # "end"
    BY <2>1, SMT
  <2> HIDE DEF q
  <2>3. Made(q, img, n)
    BY <1>1, <2>1, <2>2, Zenon DEF Made
  <2> QED
    BY <2>3, Zenon DEF q
<1>6. CASE p.status = "reading" /\ h.kind = "header"
  BY <1>6, MadeByHeader, Zenon
<1> QED
  BY <1>2, <1>3, <1>4, <1>5, <1>6, Zenon

\* What fs_init takes over from any disk is a table, and, unless it stops with
\* PANIC, it has found that table on the disk.
LEMMA ParseMakes ==
  ASSUME NEW img \in Disks
  PROVE  /\ Table(Parse(img).files)
         /\ Parse(img).status # "panic" => Layout(img, Parse(img).files, {})
<1>1. PICK r : ParseRounds(r, img)
  BY ParseRuns, Zenon
<1> DEFINE n == FILES_MAX
           D == {k \in 0 .. n : Made(r[k], img, k)}
           q == Parse(img)
           fs == q.files
<1>2. n \in Nat
  BY Constants, Zenon
<1>3. 0 \in D
  <2>1. r[0] = ParseStart /\ 0 \in 0 .. n /\ 0 \in 0 .. 0
    BY <1>1, <1>2, SMT DEF ParseRounds
  <2>2. /\ ParseStart.off = 0 /\ ParseStart.next = 0 /\ ParseStart.status = "reading"
        /\ ParseStart.files = NoFiles /\ ParseStart.status # "end"
    BY SMT DEF ParseStart
  <2>3. NoFiles = [i \in Slots |-> NoFiles[i]] /\ \A i \in Slots : NoFiles[i] = UnusedFile
    BY Zenon DEF NoFiles
  <2>4. Offset(NoFiles, 0) = 0
    <3>1. UnusedFile.in_use = FALSE
      BY SMT DEF UnusedFile
    <3>2. Sized(NoFiles)
      BY <2>3, <3>1, Zenon DEF Sized
    <3> QED
      BY <3>2, OffsetIs, Zenon
  <2>5. \A i \in Slots : ~ (i < 0)
    BY SMT DEF Slots
  <2>6. Made(ParseStart, img, 0)
    BY <2>1, <2>2, <2>3, <2>4, <2>5, Zenon DEF Made
  <2> QED
    BY <2>1, <2>6, Zenon
<1>4. ASSUME NEW k \in 1 .. n, k - 1 \in D PROVE k \in D
  <2>1. k \in 0 .. n /\ k - 1 \in 0 .. n
    BY <1>2, SMT
  <2>2. r[k] = ReadHeader(img, r[k - 1]) /\ r[k - 1] \in ParseStates(img)
    BY <1>1, <2>1, Zenon DEF ParseRounds
  <2> QED
    BY <1>4, <2>1, <2>2, MadeRound, Zenon
<1>5. 0 .. n \subseteq D
  <2> HIDE DEF D, n
  <2> QED
    BY <1>2, <1>3, <1>4, Rounds, Zenon
<1>6. n \in 0 .. n
  BY <1>2, SMT
<1>7. Made(q, img, n) /\ q \in ParseStates(img)
  BY <1>1, <1>5, <1>6, Zenon DEF ParseRounds
<1> HIDE DEF D, q, n
<1>8. \A i \in Slots : IF i < q.next THEN UsedFile(fs[i]) /\ fs[i].in_use
                       ELSE ~ fs[i].in_use /\ fs[i] = UnusedFile
  BY <1>7, MadeSized, Zenon DEF Made
<1>9. q.next \in 0 .. n /\ q.status \in {"reading", "end", "panic"}
  <2>1. q.status \in {"reading", "end", "panic"}
    BY <1>7, SMT DEF ParseStates
  <2> QED
    BY <1>7, <2>1, Zenon DEF Made
<1>10. Table(fs)
  <2>1. \A i, j \in Slots : i < j /\ j < q.next => i < q.next
    BY <1>2, <1>9, SMT DEF Slots
  <2>2. fs = [i \in Slots |-> fs[i]]
    BY <1>7, Zenon DEF Made
  <2> QED
    BY <1>8, <2>1, <2>2, Zenon DEF Table
<1>11. ASSUME q.status # "panic" PROVE Layout(img, fs, {})
  <2>1. ASSUME NEW i \in Slots, fs[i].in_use PROVE InPlace(img, fs, i, {})
    <3>1. i < q.next
      BY <1>8, <2>1, Zenon
    <3>2. fs[i] = FileAt(img, Start(fs, i)) /\ At(img, Start(fs, i)).kind = "header"
      BY <1>7, <3>1, Zenon DEF Made
    <3>3. /\ FileAt(img, Start(fs, i)).name = At(img, Start(fs, i)).name
          /\ FileAt(img, Start(fs, i)).size = oct2int(At(img, Start(fs, i)).size)
      BY <3>2, FileAtIs, Zenon
    <3> QED
      BY <3>2, <3>3, Zenon DEF InPlace
  <2>2. ASSUME NEW i \in Slots, ~ fs[i].in_use, i = 0 \/ fs[i - 1].in_use
        PROVE  At(img, Start(fs, i)) = ZeroSector
    <3>1. ~ (i < q.next)
      BY <1>8, <2>2, Zenon
    <3>2. i = q.next
      <4>1. CASE i = 0
        BY <1>2, <1>9, <3>1, <4>1, SMT
      <4>2. CASE i # 0 /\ fs[i - 1].in_use
        <5>1. i - 1 \in Slots
          BY <4>2, Constants, SMT DEF Slots
        <5>2. i - 1 < q.next
          BY <1>8, <4>2, <5>1, Zenon
        <5> QED
          BY <1>2, <1>9, <3>1, <5>2, SMT DEF Slots
      <4> QED
        BY <2>2, <4>1, <4>2, Zenon
    <3>3. q.next # n
      BY <1>2, <3>2, SMT DEF Slots, n
    <3>4. q.status = "end"
      BY <1>7, <1>9, <1>11, <3>3, Zenon DEF Made
    <3> QED
      BY <1>7, <3>2, <3>4, Zenon DEF Made
  <2> QED
    BY <2>1, <2>2, Zenon DEF Layout
<1> QED
  BY <1>10, <1>11, Zenon DEF q

\* Where the loop is after n rounds on a disk that is readable by gs.
Guiding(q, gs, n) ==
  /\ q.status # "panic"
  /\ q.status = "reading" => /\ q.next = n /\ q.off = Offset(gs, n)
                             /\ n = 0 \/ gs[n - 1].in_use
  /\ Follows(q.files, gs)

\* One round on such a disk.
LEMMA GuidedRound ==
  ASSUME NEW img \in Disks, NEW gs, Table(gs), Readable(img, gs),
         NEW n \in 1 .. FILES_MAX, NEW p \in ParseStates(img), Guiding(p, gs, n - 1)
  PROVE  Guiding(ReadHeader(img, p), gs, n)
<1> DEFINE i == n - 1
           q == ReadHeader(img, p)
           s == p.off \div SECTOR_SIZE
           h == At(img, s)
<1>1. i \in Slots /\ n \in Nat /\ n # 0 /\ i + 1 = n
  BY Constants, SMT DEF Slots
<1>2. Offset(gs, n) = Offset(gs, i) + Step(gs, i)
  BY TableSized, OffsetIs, Zenon
<1>3. CASE p.status # "reading"
  <2>1. q = p
    BY <1>3, ReadHeaderIs, Zenon
  <2>2. Guiding(p, gs, n)
    BY <1>3, Zenon DEF Guiding
  <2> QED
    BY <2>1, <2>2, Zenon
<1>4. CASE p.status = "reading"
  <2>1. p.next = i /\ p.off = Offset(gs, i) /\ (i = 0 \/ gs[i - 1].in_use) /\ Follows(p.files, gs)
    BY <1>4, Zenon DEF Guiding
  <2>2. s = Start(gs, i)
    BY <2>1, Zenon DEF Start
  <2>3. CASE h = ZeroSector
    <3>1. h.kind = "zero"
      BY <2>3, SMT DEF ZeroSector
    <3>2. q.status = "end" /\ q.files = p.files
      BY <1>4, <3>1, ReadHeaderIs, Zenon
    <3>3. q.status # "panic" /\ q.status # "reading"
      BY <3>2, SMT
    <3> HIDE DEF q
    <3>4. Guiding(q, gs, n)
      BY <2>1, <3>2, <3>3, Zenon DEF Guiding
    <3> QED
      BY <3>4, Zenon DEF q
  <2>4. CASE gs[i].in_use /\ h.kind = "header" /\ Extent(oct2int(h.size)) = Extent(gs[i].size)
    <3> DEFINE x == FileAt(img, s)
    <3>1. /\ q.off = p.off + Extent(oct2int(h.size)) /\ q.next = p.next + 1
          /\ q.status = "reading" /\ q.files = [p.files EXCEPT ![p.next] = x]
      BY <1>4, <2>4, ReadHeaderIs, Zenon
    <3>2. x.size = oct2int(h.size)
      BY <2>4, FileAtIs, Zenon
    <3>3. q.off = Offset(gs, n)
      BY <1>2, <2>1, <2>4, <3>1, Zenon DEF Step
    <3>4. q.next = n
      BY <1>1, <2>1, <3>1, Zenon
    <3>5. p.files = [j \in Slots |-> p.files[j]]
      <4> DEFINE X == {UnusedFile} \cup {FileAt(img, z) : z \in Nat}
      <4>1. p \in [off : Nat, next : Nat, status : {"reading", "end", "panic"}, files : [Slots -> X]]
        BY Zenon DEF ParseStates
      <4> HIDE DEF X
      <4>2. p.files \in [Slots -> X]
        BY <4>1, SMT
      <4> QED
        BY <4>2, Zenon
    <3> HIDE DEF x, i, s, q
    <3>6. \A j \in Slots : q.files[j] = IF j = i THEN x ELSE p.files[j]
      BY <1>1, <2>1, <3>1, <3>5, Zenon
    <3>7. Follows(q.files, gs)
      <4>1. ASSUME NEW j \in Slots, q.files[j].in_use
            PROVE  gs[j].in_use /\ Extent(q.files[j].size) = Extent(gs[j].size)
        <5>1. CASE j = i
          BY <2>4, <3>2, <3>6, <5>1, Zenon
        <5>2. CASE j # i
          BY <2>1, <3>6, <4>1, <5>2, Zenon DEF Follows
        <5> QED
          BY <5>1, <5>2, Zenon
      <4> QED
        BY <4>1, Zenon DEF Follows
    <3>8. q.status # "panic"
      BY <3>1, SMT
    <3>9. gs[n - 1].in_use
      BY <2>4, Zenon DEF i
    <3>10. Guiding(q, gs, n)
      BY <3>3, <3>4, <3>7, <3>8, <3>9, Zenon DEF Guiding
    <3> QED
      BY <3>10, Zenon DEF q
  <2>5. \/ h = ZeroSector
        \/ gs[i].in_use /\ h.kind = "header" /\ Extent(oct2int(h.size)) = Extent(gs[i].size)
    <3> HIDE DEF i, s
    <3> QED
      BY <1>1, <2>1, <2>2, Zenon DEF Readable
  <2> QED
    BY <2>3, <2>4, <2>5, Zenon
<1> QED
  BY <1>3, <1>4, Zenon

\* fs_init does not stop with PANIC on a disk that is readable by some table,
\* and takes over files of the sizes of that table.
LEMMA GuidedParse ==
  ASSUME NEW img \in Disks, NEW gs, Table(gs), Readable(img, gs)
  PROVE  Parse(img).status # "panic" /\ Follows(Parse(img).files, gs)
<1>1. PICK r : ParseRounds(r, img)
  BY ParseRuns, Zenon
<1> DEFINE n == FILES_MAX
           D == {k \in 0 .. n : Guiding(r[k], gs, k)}
<1>2. n \in Nat
  BY Constants, Zenon
<1>3. 0 \in D
  <2>1. r[0] = ParseStart /\ 0 \in 0 .. n
    BY <1>1, <1>2, SMT DEF ParseRounds
  <2>2. /\ ParseStart.off = 0 /\ ParseStart.next = 0 /\ ParseStart.status # "panic"
        /\ ParseStart.files = NoFiles
    BY SMT DEF ParseStart
  <2>3. Offset(gs, 0) = 0
    BY TableSized, OffsetIs, Zenon
  <2>4. Follows(NoFiles, gs)
    <3>1. UnusedFile.in_use = FALSE
      BY SMT DEF UnusedFile
    <3> QED
      BY <3>1, Zenon DEF NoFiles, Follows
  <2> QED
    BY <2>1, <2>2, <2>3, <2>4, Zenon DEF Guiding
<1>4. ASSUME NEW k \in 1 .. n, k - 1 \in D PROVE k \in D
  <2>1. k \in 0 .. n /\ k - 1 \in 0 .. n
    BY <1>2, SMT
  <2>2. r[k] = ReadHeader(img, r[k - 1]) /\ r[k - 1] \in ParseStates(img)
    BY <1>1, <2>1, Zenon DEF ParseRounds
  <2> QED
    BY <1>4, <2>1, <2>2, GuidedRound, Zenon
<1>5. 0 .. n \subseteq D
  <2> HIDE DEF D, n
  <2> QED
    BY <1>2, <1>3, <1>4, Rounds, Zenon
<1>6. n \in 0 .. n
  BY <1>2, SMT
<1>7. Guiding(Parse(img), gs, n)
  BY <1>1, <1>5, <1>6, Zenon DEF ParseRounds
<1> QED
  BY <1>7, Zenon DEF Guiding

\* A disk that holds the files gs is readable by gs.
LEMMA LayoutReadable ==
  ASSUME NEW img, NEW gs, NEW T, Layout(img, gs, T)
  PROVE  Readable(img, gs)
BY Zenon DEF Layout, InPlace, Readable

\* A disk with some sectors of each of two disks that are readable by gs, and
\* zeroes in the place of others.
LEMMA ReadableMix ==
  ASSUME NEW a, NEW b, NEW img, NEW gs, Readable(a, gs), Readable(b, gs),
         \A s : At(img, s) \in {At(a, s), At(b, s), ZeroSector}
  PROVE  Readable(img, gs)
<1>1. ASSUME NEW i \in Slots
      PROVE  LET h == At(img, Start(gs, i))
             IN  \/ h = ZeroSector
                 \/ gs[i].in_use /\ h.kind = "header" /\ Extent(oct2int(h.size)) = Extent(gs[i].size)
                 \/ ~ gs[i].in_use /\ i # 0 /\ ~ gs[i - 1].in_use
  <2> DEFINE s == Start(gs, i)
  <2>1. At(img, s) = At(a, s) \/ At(img, s) = At(b, s) \/ At(img, s) = ZeroSector
    BY Zenon
  <2>2. CASE At(img, s) = At(a, s)
    BY <2>2, Zenon DEF Readable
  <2>3. CASE At(img, s) = At(b, s)
    BY <2>3, Zenon DEF Readable
  <2> QED
    BY <2>1, <2>2, <2>3, Zenon
<1> QED
  BY <1>1, Zenon DEF Readable
-----------------------------------------------------------------------------
(* fs_flush: the image of a table. *)

\* The entry that has the sector s, and what of it is there.
Place(fs, i, s) == s - Start(fs, i)
Here(fs, s) == {i \in Slots : fs[i].in_use /\ Place(fs, i, s) \in {0} \cup DataSectors(fs[i].size)}
Written(fs, i, k) == IF k = 0 THEN Header(fs[i]) ELSE fs[i].data[k]

\* The image, sector by sector.
LEMMA ImageIs ==
  ASSUME NEW fs
  PROVE  Image(fs) = [s \in Sectors |->
                        IF Here(fs, s) = {} THEN ZeroSector
                        ELSE Written(fs, CHOOSE j \in Here(fs, s) : TRUE,
                                     Place(fs, CHOOSE j \in Here(fs, s) : TRUE, s))]
  BY Zenon DEF Image, Here, Place, Written, Start

\* A file in use, in sectors.
LEMMA UsedIs ==
  ASSUME NEW fs, Table(fs), NEW i \in Slots, fs[i].in_use
  PROVE  /\ UsedFile(fs[i]) /\ fs[i].size \in Nat
         /\ Start(fs, i) \in Nat
         /\ Taken(fs, i) = Blocks(fs[i].size) /\ Blocks(fs[i].size) \in Nat /\ 1 <= Blocks(fs[i].size)
         /\ DataSectors(fs[i].size) = 1 .. Blocks(fs[i].size) - 1
         /\ {0} \cup DataSectors(fs[i].size) = 0 .. Blocks(fs[i].size) - 1
<1>1. UsedFile(fs[i]) /\ Sized(fs)
  BY TableSized, Zenon
<1>2. fs[i].size \in Nat
  BY <1>1, SizesAreInts, Zenon DEF UsedFile
<1>3. i \in 0 .. FILES_MAX
  BY Constants, SMT DEF Slots
<1>4. Start(fs, i) \in Nat
  BY <1>1, <1>3, StartIs, Zenon
<1> DEFINE b == Blocks(fs[i].size)
<1>5. b \in Nat /\ 1 <= b /\ DataSectors(fs[i].size) = 1 .. b - 1
  BY <1>2, ExtentIs, Zenon
<1> HIDE DEF b
<1>6. {0} \cup (1 .. b - 1) = 0 .. b - 1
  BY <1>5, SMT
<1> QED
  BY <1>1, <1>2, <1>4, <1>5, <1>6, Zenon DEF Taken, b

\* No two files have a sector in common.
LEMMA HereOne ==
  ASSUME NEW fs, Table(fs), NEW i \in Slots, fs[i].in_use,
         NEW k \in {0} \cup DataSectors(fs[i].size)
  PROVE  Here(fs, Start(fs, i) + k) = {i} /\ Place(fs, i, Start(fs, i) + k) = k
<1> DEFINE a == Start(fs, i)
           b == Blocks(fs[i].size)
           s == a + k
<1>1. a \in Nat /\ b \in Nat /\ k \in 0 .. b - 1 /\ Taken(fs, i) = b
  BY UsedIs, Zenon
<1>2. Sized(fs)
  BY TableSized, Zenon
<1> HIDE DEF a, b
<1>3. s - a = k /\ s \in Nat
  BY <1>1, SMT
<1>4. i \in Here(fs, s)
  BY <1>3, Zenon DEF Here, Place, a
<1>5. ASSUME NEW j \in Here(fs, s) PROVE j = i
  <2>1. j \in Slots /\ fs[j].in_use /\ s - Start(fs, j) \in {0} \cup DataSectors(fs[j].size)
    BY Zenon DEF Here, Place
  <2> DEFINE c == Start(fs, j)
             d == Blocks(fs[j].size)
  <2>2. c \in Nat /\ d \in Nat /\ s - c \in 0 .. d - 1 /\ Taken(fs, j) = d
    BY <2>1, UsedIs, Zenon
  <2>3. /\ FILES_MAX \in Nat /\ i \in 0 .. FILES_MAX /\ j \in 0 .. FILES_MAX
        /\ (i = j \/ i < j \/ j < i)
    BY <2>1, Constants, SMT DEF Slots
  <2>4. CASE i < j
    <3>1. a + b <= c
      BY <1>1, <1>2, <2>2, <2>3, <2>4, StartsRise, Zenon DEF a
    <3> HIDE DEF c, d
    <3> QED
      BY <1>1, <1>3, <2>2, <3>1, SMT
  <2>5. CASE j < i
    <3>1. c + d <= a
      BY <1>1, <1>2, <2>1, <2>2, <2>3, <2>5, StartsRise, Zenon DEF a
    <3> HIDE DEF c, d
    <3> QED
      BY <1>1, <1>3, <2>2, <3>1, SMT
  <2> QED
    BY <2>3, <2>4, <2>5, Zenon
<1>6. Here(fs, s) = {i}
  BY <1>4, <1>5, Zenon
<1> QED
  BY <1>3, <1>6, Zenon DEF Place, a

\* Each file is in the image where its offset says.
LEMMA ImageFile ==
  ASSUME NEW fs, Table(fs), NEW i \in Slots, fs[i].in_use,
         NEW k \in {0} \cup DataSectors(fs[i].size), Start(fs, i) + k \in Sectors
  PROVE  Image(fs)[Start(fs, i) + k] = Written(fs, i, k)
<1> DEFINE s == Start(fs, i) + k
<1>1. Here(fs, s) = {i} /\ Place(fs, i, s) = k
  BY HereOne, Zenon
<1>2. (CHOOSE j \in Here(fs, s) : TRUE) = i /\ Here(fs, s) # {}
  BY <1>1, Zenon
<1> HIDE DEF s
<1>3. s \in Sectors
  BY Zenon DEF s
<1>4. Image(fs)[s] = Written(fs, i, Place(fs, i, s))
  BY <1>2, <1>3, ImageIs, Zenon
<1> QED
  BY <1>1, <1>4, Zenon DEF s

\* Behind the last file the image is zero.
LEMMA ImageEnd ==
  ASSUME NEW fs, Table(fs), NEW i \in Slots, ~ fs[i].in_use, Start(fs, i) \in Sectors
  PROVE  Image(fs)[Start(fs, i)] = ZeroSector
<1> DEFINE s == Start(fs, i)
<1>1. Sized(fs)
  BY TableSized, Zenon
<1>2. FILES_MAX \in Nat /\ i \in 0 .. FILES_MAX
  BY Constants, SMT DEF Slots
<1>3. s \in Nat
  BY <1>1, <1>2, StartIs, Zenon
<1>4. ASSUME NEW j \in Here(fs, s) PROVE FALSE
  <2>1. j \in Slots /\ fs[j].in_use /\ s - Start(fs, j) \in {0} \cup DataSectors(fs[j].size)
    BY Zenon DEF Here, Place
  <2>2. j < i
    <3>1. j # i /\ ~ (i < j)
      BY <2>1, Zenon DEF Table
    <3> QED
      BY <1>2, <2>1, <3>1, SMT DEF Slots
  <2> DEFINE c == Start(fs, j)
             d == Blocks(fs[j].size)
  <2>3. c \in Nat /\ d \in Nat /\ s - c \in 0 .. d - 1 /\ Taken(fs, j) = d
    BY <2>1, UsedIs, Zenon
  <2>4. c + d <= s
    BY <1>1, <1>2, <2>1, <2>2, <2>3, StartsRise, Zenon
  <2> HIDE DEF c, d, s
  <2> QED
    BY <1>3, <2>3, <2>4, SMT
<1>5. Here(fs, s) = {}
  BY <1>4, Zenon
<1> HIDE DEF s
<1>6. Image(fs)[s] = ZeroSector
  BY <1>5, ImageIs, Zenon DEF s
<1> QED
  BY <1>6, Zenon DEF s

\* The header of a file in use says its name and its size.
LEMMA HeaderIs ==
  ASSUME NEW f, UsedFile(f)
  PROVE  /\ Header(f) \in Headers /\ Header(f).kind = "header"
         /\ Header(f).name = f.name /\ Header(f).size = octal(f.size)
         /\ oct2int(octal(f.size)) = f.size
<1> DEFINE o == octal(f.size)
           h == [kind |-> "header", name |-> f.name, size |-> o]
<1>1. f.size \in 0 .. DATA_SIZE /\ f.name \in Names
  BY Zenon DEF UsedFile
<1>2. o \in Fields /\ oct2int(o) = f.size
  BY <1>1, SizesAreInts, OctalRead, Zenon
<1> HIDE DEF o
<1>3. /\ h \in [kind : {"header"}, name : Names, size : Fields]
      /\ h.kind = "header" /\ h.name = f.name /\ h.size = o
  BY <1>1, <1>2, SMT
<1>4. Header(f) = h
  BY Zenon DEF Header, o
<1> HIDE DEF h
<1>5. h \in Headers
  BY <1>1, <1>2, <1>3, Zenon DEF Headers
<1> QED
  BY <1>2, <1>3, <1>4, <1>5, Zenon DEF o

\* The image is made of sectors, whether it fits or not.
LEMMA ImageTyped ==
  ASSUME NEW fs, Table(fs)
  PROVE  Image(fs) \in Disks
<1>1. ASSUME NEW i \in Slots, fs[i].in_use, NEW k \in {0} \cup DataSectors(fs[i].size)
      PROVE  Written(fs, i, k) \in Sector
  <2>1. UsedFile(fs[i])
    BY <1>1, UsedIs, Zenon
  <2>2. Header(fs[i]) \in Sector
    BY <2>1, HeaderIs, Zenon DEF Sector
  <2>3. k # 0 => fs[i].data[k] \in Sector
    BY <2>1, Zenon DEF UsedFile
  <2> QED
    BY <2>2, <2>3, Zenon DEF Written
<1>2. ASSUME NEW s \in Sectors, Here(fs, s) # {}
      PROVE  LET j == CHOOSE i \in Here(fs, s) : TRUE IN Written(fs, j, Place(fs, j, s)) \in Sector
  <2> DEFINE j == CHOOSE i \in Here(fs, s) : TRUE
  <2>1. j \in Here(fs, s)
    BY <1>2, Zenon
  <2> HIDE DEF j
  <2>2. j \in Slots /\ fs[j].in_use /\ Place(fs, j, s) \in {0} \cup DataSectors(fs[j].size)
    BY <2>1, Zenon DEF Here
  <2>3. Written(fs, j, Place(fs, j, s)) \in Sector
    BY <1>1, <2>2, Zenon
  <2> QED
    BY <2>3, Zenon DEF j
<1>3. ZeroSector \in Sector
  BY Zenon DEF Sector
<1> QED
  BY <1>2, <1>3, ImageIs, Zenon DEF Disks

\* The files of an image that fits are on the disk.
LEMMA Fitting ==
  ASSUME NEW fs, Table(fs), Fits(fs), NEW i \in Slots, fs[i].in_use,
         NEW k \in {0} \cup DataSectors(fs[i].size)
  PROVE  Start(fs, i) + k \in Sectors
<1> DEFINE a == Start(fs, i)
           b == Blocks(fs[i].size)
           e == Start(fs, FILES_MAX)
<1>1. a \in Nat /\ b \in Nat /\ k \in 0 .. b - 1 /\ Taken(fs, i) = b
  BY UsedIs, Zenon
<1>2. Sized(fs)
  BY TableSized, Zenon
<1>3. FILES_MAX \in Nat /\ FILES_MAX \in 0 .. FILES_MAX /\ i < FILES_MAX /\ DISK_SECTORS \in Nat
  BY Constants, SMT DEF Slots
<1>4. e \in Nat /\ Offset(fs, FILES_MAX) = SECTOR_SIZE * e
  BY <1>2, <1>3, StartIs, Zenon
<1>5. a + b <= e
  BY <1>1, <1>2, <1>3, StartsRise, Zenon
<1> HIDE DEF a, b, e
<1>6. e <= DISK_SECTORS
  <2>1. SECTOR_SIZE * e <= DISK_SECTORS * SECTOR_SIZE
    BY <1>4, Zenon DEF Fits, SECTOR_SIZE
  <2> QED
    BY <1>3, <1>4, <2>1, Constants, SMT DEF SECTOR_SIZE
<1>7. a + k \in Sectors
  BY <1>1, <1>3, <1>4, <1>5, <1>6, SMT DEF Sectors
<1> QED
  BY <1>7, Zenon DEF a

\* The sectors of the files fs, with headers that say their sizes in one form
\* or the other.
Holds(img, fs) ==
  \A i \in Slots :
    IF fs[i].in_use
    THEN /\ At(img, Start(fs, i)).kind = "header"
         /\ At(img, Start(fs, i)).name = fs[i].name
         /\ oct2int(At(img, Start(fs, i)).size) = fs[i].size
         /\ \A k \in DataSectors(fs[i].size) : At(img, Start(fs, i) + k) = fs[i].data[k]
    ELSE At(img, Start(fs, i)) = ZeroSector

\* They are a layout of the files.
LEMMA HoldsLayout ==
  ASSUME NEW img \in Disks, NEW fs, Table(fs), Holds(img, fs)
  PROVE  Layout(img, fs, {})
<1>1. ASSUME NEW i \in Slots, fs[i].in_use PROVE InPlace(img, fs, i, {})
  <2> DEFINE f == fs[i]
             s == Start(fs, i)
             h == At(img, s)
             g == FileAt(img, s)
  <2>1. /\ h.kind = "header" /\ h.name = f.name /\ oct2int(h.size) = f.size
        /\ \A k \in DataSectors(f.size) : At(img, s + k) = f.data[k]
    BY <1>1, Zenon DEF Holds
  <2>2. UsedFile(f)
    BY <1>1, UsedIs, Zenon
  <2>3. /\ UsedFile(g) /\ g.name = h.name /\ g.size = oct2int(h.size)
        /\ g.data = DataAt(img, s, f.size)
    <3>1. /\ UsedFile(g) /\ g.name = h.name /\ g.size = oct2int(h.size)
          /\ g.data = DataAt(img, s, oct2int(h.size))
      BY <2>1, FileAtIs, Zenon
    <3> QED
      BY <2>1, <3>1, Zenon
  <2>4. g.data = Bytes(f.size, f.data)
    BY <2>1, <2>3, Zenon DEF Bytes, DataAt
  <2>5. g = f
    BY <2>1, <2>2, <2>3, <2>4, Zenon DEF UsedFile
  <2> QED
    BY <2>1, <2>5, Zenon DEF InPlace
<1> QED
  BY <1>1, Zenon DEF Layout, Holds

\* The image that fs_flush builds of files that fit holds them.
LEMMA ImageLayout ==
  ASSUME NEW fs, Table(fs), Fits(fs)
  PROVE  Layout(Image(fs), fs, {})
<1> DEFINE img == Image(fs)
<1>1. img \in Disks
  BY ImageTyped, Zenon
<1>2. ASSUME NEW i \in Slots, fs[i].in_use, NEW k \in {0} \cup DataSectors(fs[i].size)
      PROVE  At(img, Start(fs, i) + k) = Written(fs, i, k)
  <2>1. Start(fs, i) + k \in Sectors
    BY <1>2, Fitting, Zenon
  <2> QED
    BY <1>2, <2>1, ImageFile, Zenon DEF At
<1>3. ASSUME NEW i \in Slots, ~ fs[i].in_use PROVE At(img, Start(fs, i)) = ZeroSector
  BY <1>3, ImageEnd, Zenon DEF At
<1>4. ASSUME NEW i \in Slots, fs[i].in_use
      PROVE  /\ At(img, Start(fs, i)) = Header(fs[i])
             /\ \A k \in DataSectors(fs[i].size) : At(img, Start(fs, i) + k) = fs[i].data[k]
  <2>1. Start(fs, i) \in Nat /\ DataSectors(fs[i].size) = 1 .. Blocks(fs[i].size) - 1 /\ Blocks(fs[i].size) \in Nat
    BY <1>4, UsedIs, Zenon
  <2>2. Start(fs, i) + 0 = Start(fs, i)
    BY <2>1, SMT
  <2>3. 0 \notin DataSectors(fs[i].size)
    BY <2>1, SMT
  <2>4. 0 \in {0} \cup DataSectors(fs[i].size)
    BY Zenon
  <2>5. At(img, Start(fs, i) + 0) = Written(fs, i, 0)
    BY <1>2, <1>4, <2>4, Zenon
  <2>6. At(img, Start(fs, i)) = Header(fs[i])
    BY <2>2, <2>5, Zenon DEF Written
  <2>7. ASSUME NEW k \in DataSectors(fs[i].size) PROVE At(img, Start(fs, i) + k) = fs[i].data[k]
    BY <1>2, <1>4, <2>3, Zenon DEF Written
  <2> QED
    BY <2>6, <2>7, Zenon
<1> HIDE DEF img
<1>5. ASSUME NEW i \in Slots, fs[i].in_use
      PROVE  /\ Header(fs[i]).kind = "header" /\ Header(fs[i]).name = fs[i].name
             /\ oct2int(Header(fs[i]).size) = fs[i].size
  BY <1>5, UsedIs, HeaderIs, Zenon
<1>6. Holds(img, fs)
  BY <1>3, <1>4, <1>5, Zenon DEF Holds
<1>7. Layout(img, fs, {})
  BY <1>1, <1>6, HoldsLayout, Zenon
<1> QED
  BY <1>7, Zenon DEF img

\* Tables of the same extents put their files in the same places.
LEMMA FollowsStart ==
  ASSUME NEW fs, NEW gs, Table(fs), Table(gs), Follows(fs, gs), NEW i \in Slots, fs[i].in_use
  PROVE  Start(gs, i) = Start(fs, i) /\ Taken(gs, i) = Taken(fs, i)
<1>1. Sized(fs) /\ Sized(gs)
  BY TableSized, Zenon
<1>2. ASSUME NEW j \in Slots, fs[j].in_use PROVE Taken(gs, j) = Taken(fs, j)
  <2>1. gs[j].in_use /\ Extent(fs[j].size) = Extent(gs[j].size)
    BY <1>2, Zenon DEF Follows
  <2>2. fs[j].size \in Nat /\ gs[j].size \in Nat
    BY <1>1, <1>2, <2>1, Zenon DEF Sized
  <2>3. Blocks(fs[j].size) = Blocks(gs[j].size)
    BY <2>1, <2>2, SameExtent, Zenon
  <2> QED
    BY <1>2, <2>1, <2>3, Zenon DEF Taken
<1>3. i \in 0 .. FILES_MAX
  BY Constants, SMT DEF Slots
<1>4. \A j \in Slots : j < i => fs[j].in_use
  BY Zenon DEF Table
<1>5. Start(gs, i) = Start(fs, i)
  BY <1>1, <1>2, <1>3, <1>4, StartAgrees, Zenon
<1> QED
  BY <1>2, <1>5, Zenon

\* The image of files that follow gs is readable by gs, also when it is larger
\* than the disk array.
LEMMA ImageReadable ==
  ASSUME NEW fs, NEW gs, Table(fs), Table(gs), Follows(fs, gs)
  PROVE  Readable(Image(fs), gs)
<1> DEFINE img == Image(fs)
<1>1. ASSUME NEW i \in Slots, fs[i].in_use, Start(gs, i) \in Sectors
      PROVE  LET h == At(img, Start(gs, i))
             IN  gs[i].in_use /\ h.kind = "header" /\ Extent(oct2int(h.size)) = Extent(gs[i].size)
  <2>1. Start(gs, i) = Start(fs, i) /\ gs[i].in_use /\ Extent(fs[i].size) = Extent(gs[i].size)
    BY <1>1, FollowsStart, Zenon DEF Follows
  <2>2. UsedFile(fs[i]) /\ Start(fs, i) \in Nat
    BY <1>1, UsedIs, Zenon
  <2>3. Start(fs, i) + 0 = Start(fs, i)
    BY <2>2, SMT
  <2>4. 0 \in {0} \cup DataSectors(fs[i].size) /\ Start(fs, i) + 0 \in Sectors
    BY <1>1, <2>1, <2>3, Zenon
  <2>5. img[Start(fs, i) + 0] = Written(fs, i, 0)
    BY <1>1, <2>4, ImageFile, Zenon
  <2>6. At(img, Start(gs, i)) = Header(fs[i])
    BY <1>1, <2>1, <2>3, <2>5, Zenon DEF Written, At
  <2>7. Header(fs[i]).kind = "header" /\ oct2int(Header(fs[i]).size) = fs[i].size
    BY <2>2, HeaderIs, Zenon
  <2> HIDE DEF img
  <2> QED
    BY <2>1, <2>6, <2>7, Zenon
<1>2. ASSUME NEW i \in Slots, ~ fs[i].in_use, Start(gs, i) \in Sectors
      PROVE  At(img, Start(gs, i)) = ZeroSector
  <2> DEFINE s == Start(gs, i)
  <2>1. Sized(gs) /\ FILES_MAX \in Nat /\ i \in 0 .. FILES_MAX
    <3>1. FILES_MAX \in Nat /\ i \in 0 .. FILES_MAX
      BY Constants, SMT DEF Slots
    <3> QED
      BY <3>1, TableSized, Zenon
  <2>2. s \in Nat
    BY <2>1, StartIs, Zenon
  <2>3. ASSUME NEW j \in Here(fs, s) PROVE FALSE
    <3>1. j \in Slots /\ fs[j].in_use /\ s - Start(fs, j) \in {0} \cup DataSectors(fs[j].size)
      BY Zenon DEF Here, Place
    <3>2. j < i
      <4>1. j # i /\ ~ (i < j)
        BY <1>2, <3>1, Zenon DEF Table
      <4> QED
        BY <2>1, <3>1, <4>1, SMT DEF Slots
    <3> DEFINE c == Start(fs, j)
               d == Blocks(fs[j].size)
    <3>3. c \in Nat /\ d \in Nat /\ s - c \in 0 .. d - 1 /\ Taken(fs, j) = d
      BY <3>1, UsedIs, Zenon
    <3>4. Start(gs, j) = c /\ Taken(gs, j) = d
      BY <3>1, <3>3, FollowsStart, Zenon
    <3>5. Start(gs, j) + Taken(gs, j) <= s
      BY <2>1, <3>1, <3>2, StartsRise, Zenon
    <3>6. c + d <= s
      BY <3>4, <3>5, Zenon
    <3> HIDE DEF c, d, s
    <3> QED
      BY <2>2, <3>3, <3>6, SMT
  <2>4. Here(fs, s) = {}
    BY <2>3, Zenon
  <2> HIDE DEF s
  <2>5. Image(fs)[s] = ZeroSector
    BY <1>2, <2>4, ImageIs, Zenon DEF s
  <2> QED
    BY <1>2, <2>5, Zenon DEF At, s
<1>3. ASSUME NEW i \in Slots, Start(gs, i) \notin Sectors PROVE At(img, Start(gs, i)) = ZeroSector
  BY <1>3, Zenon DEF At
<1> HIDE DEF img
<1>4. Readable(img, gs)
  BY <1>1, <1>2, <1>3, Zenon DEF Readable
<1> QED
  BY <1>4, Zenon DEF img
-----------------------------------------------------------------------------
(* The disk at the start. *)

\* len bytes of a buffer are data of that size.
LEMMA BufferIs ==
  ASSUME NEW v \in Values, NEW n \in Nat
  PROVE  /\ \A k \in DataSectors(n) : Buffer(v, n)[k] \in Sector /\ Buffer(v, n)[k].kind = "data"
         /\ Bytes(n, Buffer(v, n)) = Buffer(v, n)
<1> DEFINE x(k) == [kind |-> "data", value |-> <<v, k>>, len |-> SECTOR_SIZE]
           src == [k \in DataSectors(n) |-> x(k)]
<1>1. ASSUME NEW k \in DataSectors(n)
      PROVE  x(k) \in Sector /\ x(k).kind = "data" /\ n - (k - 1) * SECTOR_SIZE \in Nat
  <2>1. k \in Nat /\ n - (k - 1) * SECTOR_SIZE \in Nat
    BY ExtentIs, Zenon
  <2>2. <<v, k>> \in DataValues
    BY <2>1, Zenon DEF DataValues
  <2>3. /\ x(k) \in [kind : {"data"}, value : DataValues, len : Nat]
        /\ x(k).kind = "data"
    BY <2>2, SMT DEF SECTOR_SIZE
  <2> HIDE DEF x
  <2> QED
    BY <2>1, <2>3, Zenon DEF Sector
<1> HIDE DEF x
<1>2. \A k \in DataSectors(n) : src[k] \in Sector
  BY <1>1, Zenon
<1>3. Buffer(v, n) = Bytes(n, src)
  BY Zenon DEF Buffer, x
<1>4. ASSUME NEW k \in DataSectors(n) PROVE Bytes(n, src)[k].kind = "data"
  <2> DEFINE m == n - (k - 1) * SECTOR_SIZE
             c == Cut(x(k), m)
  <2>1. Bytes(n, src)[k] = c
    BY Zenon DEF Bytes
  <2>2. x(k) \in [kind : {"data"}, value : DataValues, len : Nat]
    BY <1>1, Kinds, Zenon
  <2>3. c = x(k) \/ c = [x(k) EXCEPT !.len = Min({x(k).len, m})]
    <3>1. x(k).kind # "header"
      BY <1>1, SMT
    <3> QED
      BY <3>1, Zenon DEF Cut
  <2>4. c.kind = "data"
    <3> DEFINE y == x(k)
               z == Min({x(k).len, m})
    <3>1. y \in [kind : {"data"}, value : DataValues, len : Nat] /\ (c = y \/ c = [y EXCEPT !.len = z])
      BY <2>2, <2>3, Zenon
    <3> HIDE DEF y, z, c
    <3> QED
      BY <3>1, SMT
  <2> QED
    BY <2>1, <2>4, Zenon
<1> HIDE DEF src
<1> QED
  BY <1>2, <1>3, <1>4, BytesIs, Zenon

Filled(name, n, v) == [in_use |-> TRUE, name |-> name, size |-> n, data |-> Buffer(v, n)]

WrittenWith(f, name, n, v) ==
  /\ UsedFile(f) /\ f.in_use /\ f.name = name /\ f.size = n /\ f.data = Buffer(v, n)
  /\ \A k \in DataSectors(n) : f.data[k].kind = "data"

\* A file that a buffer has been written to.
LEMMA WrittenFile ==
  ASSUME NEW name \in Names, NEW n \in 0 .. DATA_SIZE, NEW v \in Values,
         NEW f, f = Filled(name, n, v)
  PROVE  WrittenWith(f, name, n, v)
<1> DEFINE d == Buffer(v, n)
<1>1. /\ \A k \in DataSectors(n) : d[k] \in Sector /\ d[k].kind = "data"
      /\ Bytes(n, d) = d
  BY SizesAreInts, BufferIs, Zenon
<1> HIDE DEF d
<1>2. /\ f.in_use = TRUE /\ f.name = name /\ f.size = n /\ f.data = d
      /\ f = [in_use |-> TRUE, name |-> f.name, size |-> f.size, data |-> f.data]
  <2>1. f = [in_use |-> TRUE, name |-> name, size |-> n, data |-> d]
    BY Zenon DEF Filled, d
  <2> QED
    BY <2>1, SMT
<1>3. UsedFile(f)
  BY <1>1, <1>2, Zenon DEF UsedFile
<1>4. \A k \in DataSectors(n) : f.data[k].kind = "data"
  BY <1>1, <1>2, Zenon
<1> QED
  BY <1>2, <1>3, <1>4, Zenon DEF d, WrittenWith

\* The files that disk.tar may hold.
LEMMA InitialIs ==
  ASSUME NEW fs \in InitialFiles
  PROVE  /\ Table(fs)
         /\ \A i \in Slots : fs[i].in_use =>
              fs[i].size = 22 /\ \A k \in DataSectors(22) : fs[i].data[k].kind = "data"
<1> DEFINE F == {Filled(n, 22, v) : n \in Names, v \in Values}
<1>1. 22 \in 0 .. DATA_SIZE /\ 22 \in Nat
  BY Constants, SMT
<1>2. /\ fs \in [Slots -> {UnusedFile} \cup F]
      /\ \A i, j \in Slots : i < j /\ fs[j].in_use => fs[i].in_use
  BY SMT DEF InitialFiles, Filled
<1>3. ASSUME NEW f \in F
      PROVE  UsedFile(f) /\ f.size = 22 /\ \A k \in DataSectors(22) : f.data[k].kind = "data"
  <2>1. PICK n \in Names, v \in Values :
          f = Filled(n, 22, v)
    BY <1>3, SMT
  <2>2. WrittenWith(f, n, 22, v)
    BY <1>1, <2>1, WrittenFile, SMT
  <2> QED
    BY <2>2, SMT DEF WrittenWith
<1> HIDE DEF F
<1>4. ~ UnusedFile.in_use
  BY SMT DEF UnusedFile
<1>5. \A i \in Slots : fs[i] = UnusedFile \/ fs[i] \in F
  BY <1>2, Zenon
<1>6. fs = [i \in Slots |-> fs[i]]
  BY <1>2, Zenon
<1> QED
  BY <1>2, <1>3, <1>4, <1>5, <1>6, Zenon DEF Table

\* It fits the disk array.
LEMMA InitialFits ==
  ASSUME NEW fs \in InitialFiles
  PROVE  Fits(fs)
<1> DEFINE n == FILES_MAX
           T == {j \in 0 .. n : Start(fs, j) <= 2 * j}
<1>1. n \in Nat /\ DISK_SECTORS \in Nat /\ 2 * n <= DISK_SECTORS
  BY Constants, Zenon
<1>2. Sized(fs)
  BY InitialIs, TableSized, Zenon
<1>3. /\ \A j \in 0 .. n : Start(fs, j) \in Nat /\ Offset(fs, j) = SECTOR_SIZE * Start(fs, j)
      /\ Start(fs, 0) = 0
      /\ \A j \in 1 .. n : Start(fs, j) = Start(fs, j - 1) + Taken(fs, j - 1)
  BY <1>2, StartIs, Zenon
<1>4. Blocks(22) = 2
  BY SMT DEF Blocks, Extent, align_up, SECTOR_SIZE, HEADER_SIZE
<1>5. ASSUME NEW j \in Slots PROVE Taken(fs, j) \in {0, 2}
  BY <1>4, InitialIs, Zenon DEF Taken
<1>6. 0 \in T
  BY <1>1, <1>3, SMT
<1>7. ASSUME NEW j \in 1 .. n, j - 1 \in T PROVE j \in T
  <2>1. j - 1 \in Slots /\ j \in 0 .. n /\ j - 1 \in 0 .. n
    BY <1>1, SMT DEF Slots
  <2>2. /\ Taken(fs, j - 1) \in {0, 2} /\ Start(fs, j - 1) \in Nat /\ Start(fs, j - 1) <= 2 * (j - 1)
        /\ Start(fs, j) = Start(fs, j - 1) + Taken(fs, j - 1)
    BY <1>3, <1>5, <1>7, <2>1, Zenon
  <2>3. Start(fs, j) <= 2 * j
    BY <1>1, <2>2, SMT
  <2> QED
    BY <2>1, <2>3, Zenon
<1>8. n \in T
  <2>1. 0 .. n \subseteq T
    <3> HIDE DEF T, n
    <3> QED
      BY <1>1, <1>6, <1>7, Rounds, Zenon
  <2>2. n \in 0 .. n
    BY <1>1, SMT
  <2> QED
    BY <2>1, <2>2, Zenon
<1>9. Start(fs, n) <= 2 * n /\ Start(fs, n) \in Nat /\ Offset(fs, n) = SECTOR_SIZE * Start(fs, n)
  BY <1>3, <1>8, Zenon
<1> HIDE DEF n
<1>10. Offset(fs, n) <= DISK_SECTORS * SECTOR_SIZE
  BY <1>1, <1>9, Constants, SMT DEF SECTOR_SIZE, n
<1> QED
  BY <1>10, Zenon DEF Fits, SECTOR_SIZE, n

TarHeader(f) == [Header(f) EXCEPT !.size = Append(Tail(@), NUL)]

\* disk.tar holds its files.
LEMMA TarLayout ==
  ASSUME NEW fs \in InitialFiles
  PROVE  TarImage(fs) \in Disks /\ Layout(TarImage(fs), fs, {})
<1> DEFINE img == Image(fs)
           tar == TarImage(fs)
<1>1. Table(fs) /\ Fits(fs) /\ img \in Disks
  BY InitialIs, InitialFits, ImageTyped, Zenon
<1>2. ASSUME NEW s \in Sectors, img[s].kind # "header" PROVE tar[s] = img[s]
  BY <1>2, Zenon DEF TarImage
<1>3. ASSUME NEW i \in Slots, fs[i].in_use
      PROVE  LET h == TarHeader(fs[i])
             IN  /\ h \in Headers /\ h.kind = "header" /\ h.name = fs[i].name
                 /\ oct2int(h.size) = fs[i].size
  <2> DEFINE f == fs[i]
             o == Append(Tail(octal(f.size)), NUL)
             g == [kind |-> "header", name |-> f.name, size |-> o]
  <2>1. UsedFile(f)
    BY <1>1, <1>3, UsedIs, Zenon
  <2>2. f.name \in Names /\ f.size \in 0 .. DATA_SIZE
    BY <2>1, Zenon DEF UsedFile
  <2>3. o \in Fields /\ oct2int(o) = f.size
    BY <2>2, SizesAreInts, TarRead, Zenon
  <2>4. [Header(f) EXCEPT !.size = Append(Tail(@), NUL)] = g
    <3> DEFINE w == octal(f.size)
    <3> HIDE DEF w, f
    <3>1. [[kind |-> "header", name |-> f.name, size |-> w] EXCEPT !.size = Append(Tail(@), NUL)]
            = [kind |-> "header", name |-> f.name, size |-> Append(Tail(w), NUL)]
      BY SMT
    <3> QED
      BY <3>1, Zenon DEF Header, w
  <2> HIDE DEF f, o
  <2>5. /\ g \in [kind : {"header"}, name : Names, size : Fields]
        /\ g.kind = "header" /\ g.name = f.name /\ g.size = o
    BY <2>2, <2>3, SMT
  <2> HIDE DEF g
  <2>6. g \in Headers
    BY <2>2, <2>3, <2>5, Zenon DEF Headers
  <2> QED
    BY <2>3, <2>4, <2>5, <2>6, Zenon DEF f, TarHeader
<1>4. ASSUME NEW i \in Slots, fs[i].in_use
      PROVE  /\ Start(fs, i) \in Sectors
             /\ img[Start(fs, i)] = Header(fs[i])
             /\ \A k \in DataSectors(fs[i].size) :
                  Start(fs, i) + k \in Sectors /\ img[Start(fs, i) + k] = fs[i].data[k]
  <2>1. Start(fs, i) \in Nat /\ DataSectors(fs[i].size) = 1 .. Blocks(fs[i].size) - 1 /\ Blocks(fs[i].size) \in Nat
    BY <1>1, <1>4, UsedIs, Zenon
  <2>2. Start(fs, i) + 0 = Start(fs, i) /\ 0 \notin DataSectors(fs[i].size)
    BY <2>1, SMT
  <2>3. 0 \in {0} \cup DataSectors(fs[i].size)
    BY Zenon
  <2>4. Start(fs, i) + 0 \in Sectors /\ img[Start(fs, i) + 0] = Written(fs, i, 0)
    BY <1>1, <1>4, <2>3, Fitting, ImageFile, Zenon
  <2>5. ASSUME NEW k \in DataSectors(fs[i].size)
        PROVE  Start(fs, i) + k \in Sectors /\ img[Start(fs, i) + k] = Written(fs, i, k)
    BY <1>1, <1>4, Fitting, ImageFile, Zenon
  <2> QED
    BY <2>2, <2>4, <2>5, Zenon DEF Written
<1>5. ASSUME NEW i \in Slots, fs[i].in_use
      PROVE  tar[Start(fs, i)] = TarHeader(fs[i])
  <2>1. Start(fs, i) \in Sectors /\ img[Start(fs, i)] = Header(fs[i])
    BY <1>4, <1>5, Zenon
  <2>2. Header(fs[i]).kind = "header"
    BY <1>1, <1>5, UsedIs, HeaderIs, Zenon
  <2> QED
    BY <2>1, <2>2, Zenon DEF TarImage, TarHeader
<1>6. ASSUME NEW i \in Slots, fs[i].in_use, NEW k \in DataSectors(fs[i].size)
      PROVE  tar[Start(fs, i) + k] = fs[i].data[k]
  <2>1. fs[i].data[k].kind = "data"
    BY <1>6, InitialIs, Zenon
  <2>2. fs[i].data[k].kind # "header"
    BY <2>1, SMT
  <2> QED
    BY <1>2, <1>4, <1>6, <2>2, Zenon
<1>7. ASSUME NEW i \in Slots, ~ fs[i].in_use PROVE At(tar, Start(fs, i)) = ZeroSector
  <2>1. Start(fs, i) \in Sectors => img[Start(fs, i)] = ZeroSector
    BY <1>1, <1>7, ImageEnd, Zenon
  <2>2. ZeroSector.kind # "header"
    BY SMT DEF ZeroSector
  <2> QED
    BY <1>2, <2>1, <2>2, Zenon DEF At
<1>8. ASSUME NEW s \in Sectors PROVE tar[s] \in Sector
  <2>1. CASE Here(fs, s) = {}
    <3>1. img[s] = ZeroSector
      BY <2>1, ImageIs, Zenon
    <3>2. ZeroSector.kind # "header" /\ ZeroSector \in Sector
      BY SMT DEF ZeroSector, Sector
    <3> QED
      BY <1>2, <3>1, <3>2, Zenon
  <2>2. CASE Here(fs, s) # {}
    <3>1. PICK i \in Here(fs, s) : TRUE
      BY <2>2, Zenon
    <3>2. i \in Slots /\ fs[i].in_use /\ s - Start(fs, i) \in {0} \cup DataSectors(fs[i].size)
      BY <3>1, Zenon DEF Here, Place
    <3> DEFINE a == Start(fs, i)
               k == s - a
    <3>3. a \in Nat /\ s \in Int
      <4>1. s \in Int
        BY Constants, SMT DEF Sectors
      <4> QED
        BY <1>1, <3>2, <4>1, UsedIs, Zenon
    <3> HIDE DEF a
    <3>4. s = a + k /\ (k = 0 => s = a)
      BY <3>3, SMT
    <3> HIDE DEF k
    <3>5. k = 0 \/ k \in DataSectors(fs[i].size)
      BY <3>2, Zenon DEF k, a
    <3>6. CASE k = 0
      <4>1. tar[s] \in Headers
        BY <1>3, <1>5, <3>2, <3>4, <3>6, Zenon DEF a
      <4> QED
        BY <4>1, Zenon DEF Sector
    <3>7. CASE k \in DataSectors(fs[i].size)
      <4>1. tar[s] = fs[i].data[k] /\ UsedFile(fs[i])
        BY <1>1, <1>6, <3>2, <3>4, <3>7, UsedIs, Zenon DEF a
      <4> QED
        BY <3>7, <4>1, Zenon DEF UsedFile
    <3> QED
      BY <3>5, <3>6, <3>7, Zenon
  <2> QED
    BY <2>1, <2>2, Zenon
<1>9. tar \in Disks
  BY <1>8, Zenon DEF TarImage, Disks
<1> HIDE DEF tar
<1>10. ASSUME NEW i \in Slots, fs[i].in_use
       PROVE  /\ At(tar, Start(fs, i)).kind = "header"
              /\ At(tar, Start(fs, i)).name = fs[i].name
              /\ oct2int(At(tar, Start(fs, i)).size) = fs[i].size
              /\ \A k \in DataSectors(fs[i].size) : At(tar, Start(fs, i) + k) = fs[i].data[k]
  <2>1. At(tar, Start(fs, i)) = TarHeader(fs[i])
    BY <1>4, <1>5, <1>10, Zenon DEF At
  <2>2. \A k \in DataSectors(fs[i].size) : At(tar, Start(fs, i) + k) = fs[i].data[k]
    BY <1>4, <1>6, <1>10, Zenon DEF At
  <2> QED
    BY <1>3, <1>10, <2>1, <2>2, Zenon
<1>11. Holds(tar, fs)
  BY <1>7, <1>10, Zenon DEF Holds
<1> QED
  BY <1>1, <1>9, <1>11, HoldsLayout, Zenon DEF tar
-----------------------------------------------------------------------------
(* Writes. *)

\* A disk with some sectors of one that holds the files up to what is torn and
\* the others of one that holds them all.
LEMMA LayoutMix ==
  ASSUME NEW a \in Disks, NEW b \in Disks, NEW img \in Disks, NEW fs, NEW T,
         Table(fs), Layout(a, fs, T), Layout(b, fs, {}),
         \A s : At(img, s) \in {At(a, s), At(b, s)}
  PROVE  Layout(img, fs, T)
<1>1. ASSUME NEW i \in Slots, fs[i].in_use PROVE InPlace(img, fs, i, T)
  <2> DEFINE f == fs[i]
             s == Start(fs, i)
             g == FileAt(img, s)
             n == f.size
  <2>1. InPlace(a, fs, i, T) /\ InPlace(b, fs, i, {})
    BY <1>1, Zenon DEF Layout
  <2>2. /\ At(a, s).kind = "header" /\ At(a, s).name = f.name /\ Extent(oct2int(At(a, s).size)) = Extent(n)
        /\ At(b, s).kind = "header" /\ At(b, s).name = f.name /\ Extent(oct2int(At(b, s).size)) = Extent(n)
        /\ FileAt(b, s) = f
    BY <2>1, Zenon DEF InPlace
  <2>3. /\ At(img, s).kind = "header" /\ At(img, s).name = f.name
        /\ Extent(oct2int(At(img, s).size)) = Extent(n)
    <3>1. At(img, s) = At(a, s) \/ At(img, s) = At(b, s)
      BY Zenon
    <3> QED
      BY <2>2, <3>1, Zenon
  <2>4. ASSUME i \notin T PROVE g = f
    <3>1. FileAt(a, s) = f
      BY <2>1, <2>4, Zenon DEF InPlace
    <3>2. /\ oct2int(At(a, s).size) = n
          /\ f.data = DataAt(a, s, n)
      <4>1. /\ FileAt(a, s).size = oct2int(At(a, s).size)
            /\ FileAt(a, s).data = DataAt(a, s, oct2int(At(a, s).size))
        BY <2>2, FileAtIs, Zenon
      <4> QED
        BY <2>2, <3>1, <4>1, Zenon
    <3>3. /\ oct2int(At(b, s).size) = n
          /\ f.data = DataAt(b, s, n)
      <4>1. /\ FileAt(b, s).size = oct2int(At(b, s).size)
            /\ FileAt(b, s).data = DataAt(b, s, oct2int(At(b, s).size))
        BY <2>2, FileAtIs, Zenon
      <4> QED
        BY <2>2, <4>1, Zenon
    <3>4. oct2int(At(img, s).size) = n
      <4>1. At(img, s) = At(a, s) \/ At(img, s) = At(b, s)
        BY Zenon
      <4> QED
        BY <3>2, <3>3, <4>1, Zenon
    <3>5. /\ UsedFile(g) /\ g.name = f.name /\ g.size = n
          /\ g.data = DataAt(img, s, n)
      <4>1. /\ UsedFile(g) /\ g.name = At(img, s).name /\ g.size = oct2int(At(img, s).size)
            /\ g.data = DataAt(img, s, oct2int(At(img, s).size))
        BY <2>3, FileAtIs, Zenon
      <4> QED
        BY <2>3, <3>4, <4>1, Zenon
    <3>6. ASSUME NEW k \in DataSectors(n)
          PROVE  Cut(At(img, s + k), n - (k - 1) * SECTOR_SIZE) = Cut(At(a, s + k), n - (k - 1) * SECTOR_SIZE)
      <4>1. /\ f.data[k] = Cut(At(a, s + k), n - (k - 1) * SECTOR_SIZE)
            /\ f.data[k] = Cut(At(b, s + k), n - (k - 1) * SECTOR_SIZE)
        <5> HIDE DEF f, s, n
        <5> QED
          BY <3>2, <3>3, Zenon DEF DataAt
      <4>2. At(img, s + k) = At(a, s + k) \/ At(img, s + k) = At(b, s + k)
        BY Zenon
      <4> QED
        BY <4>1, <4>2, Zenon
    <3>7. g.data = f.data
      BY <3>2, <3>5, <3>6, Zenon DEF DataAt
    <3>8. UsedFile(f)
      BY <1>1, UsedIs, Zenon
    <3> QED
      BY <3>5, <3>7, <3>8, Zenon DEF UsedFile
  <2> QED
    BY <2>3, <2>4, Zenon DEF InPlace
<1>2. ASSUME NEW i \in Slots, ~ fs[i].in_use, i = 0 \/ fs[i - 1].in_use
      PROVE  At(img, Start(fs, i)) = ZeroSector
  <2>1. At(a, Start(fs, i)) = ZeroSector /\ At(b, Start(fs, i)) = ZeroSector
    BY <1>2, Zenon DEF Layout
  <2> QED
    BY <2>1, Zenon
<1> QED
  BY <1>1, <1>2, Zenon DEF Layout

\* gs is fs with the file f in entry i.
WrittenTable(gs, fs, i, f) ==
  /\ Table(gs) /\ gs[i] = f
  /\ \A j \in Slots : (j # i => gs[j] = fs[j]) /\ (gs[j].in_use <=> fs[j].in_use)

\* A write to a file leaves a table.
LEMMA TableWritten ==
  ASSUME NEW fs, Table(fs), NEW i \in Slots, fs[i].in_use, NEW f, UsedFile(f), f.in_use
  PROVE  WrittenTable([fs EXCEPT ![i] = f], fs, i, f)
<1> DEFINE gs == [fs EXCEPT ![i] = f]
<1>1. fs = [j \in Slots |-> fs[j]]
  BY Zenon DEF Table
<1>2. gs = [j \in Slots |-> gs[j]] /\ gs[i] = f /\ \A j \in Slots : j # i => gs[j] = fs[j]
  BY <1>1, Zenon
<1> HIDE DEF gs
<1>3. \A j \in Slots : gs[j].in_use <=> fs[j].in_use
  BY <1>2, Zenon
<1>4. \A j \in Slots : gs[j] = UnusedFile \/ UsedFile(gs[j])
  BY <1>2, Zenon DEF Table
<1>5. Table(gs)
  BY <1>2, <1>3, <1>4, Zenon DEF Table
<1>6. WrittenTable(gs, fs, i, f)
  BY <1>2, <1>3, <1>5, Zenon DEF WrittenTable
<1> QED
  BY <1>6, Zenon DEF gs

\* The sectors of an entry depend on that entry alone.
LEMMA SameTaken ==
  ASSUME NEW fs, NEW gs, NEW j, gs[j] = fs[j]
  PROVE  Taken(gs, j) = Taken(fs, j)
BY Zenon DEF Taken

SameSectors(gs, fs) ==
  Sized(fs) /\ Sized(gs) /\ \A j \in Slots : Taken(gs, j) = Taken(fs, j)

\* A write that moves no file leaves each entry its sectors.
LEMMA TakenWritten ==
  ASSUME NEW fs, Table(fs), NEW i \in Slots, fs[i].in_use, NEW f, UsedFile(f), f.in_use,
         Extent(f.size) = Extent(fs[i].size)
  PROVE  SameSectors([fs EXCEPT ![i] = f], fs)
<1> DEFINE gs == [fs EXCEPT ![i] = f]
<1>0. WrittenTable(gs, fs, i, f)
  BY TableWritten, Zenon
<1> HIDE DEF gs
<1>1. /\ Table(gs) /\ gs[i] = f
      /\ \A j \in Slots : (j # i => gs[j] = fs[j]) /\ (gs[j].in_use <=> fs[j].in_use)
  BY <1>0, Zenon DEF WrittenTable
<1>2. Sized(fs) /\ Sized(gs)
  BY <1>1, TableSized, Zenon
<1>3. f.size \in Nat /\ fs[i].size \in Nat
  BY UsedIs, SizesAreInts, Zenon DEF UsedFile
<1>4. Blocks(f.size) = Blocks(fs[i].size)
  BY <1>3, SameExtent, Zenon
<1>5. ASSUME NEW j \in Slots PROVE Taken(gs, j) = Taken(fs, j)
  <2>1. CASE j = i
    BY <1>1, <1>4, <2>1, Zenon DEF Taken
  <2>2. CASE j # i
    <3>1. gs[j] = fs[j]
      BY <1>1, <2>2, Zenon
    <3> QED
      BY <3>1, SameTaken, Zenon
  <2> QED
    BY <2>1, <2>2, Zenon
<1>6. SameSectors(gs, fs)
  BY <1>2, <1>5, Zenon DEF SameSectors
<1> QED
  BY <1>6, Zenon DEF gs

\* Such a write does not change whether the image fits the disk array.
LEMMA FitsWritten ==
  ASSUME NEW fs, Table(fs), NEW i \in Slots, fs[i].in_use, NEW f, UsedFile(f), f.in_use,
         Extent(f.size) = Extent(fs[i].size), NEW gs, gs = [fs EXCEPT ![i] = f], Fits(gs)
  PROVE  Fits(fs)
<1>1. /\ Sized(fs) /\ Sized(gs)
      /\ \A j \in Slots : Taken(gs, j) = Taken(fs, j)
  <2>1. SameSectors(gs, fs)
    BY TakenWritten, Zenon
  <2> QED
    BY <2>1, Zenon DEF SameSectors
<1>2. FILES_MAX \in 0 .. FILES_MAX
  BY Constants, SMT
<1>3. Start(fs, FILES_MAX) = Start(gs, FILES_MAX)
  BY <1>1, <1>2, StartAgrees, Zenon
<1>4. /\ Offset(fs, FILES_MAX) = SECTOR_SIZE * Start(fs, FILES_MAX)
      /\ Offset(gs, FILES_MAX) = SECTOR_SIZE * Start(gs, FILES_MAX)
  BY <1>1, <1>2, StartIs, Zenon
<1>5. Offset(fs, FILES_MAX) = Offset(gs, FILES_MAX)
  BY <1>3, <1>4, Zenon
<1> QED
  BY <1>5, Zenon DEF Fits

\* A write that moves no file leaves the others where they are on the disk.
LEMMA LayoutWritten ==
  ASSUME NEW img, NEW fs, Table(fs), NEW T, Layout(img, fs, T),
         NEW i \in Slots, fs[i].in_use, NEW f, UsedFile(f), f.in_use,
         f.name = fs[i].name, Extent(f.size) = Extent(fs[i].size),
         NEW gs, gs = [fs EXCEPT ![i] = f]
  PROVE  Layout(img, gs, T \cup {i})
<1>1. /\ Table(gs) /\ gs[i] = f
      /\ \A j \in Slots : (j # i => gs[j] = fs[j]) /\ (gs[j].in_use <=> fs[j].in_use)
  <2>1. WrittenTable(gs, fs, i, f)
    BY TableWritten, Zenon
  <2> QED
    BY <2>1, Zenon DEF WrittenTable
<1>2. Sized(fs) /\ Sized(gs)
  BY <1>1, TableSized, Zenon
<1>3. \A j \in Slots : Taken(gs, j) = Taken(fs, j)
  <2>1. SameSectors(gs, fs)
    BY TakenWritten, Zenon
  <2> QED
    BY <2>1, Zenon DEF SameSectors
<1>4. ASSUME NEW j \in Slots PROVE Start(gs, j) = Start(fs, j)
  <2>1. j \in 0 .. FILES_MAX
    BY Constants, SMT DEF Slots
  <2> QED
    BY <1>2, <1>3, <2>1, StartAgrees, Zenon
<1>5. ASSUME NEW j \in Slots, gs[j].in_use PROVE InPlace(img, gs, j, T \cup {i})
  <2>1. InPlace(img, fs, j, T)
    BY <1>1, <1>5, Zenon DEF Layout
  <2>2. CASE j = i
    BY <1>1, <1>4, <2>1, <2>2, Zenon DEF InPlace
  <2>3. CASE j # i
    BY <1>1, <1>4, <2>1, <2>3, Zenon DEF InPlace
  <2> QED
    BY <2>2, <2>3, Zenon
<1>6. ASSUME NEW j \in Slots, ~ gs[j].in_use, j = 0 \/ gs[j - 1].in_use
      PROVE  At(img, Start(gs, j)) = ZeroSector
  <2>1. j # 0 => j - 1 \in Slots
    BY Constants, SMT DEF Slots
  <2>2. ~ fs[j].in_use /\ (j = 0 \/ fs[j - 1].in_use)
    BY <1>1, <1>6, <2>1, Zenon
  <2> QED
    BY <1>4, <2>2, Zenon DEF Layout
<1> QED
  BY <1>5, <1>6, Zenon DEF Layout
-----------------------------------------------------------------------------
(* The invariant, action by action. *)

\* Nothing is in memory before fs_init.
LEMMA NoFilesTable == Table(NoFiles) /\ \A i \in Slots : ~ NoFiles[i].in_use
<1>1. ~ UnusedFile.in_use
  BY SMT DEF UnusedFile
<1> QED
  BY <1>1, Zenon DEF NoFiles, Table

\* A disk of zeroes is a disk.
LEMMA ZeroesTyped == Zeroes \in Disks
  BY Zenon DEF Zeroes, Disks, Sector

\* The invariant holds at the start.
LEMMA InitIInv == Init => IInv
<1> SUFFICES ASSUME Init PROVE IInv
  OBVIOUS
<1>1. PICK fs \in InitialFiles : platter = TarImage(fs)
  BY Zenon DEF Init
<1>2. Table(fs) /\ platter \in Disks /\ Layout(platter, fs, {})
  BY <1>1, InitialIs, TarLayout, Zenon
<1>3. Parse(platter).status # "panic"
  BY <1>2, ParseReads, Zenon
<1>4. Table(files) /\ disk \in Disks
  BY NoFilesTable, ZeroesTyped, Zenon DEF Init
<1>5. pc = "down" /\ sector \in Nat /\ torn = {} /\ moved = FALSE /\ missed = FALSE
  BY SMT DEF Init
<1>6. pc # "flush" /\ pc # "idle" /\ pc # "panic"
  BY <1>5, SMT
<1> QED
  BY <1>2, <1>3, <1>4, <1>5, <1>6, Zenon DEF IInv, TypeOK, InStep

\* fs_init.
LEMMA BootKeeps ==
  ASSUME IInv, NEW unread \in SUBSET Sectors, Boot(unread)
  PROVE  IInv'
<1> DEFINE p == Parse(disk')
<1>1. platter \in Disks /\ platter' = platter /\ torn' = {} /\ sector' = sector /\ sector \in Nat
  BY Zenon DEF IInv, TypeOK, Boot
<1>2. /\ pc = "down"
      /\ disk' = [s \in Sectors |-> IF s \in unread THEN ZeroSector ELSE platter[s]]
      /\ files' = p.files
      /\ pc' = IF p.status = "panic" THEN "panic" ELSE "idle"
      /\ moved' = (moved /\ Parse(platter).status = "panic")
      /\ missed' = (unread # {})
  BY Zenon DEF Boot
<1>3. disk' \in Disks
  <2>1. ZeroSector \in Sector /\ \A s \in Sectors : platter[s] \in Sector
    BY <1>1, Zenon DEF Disks, Sector
  <2> QED
    BY <1>2, <2>1, Zenon DEF Disks
<1>4. Table(files') /\ (p.status # "panic" => Layout(disk', files', {}))
  BY <1>2, <1>3, ParseMakes, Zenon
<1>5. unread = {} => disk' = platter
  <2>1. platter = [s \in Sectors |-> platter[s]]
    BY <1>1, Zenon DEF Disks
  <2> QED
    BY <1>2, <2>1, Zenon
<1>6. ~ moved' => Parse(platter).status # "panic"
  BY <1>2, Zenon DEF IInv
<1>7. \A s : At(disk', s) \in {At(platter, s), ZeroSector}
  BY <1>2, Zenon DEF At
<1>8. ASSUME ~ moved'
      PROVE  /\ p.status # "panic"
             /\ \E gs : Table(gs) /\ Follows(files', gs) /\ Readable(platter', gs)
  <2> DEFINE gs == Parse(platter).files
  <2>1. Table(gs) /\ Layout(platter, gs, {})
    BY <1>1, <1>6, <1>8, ParseMakes, Zenon
  <2> HIDE DEF gs
  <2>2. Readable(platter, gs)
    BY <2>1, LayoutReadable, Zenon
  <2>3. Readable(disk', gs)
    BY <1>7, <2>2, ReadableMix, Zenon
  <2>4. p.status # "panic" /\ Follows(p.files, gs)
    BY <1>3, <2>1, <2>3, GuidedParse, Zenon
  <2> QED
    BY <1>1, <1>2, <2>1, <2>2, <2>4, Zenon
<1> HIDE DEF p
<1>9. pc' \in {"idle", "panic"} /\ (pc' = "panic" => p.status = "panic") /\ (pc' = "idle" => p.status # "panic")
  <2>1. "idle" # "panic"
    BY SMT
  <2> QED
    BY <1>2, <2>1, Zenon
<1>10. TypeOK'
  <2>1. moved' \in BOOLEAN /\ missed' \in BOOLEAN
    BY <1>2, Zenon
  <2> QED
    BY <1>1, <1>3, <1>4, <1>9, <2>1, Zenon DEF TypeOK
<1>11. pc' = "panic" => moved'
  BY <1>8, <1>9, Zenon
<1>12. pc' = "idle" /\ ~ missed' => Layout(platter', files', torn')
  BY <1>1, <1>2, <1>4, <1>5, <1>9, Zenon
<1>13. pc' # "flush" /\ pc' # "down"
  BY <1>9, SMT
<1> QED
  BY <1>8, <1>10, <1>11, <1>12, <1>13, Zenon DEF IInv, InStep, Guided

\* SYS_WRITEFILE up to the loop over the sectors.
LEMMA WriteFileKeeps ==
  ASSUME IInv, NEW name \in Names, NEW len \in Lengths, NEW v \in Values,
         WriteFile(name, len, v)
  PROVE  IInv'
<1> DEFINE i == fs_lookup(files, name)
           n == Length(len, files[i])
           f == [in_use |-> files[i].in_use, name |-> files[i].name, size |-> n, data |-> Buffer(v, n)]
<1>1. /\ Table(files) /\ platter \in Disks /\ torn \subseteq {j \in Slots : files[j].in_use}
      /\ moved \in BOOLEAN /\ missed \in BOOLEAN
  BY Zenon DEF IInv, TypeOK
<1>2. /\ pc = "idle" /\ Named(files, name) # {}
      /\ files' = [files EXCEPT ![i] = f]
      /\ torn' = torn \cup {i}
      /\ moved' = (moved \/ Extent(files[i].size) # Extent(n)) /\ missed' = missed
      /\ disk' = Image(files') /\ sector' = 0 /\ pc' = "flush" /\ platter' = platter
  <2>1. files' = [files EXCEPT ![i] = [in_use |-> @.in_use, name |-> @.name, size |-> n, data |-> Buffer(v, n)]]
    BY Zenon DEF WriteFile
  <2>2. files' = [files EXCEPT ![i] = f]
    BY <2>1
  <2> QED
    BY <2>2, Zenon DEF WriteFile
<1>3. i \in Slots /\ files[i].name = name
  <2>1. Named(files, name) \in SUBSET Nat
    BY Constants, SMT DEF Named, Slots
  <2>2. i \in Named(files, name)
    BY <1>2, <2>1, MinIsFirst, Zenon DEF fs_lookup
  <2> QED
    BY <2>2, Zenon DEF Named
<1> HIDE DEF i
<1>4. files[i].in_use /\ UsedFile(files[i])
  <2>1. UnusedFile.name = NoName
    BY SMT DEF UnusedFile
  <2>2. files[i] # UnusedFile
    BY <1>3, <2>1, Constants, Zenon
  <2> QED
    BY <1>1, <1>3, <2>2, TableSized, Zenon
<1>5. n \in 0 .. DATA_SIZE
  <2>1. files[i].size \in 0 .. DATA_SIZE
    BY <1>4, Zenon DEF UsedFile
  <2>2. len \in Nat /\ DATA_SIZE \in Nat
    BY Constants, SMT
  <2> QED
    BY <2>1, <2>2, SMT DEF Length
<1> HIDE DEF n
<1>6. files[i].in_use = TRUE
  <2> DEFINE g == files[i]
  <2>1. g = [in_use |-> TRUE, name |-> g.name, size |-> g.size, data |-> g.data]
    BY <1>4, Zenon DEF UsedFile
  <2> HIDE DEF g
  <2>2. g.in_use = TRUE
    BY <2>1, SMT
  <2> QED
    BY <2>2, Zenon DEF g
<1>7. f = Filled(name, n, v)
  BY <1>3, <1>6, Zenon DEF Filled
<1> HIDE DEF f
<1>8. UsedFile(f) /\ f.in_use /\ f.name = name /\ f.size = n
  <2>1. WrittenWith(f, name, n, v)
    BY <1>5, <1>7, WrittenFile, Zenon
  <2> QED
    BY <2>1, Zenon DEF WrittenWith
<1>9. /\ Table(files')
      /\ \A j \in Slots : files'[j].in_use <=> files[j].in_use
  <2>1. WrittenTable(files', files, i, f)
    BY <1>1, <1>2, <1>3, <1>4, <1>8, TableWritten, Zenon
  <2> QED
    BY <2>1, Zenon DEF WrittenTable
<1>10. disk' \in Disks
  BY <1>2, <1>9, ImageTyped, Zenon
<1>11. TypeOK'
  <2>1. torn' \subseteq {j \in Slots : files'[j].in_use}
    BY <1>1, <1>2, <1>3, <1>4, <1>9, Zenon
  <2>2. sector' \in Nat
    BY <1>2, SMT
  <2>3. moved' \in BOOLEAN /\ missed' \in BOOLEAN
    BY <1>1, <1>2, Zenon
  <2> QED
    BY <1>1, <1>2, <1>9, <1>10, <2>1, <2>2, <2>3, Zenon DEF TypeOK
<1>12. ~ moved' => ~ moved /\ Extent(f.size) = Extent(files[i].size)
  BY <1>1, <1>2, <1>8, Zenon
<1>13. ASSUME ~ moved', ~ missed', Fits(files') PROVE Layout(platter', files', torn')
  <2>1. Fits(files)
    BY <1>1, <1>2, <1>3, <1>4, <1>8, <1>12, <1>13, FitsWritten, Zenon
  <2>2. Layout(platter, files, torn)
    BY <1>2, <1>12, <1>13, <2>1, Zenon DEF IInv, InStep
  <2>3. Layout(platter, files', torn \cup {i})
    BY <1>1, <1>2, <1>3, <1>4, <1>8, <1>12, <1>13, <2>2, LayoutWritten, Zenon
  <2> QED
    BY <1>2, <2>3, Zenon
<1>14. ASSUME ~ moved' PROVE \E gs : Table(gs) /\ Follows(files', gs) /\ Readable(platter', gs)
  <2>1. PICK gs : Table(gs) /\ Follows(files, gs) /\ Readable(platter, gs)
    BY <1>2, <1>12, <1>14, Zenon DEF IInv, Guided
  <2>2. files'[i] = f /\ \A j \in Slots : j # i => files'[j] = files[j]
    <3>1. WrittenTable(files', files, i, f)
      BY <1>1, <1>2, <1>3, <1>4, <1>8, TableWritten, Zenon
    <3> QED
      BY <3>1, Zenon DEF WrittenTable
  <2>3. ASSUME NEW j \in Slots, files'[j].in_use
        PROVE  gs[j].in_use /\ Extent(files'[j].size) = Extent(gs[j].size)
    <3>1. CASE j = i
      BY <1>4, <1>12, <1>14, <2>1, <2>2, <3>1, Zenon DEF Follows
    <3>2. CASE j # i
      BY <2>1, <2>2, <2>3, <3>2, Zenon DEF Follows
    <3> QED
      BY <3>1, <3>2, Zenon
  <2>4. Follows(files', gs)
    BY <2>3, Zenon DEF Follows
  <2> QED
    BY <1>2, <2>1, <2>4, Zenon
<1>15. pc' # "down" /\ pc' # "panic"
  BY <1>2, SMT
<1> QED
  BY <1>2, <1>11, <1>13, <1>14, <1>15, Zenon DEF IInv, InStep, Guided

\* One sector of the loop in fs_flush reaches the platter.
LEMMA FlushSectorKeeps ==
  ASSUME IInv, FlushSector
  PROVE  IInv'
<1>1. /\ pc = "flush" /\ sector < DISK_SECTORS
      /\ platter' = [platter EXCEPT ![sector] = disk[sector]]
      /\ sector' = sector + 1
      /\ UNCHANGED <<files, disk, pc, torn, moved, missed>>
  BY Zenon DEF FlushSector
<1>2. Table(files) /\ disk \in Disks /\ platter \in Disks /\ sector \in Nat
  BY Zenon DEF IInv, TypeOK
<1>3. sector \in Sectors /\ sector' \in Nat
  BY <1>1, <1>2, Constants, SMT DEF Sectors
<1>4. platter' \in Disks /\ \A s : At(platter', s) \in {At(platter, s), At(disk, s)}
  <2>1. disk[sector] \in Sector /\ platter = [s \in Sectors |-> platter[s]] /\ \A s \in Sectors : platter[s] \in Sector
    BY <1>2, <1>3, Zenon DEF Disks
  <2>2. platter' = [s \in Sectors |-> platter'[s]] /\ \A s \in Sectors : platter'[s] = IF s = sector THEN disk[s] ELSE platter[s]
    BY <1>1, <2>1, Zenon
  <2>3. platter' \in Disks
    BY <2>1, <2>2, Zenon DEF Disks
  <2> QED
    BY <2>2, <2>3, Zenon DEF At
<1>5. TypeOK'
  BY <1>1, <1>3, <1>4, Zenon DEF IInv, TypeOK
<1>6. ASSUME ~ moved, ~ missed, Fits(files) PROVE Layout(platter', files, torn)
  <2>1. Layout(platter, files, torn) /\ disk = Image(files)
    BY <1>1, <1>6, Zenon DEF IInv, InStep
  <2>2. Layout(disk, files, {})
    BY <1>2, <1>6, <2>1, ImageLayout, Zenon
  <2> QED
    BY <1>2, <1>4, <2>1, <2>2, LayoutMix, Zenon
<1>7. ASSUME ~ moved PROVE \E gs : Table(gs) /\ Follows(files, gs) /\ Readable(platter', gs)
  <2>1. PICK gs : Table(gs) /\ Follows(files, gs) /\ Readable(platter, gs)
    BY <1>1, <1>7, Zenon DEF IInv, Guided
  <2>2. disk = Image(files)
    BY <1>1, Zenon DEF IInv
  <2>3. Readable(disk, gs)
    BY <1>2, <2>1, <2>2, ImageReadable, Zenon
  <2>4. \A s : At(platter', s) \in {At(platter, s), At(disk, s), ZeroSector}
    BY <1>4, Zenon
  <2>5. Readable(platter', gs)
    BY <2>1, <2>3, <2>4, ReadableMix, Zenon
  <2> QED
    BY <2>1, <2>5, Zenon
<1>8. pc # "down" /\ pc # "panic"
  BY <1>1, SMT
<1>9. InStep' => Layout(platter', files', torn')
  BY <1>1, <1>6, Zenon DEF InStep
<1>10. ~ moved' => Guided'
  BY <1>1, <1>7, Zenon DEF Guided
<1>11. pc' = "flush" => disk' = Image(files')
  BY <1>1, Zenon DEF IInv
<1> QED
  BY <1>1, <1>5, <1>8, <1>9, <1>10, <1>11, Zenon DEF IInv

\* One sector of the loop does not.
LEMMA FlushSectorFailsKeeps ==
  ASSUME IInv, FlushSectorFails
  PROVE  IInv'
<1>1. sector' = sector + 1 /\ UNCHANGED <<files, disk, platter, pc, torn, moved, missed>>
  BY Zenon DEF FlushSectorFails
<1>2. sector' \in Nat
  <2>1. sector \in Nat
    BY Zenon DEF IInv, TypeOK
  <2> QED
    BY <1>1, <2>1, SMT
<1> QED
  BY <1>1, <1>2, Zenon DEF IInv, TypeOK, InStep, Guided

\* The system call returns.
LEMMA FlushDoneKeeps ==
  ASSUME IInv, FlushDone
  PROVE  IInv'
<1>1. /\ pc = "flush" /\ pc' = "idle"
      /\ UNCHANGED <<files, disk, platter, sector>>
      /\ IF platter = disk THEN torn' = {} /\ moved' = FALSE /\ missed' = FALSE
                           ELSE UNCHANGED <<torn, moved, missed>>
  BY Zenon DEF FlushDone
<1>2. Table(files) /\ disk = Image(files)
  BY <1>1, Zenon DEF IInv, TypeOK
<1>3. TypeOK'
  BY <1>1, Zenon DEF IInv, TypeOK
<1>4. ASSUME ~ moved', ~ missed', Fits(files) PROVE Layout(platter, files, torn')
  <2>1. CASE platter = disk
    BY <1>1, <1>2, <1>4, <2>1, ImageLayout, Zenon
  <2>2. CASE platter # disk
    BY <1>1, <1>4, <2>2, Zenon DEF IInv, InStep
  <2> QED
    BY <2>1, <2>2, Zenon
<1>5. ASSUME ~ moved' PROVE \E gs : Table(gs) /\ Follows(files, gs) /\ Readable(platter, gs)
  <2>1. CASE platter = disk
    <3>1. Follows(files, files)
      BY Zenon DEF Follows
    <3>2. Readable(platter, files)
      BY <1>2, <2>1, <3>1, ImageReadable, Zenon
    <3> QED
      BY <1>2, <3>1, <3>2, Zenon
  <2>2. CASE platter # disk
    BY <1>1, <1>5, <2>2, Zenon DEF IInv, Guided
  <2> QED
    BY <2>1, <2>2, Zenon
<1>6. pc' # "down" /\ pc' # "panic" /\ pc' # "flush"
  BY <1>1, SMT
<1> QED
  BY <1>1, <1>3, <1>4, <1>5, <1>6, Zenon DEF IInv, InStep, Guided

\* The machine stops: what a reboot finds is what was on the platter.
LEMMA CrashKeeps ==
  ASSUME IInv, Crash
  PROVE  IInv'
<1>1. /\ pc \in {"idle", "flush"} /\ pc' = "down" /\ files' = NoFiles /\ disk' = Zeroes
      /\ sector' = 0 /\ torn' = {} /\ platter' = platter /\ moved' = moved /\ missed' = missed
  BY Zenon DEF Crash
<1>2. Table(files) /\ platter \in Disks /\ moved \in BOOLEAN /\ missed \in BOOLEAN
  BY Zenon DEF IInv, TypeOK
<1>3. sector' \in Nat
  BY <1>1, SMT
<1>4. TypeOK'
  BY <1>1, <1>2, <1>3, NoFilesTable, ZeroesTyped, Zenon DEF TypeOK
<1>5. ASSUME ~ moved PROVE Parse(platter).status # "panic"
  <2>1. PICK gs : Table(gs) /\ Follows(files, gs) /\ Readable(platter, gs)
    BY <1>1, <1>5, Zenon DEF IInv, Guided
  <2> QED
    BY <1>2, <2>1, GuidedParse, Zenon
<1>6. pc' # "idle" /\ pc' # "flush" /\ pc' # "panic"
  BY <1>1, SMT
<1> QED
  BY <1>1, <1>4, <1>5, <1>6, Zenon DEF IInv, InStep

\* IInv is an invariant: whatever the calls, the failures and the crashes, the
\* platter holds the files of memory at their places while they are in step,
\* and has headers where fs_init looks for them until a flush moves files.
THEOREM FileSystemInvariance == Spec => []IInv
<1>1. IInv /\ [Next]_vars => IInv'
  <2> SUFFICES ASSUME IInv, [Next]_vars PROVE IInv'
    OBVIOUS
  <2>1. CASE UNCHANGED vars
    BY <2>1, Zenon DEF vars, IInv, TypeOK, InStep, Guided
  <2> QED
    BY <2>1, BootKeeps, WriteFileKeeps, FlushSectorKeeps, FlushSectorFailsKeeps,
       FlushDoneKeeps, CrashKeeps, Zenon DEF Next
<1> QED
  BY <1>1, InitIInv, PTL DEF Spec

\* The platter is a readable archive at every moment, and a reboot finds every
\* file that is not being written just as it is in memory, for any number of
\* files, any lengths and any failures, as long as the two are in step.
THEOREM CrashConsistency == Spec => []DiskMatchesMemory
<1>1. IInv => DiskMatchesMemory
  <2> SUFFICES ASSUME IInv, InStep
               PROVE  /\ Parse(platter).status # "panic"
                      /\ \A i \in Slots : i \notin torn => Parse(platter).files[i] = files[i]
    BY Zenon DEF DiskMatchesMemory
  <2>1. Table(files) /\ platter \in Disks /\ Layout(platter, files, torn)
    BY Zenon DEF IInv, TypeOK
  <2>2. ASSUME NEW i \in Slots, i \notin torn PROVE Parse(platter).files[i] = files[i]
    <3>1. CASE files[i].in_use
      <4>1. FileAt(platter, Start(files, i)) = files[i]
        BY <2>1, <2>2, <3>1, Zenon DEF Layout, InPlace
      <4> QED
        BY <2>1, <3>1, <4>1, ParseReads, Zenon
    <3>2. CASE ~ files[i].in_use
      BY <2>1, <3>2, ParseReads, TableSized, Zenon
    <3> QED
      BY <3>1, <3>2, Zenon
  <2> QED
    BY <2>1, <2>2, ParseReads, Zenon
<1> QED
  BY <1>1, FileSystemInvariance, PTL

\* Even the file being written keeps its name and its number of sectors on the
\* platter, so that the files behind it are found.
THEOREM ShapeKept == Spec => []TornWriteKeepsShape
<1>1. IInv => TornWriteKeepsShape
  <2> SUFFICES ASSUME IInv, InStep, NEW i \in torn
               PROVE  /\ Parse(platter).files[i].name = files[i].name
                      /\ Extent(Parse(platter).files[i].size) = Extent(files[i].size)
    BY Zenon DEF TornWriteKeepsShape
  <2>1. Table(files) /\ platter \in Disks /\ Layout(platter, files, torn) /\ i \in Slots /\ files[i].in_use
    BY Zenon DEF IInv, TypeOK
  <2> DEFINE s == Start(files, i)
             h == At(platter, s)
  <2>2. h.kind = "header" /\ h.name = files[i].name /\ Extent(oct2int(h.size)) = Extent(files[i].size)
    BY <2>1, Zenon DEF Layout, InPlace
  <2>3. Parse(platter).files[i] = FileAt(platter, s)
    BY <2>1, ParseReads, Zenon
  <2>4. FileAt(platter, s).name = h.name /\ FileAt(platter, s).size = oct2int(h.size)
    BY <2>1, <2>2, FileAtIs, Zenon
  <2> QED
    BY <2>2, <2>3, <2>4, Zenon
<1> QED
  BY <1>1, FileSystemInvariance, PTL

\* fs_init stops with PANIC only because of a flush that moved files and did
\* not write every sector, for any number of files and any failures.
THEOREM PanicExplained == Spec => []PanicOnlyAfterMove
<1>1. IInv => PanicOnlyAfterMove
  BY Zenon DEF IInv, PanicOnlyAfterMove
<1> QED
  BY <1>1, FileSystemInvariance, PTL
=============================================================================
