----------------------------- MODULE Ipv4Proofs -----------------------------
(***************************************************************************)
(* Proofs about kernel/ipv4.c: the arithmetic of the header checksum for   *)
(* every 32-bit sum, which packets ipv4_receive takes, and that it takes   *)
(* those of ipv4_send.                                                     *)
(***************************************************************************)
EXTENDS Ipv4, TLAPS, WellFoundedInduction

UInt32 == {n \in Nat : n <= 4294967295}

\* Division by the base of the 16-bit words.
LEMMA Halves ==
  ASSUME NEW sum \in Nat
  PROVE  \E high, low \in Int : /\ high = sum \div 65536 /\ low = sum % 65536
                               /\ sum = 65536 * high + low
                               /\ 0 <= low /\ low < 65536
  BY SMT

\* Multiples of 65535 do not matter to the residue.
LEMMA Multiple == \A k, n \in Nat : (65535 * k + n) % 65535 = n % 65535
  BY SMT

\* One turn of the loop in ipv4_checksum keeps the residue modulo 65535, keeps a
\* sum positive, and brings a 32-bit sum below twice 65536.
LEMMA FoldOnceResidue ==
  ASSUME NEW sum \in UInt32
  PROVE  /\ FoldOnce(sum) \in Nat
         /\ FoldOnce(sum) <= 131070
         /\ FoldOnce(sum) % 65535 = sum % 65535
         /\ sum > 0 => FoldOnce(sum) > 0
         /\ sum <= 131070 => FoldOnce(sum) <= 65535
<1>1. sum \in Nat /\ sum <= 4294967295
  BY SMT DEF UInt32
<1>2. PICK high, low \in Int : /\ high = sum \div 65536 /\ low = sum % 65536
                              /\ sum = 65536 * high + low
                              /\ 0 <= low /\ low < 65536
  BY <1>1, Halves, SMT
<1>3. high \in Nat /\ high <= 65535 /\ low \in Nat /\ low <= 65535
  BY <1>1, <1>2, SMT
<1>4. FoldOnce(sum) = high + low
  BY <1>2, <1>3, SMT DEF FoldOnce
<1>5. FoldOnce(sum) % 65535 = sum % 65535
  <2>1. sum = 65535 * high + (high + low) /\ high + low \in Nat
    BY <1>1, <1>2, <1>3, SMT
  <2> QED
    BY <2>1, <1>3, <1>4, Multiple, SMT
<1>6. /\ FoldOnce(sum) \in Nat
      /\ FoldOnce(sum) <= 131070
      /\ sum > 0 => FoldOnce(sum) > 0
      /\ sum <= 131070 => FoldOnce(sum) <= 65535
  BY <1>1, <1>2, <1>3, <1>4, SMT
<1> QED
  BY <1>5, <1>6, SMT

\* The loop ends with a number of 16 bits after two turns.
LEMMA FoldResidue ==
  ASSUME NEW sum \in UInt32
  PROVE  /\ Fold(sum) \in Nat
         /\ Fold(sum) <= 65535
         /\ Fold(sum) % 65535 = sum % 65535
         /\ sum > 0 => Fold(sum) > 0
<1> DEFINE once == FoldOnce(sum)
<1>1. /\ once \in Nat
      /\ once <= 131070
      /\ once % 65535 = sum % 65535
      /\ sum > 0 => once > 0
  BY FoldOnceResidue, SMT
<1>2. once \in UInt32
  BY <1>1, SMT DEF UInt32
<1>3. /\ FoldOnce(once) \in Nat
      /\ FoldOnce(once) % 65535 = once % 65535
      /\ once > 0 => FoldOnce(once) > 0
      /\ once <= 131070 => FoldOnce(once) <= 65535
  BY <1>2, FoldOnceResidue, SMT
<1> QED
  BY <1>1, <1>3, SMT DEF Fold

\* The while loop of ipv4_checksum has nothing left to do after the two turns
\* that Fold makes.
THEOREM FoldEnds ==
  ASSUME NEW sum \in UInt32
  PROVE  Fold(sum) \div 65536 = 0
<1>1. Fold(sum) \in Nat /\ Fold(sum) <= 65535
  BY FoldResidue, SMT
<1> QED
  BY <1>1, SMT

\* A receiver accepts exactly the positive multiples of 65535.
LEMMA AcceptedSums ==
  ASSUME NEW sum \in UInt32, sum > 0
  PROVE  Complement(Fold(sum)) = 0 <=> sum % 65535 = 0
<1>1. /\ Fold(sum) \in Nat /\ 0 < Fold(sum) /\ Fold(sum) <= 65535
      /\ Fold(sum) % 65535 = sum % 65535
  BY FoldResidue, SMT
<1>2. Complement(Fold(sum)) = 65535 - Fold(sum)
  BY <1>1, SMT DEF Complement
<1> QED
  BY <1>1, <1>2, SMT

\* ipv4_send computes the checksum over a header whose checksum field is zero,
\* and ipv4_receive over the header with the checksum in it: the test there then
\* finds zero, for every sum of header words.
THEOREM ChecksumVerifies ==
  ASSUME NEW sum \in UInt32, 0 < sum, sum <= 4294901760
  PROVE  Complement(Fold(sum + Complement(Fold(sum)))) = 0
<1> DEFINE check == Complement(Fold(sum))
<1>1. /\ Fold(sum) \in Nat /\ 0 < Fold(sum) /\ Fold(sum) <= 65535
      /\ Fold(sum) % 65535 = sum % 65535
  BY FoldResidue, SMT
<1>2. check = 65535 - Fold(sum)
  BY <1>1, SMT DEF Complement
<1>3. sum \in Nat
  BY SMT DEF UInt32
<1>4. (sum + check) % 65535 = 0
  BY <1>1, <1>2, <1>3, SMT
<1>5. sum + check \in UInt32 /\ sum + check > 0
  BY <1>1, <1>2, <1>3, SMT DEF UInt32
<1> HIDE DEF check
<1>6. Complement(Fold(sum + check)) = 0
  BY <1>4, <1>5, AcceptedSums, SMT
<1> QED
  BY <1>6, SMT DEF check

\* A header that passes the test and then has one byte changed, which changes the
\* sum of its words by at most 255 * 256, is rejected.
THEOREM DamageDetected ==
  ASSUME NEW sum \in UInt32, 0 < sum, Complement(Fold(sum)) = 0,
         NEW damaged \in UInt32, 0 < damaged, damaged # sum,
         -65280 <= damaged - sum, damaged - sum <= 65280
  PROVE  Complement(Fold(damaged)) # 0
<1>1. sum % 65535 = 0
  BY AcceptedSums, SMT
<1>2. sum \in Nat /\ damaged \in Nat
  BY SMT DEF UInt32
<1>3. damaged % 65535 # 0
  BY <1>1, <1>2, SMT
<1> QED
  BY <1>3, AcceptedSums, SMT
-----------------------------------------------------------------------------
(* The loop over the words of a header. *)

\* The values of a uint16_t.
LEMMA WordIs == \A x : x \in Word <=> x \in Nat /\ x <= 65535
  BY SMT DEF Word

\* A non-empty set of naturals has its Min as an element and a lower bound.
LEMMA MinIsFirst ==
  ASSUME NEW S \in SUBSET Nat, S # {}
  PROVE  Min(S) \in S /\ \A y \in S : Min(S) <= y
<1>1. PICK x \in S : \A y \in S : ~ (<<y, x>> \in OpToRel(<, Nat))
  BY WFMin, NatLessThanWellFounded
<1>2. ASSUME NEW y \in S PROVE x <= y
  <2>1. x \in Nat /\ y \in Nat
    OBVIOUS
  <2>2. ~ (y < x)
    BY <1>1, <2>1, Zenon DEF OpToRel
  <2>3. QED
    BY <2>1, <2>2
<1>3. QED
  BY <1>2 DEF Min

\* Induction over the rounds of a loop: a set that holds the start and, with
\* every round, the next, holds them all.
LEMMA Rounds ==
  ASSUME NEW n \in Nat, NEW T, 0 \in T,
         \A k \in 1 .. n : k - 1 \in T => k \in T
  PROVE  0 .. n \subseteq T
<1> DEFINE bad == (0 .. n) \ T
<1>1. SUFFICES ASSUME bad # {} PROVE FALSE
  BY Zenon
<1>2. bad \in SUBSET Nat
  BY SMT
<1>3. PICK b \in bad : \A y \in bad : b <= y
  BY <1>1, <1>2, MinIsFirst, Zenon
<1>4. b \in 1 .. n /\ b - 1 \in 0 .. n /\ ~ (b <= b - 1)
  BY <1>3, SMT
<1>5. b - 1 \in T
  BY <1>3, <1>4, Zenon
<1> QED
  BY <1>3, <1>4, <1>5, Zenon

IsLoop(g, n, X, x0, step) ==
  /\ g \in [0 .. n -> X]
  /\ g = [k \in 0 .. n |-> IF k = 0 THEN x0 ELSE step[<<g[k - 1], k>>]]

\* A for loop that goes from one state of X to another has a run: the
\* recursive function that stands for it exists.
LEMMA LoopExists ==
  ASSUME NEW n \in Nat, NEW X, NEW x0 \in X, NEW step \in [X \X (1 .. n) -> X]
  PROVE  \E g : IsLoop(g, n, X, x0, step)
<1> DEFINE Run(g, m) == /\ g \in [0 .. m -> X]
                        /\ g[0] = x0
                        /\ \A k \in 1 .. m : g[k] = step[<<g[k - 1], k>>]
           T == {m \in 0 .. n : \E g : Run(g, m)}
<1>1. 0 \in T
  <2>1. Run([k \in 0 .. 0 |-> x0], 0)
    BY SMT
  <2>2. 0 \in 0 .. n
    BY SMT
  <2> QED
    BY <2>1, <2>2, Zenon
<1>2. ASSUME NEW k \in 1 .. n, k - 1 \in T PROVE k \in T
  <2>1. PICK h : Run(h, k - 1)
    BY <1>2, Zenon
  <2> DEFINE g == [i \in 0 .. k |-> IF i = k THEN step[<<h[k - 1], k>>] ELSE h[i]]
  <2>2. k - 1 \in 0 .. k - 1 /\ h[k - 1] \in X
    BY <2>1, SMT
  <2>3. step[<<h[k - 1], k>>] \in X
    BY <2>2, SMT
  <2>4. g \in [0 .. k -> X] /\ g[0] = x0
    BY <2>1, <2>3, SMT
  <2>5. ASSUME NEW i \in 1 .. k PROVE g[i] = step[<<g[i - 1], i>>]
    <3>1. i - 1 \in 0 .. k /\ i \in 0 .. k /\ i - 1 # k
      BY SMT
    <3>2. g[i - 1] = h[i - 1]
      BY <3>1, Zenon
    <3>3. CASE i = k
      BY <3>1, <3>2, <3>3, Zenon
    <3>4. CASE i # k
      <4>1. i \in 1 .. k - 1
        BY <3>4, SMT
      <4> QED
        BY <2>1, <3>1, <3>2, <3>4, <4>1, Zenon
    <3> QED
      BY <3>3, <3>4, Zenon
  <2> HIDE DEF g
  <2>6. Run(g, k)
    BY <2>4, <2>5, Zenon
  <2>7. k \in 0 .. n
    BY SMT
  <2> QED
    BY <2>6, <2>7, Zenon
<1>3. n \in T
  <2>1. 0 .. n \subseteq T
    <3> HIDE DEF T
    <3> QED
      BY <1>1, <1>2, Rounds, Zenon
  <2> QED
    BY <2>1, SMT
<1>4. PICK g : Run(g, n)
  BY <1>3, Zenon
<1> DEFINE e == [k \in 0 .. n |-> IF k = 0 THEN x0 ELSE step[<<g[k - 1], k>>]]
<1>5. ASSUME NEW k \in 0 .. n PROVE g[k] = e[k]
  <2>1. k = 0 \/ k \in 1 .. n
    BY SMT
  <2> QED
    BY <1>4, <2>1, Zenon
<1>6. g = e
  BY <1>4, <1>5, SMT
<1> QED
  BY <1>4, <1>6, Zenon DEF IsLoop


SumRun(f, words) ==
  f = [i \in 0 .. Len(words) |-> IF i = 0 THEN 0 ELSE f[i - 1] + words[i]]

\* What the loop of ipv4_checksum has added up after every word.
PartialSums(f, words) ==
  /\ f \in [0 .. Len(words) -> Nat]
  /\ f[0] = 0
  /\ \A i \in 1 .. Len(words) : f[i] = f[i - 1] + words[i]
  /\ Sum(words) = f[Len(words)]

\* The loop has a run, from which its result comes.
LEMMA SumRuns ==
  ASSUME NEW words \in Seq(Word)
  PROVE  \E f : PartialSums(f, words)
<1> DEFINE n == Len(words)
           step == [y \in Nat \X (1 .. n) |-> y[1] + words[y[2]]]
           f == CHOOSE g : SumRun(g, words)
<1>1. n \in Nat /\ \A i \in 1 .. n : words[i] \in Nat
  BY WordIs, SMT
<1> HIDE DEF n
<1>2. step \in [Nat \X (1 .. n) -> Nat]
  <2>1. ASSUME NEW a \in Nat, NEW i \in 1 .. n PROVE a + words[i] \in Nat
    BY <1>1, SMT
  <2> QED
    BY <2>1, Zenon
<1>3. PICK g : IsLoop(g, n, Nat, 0, step)
  <2> HIDE DEF step
  <2>1. 0 \in Nat
    BY SMT
  <2> QED
    BY <1>1, <1>2, <2>1, LoopExists, Zenon
<1>4. SumRun(g, words)
  <2>1. ASSUME NEW k \in 0 .. n, k # 0
        PROVE  step[<<g[k - 1], k>>] = g[k - 1] + words[k]
    <3>1. k \in 1 .. n /\ k - 1 \in 0 .. n
      BY <1>1, <2>1, SMT
    <3>2. <<g[k - 1], k>> \in Nat \X (1 .. n)
      BY <1>3, <3>1 DEF IsLoop
    <3> QED
      BY <3>2
  <2>2. \A k \in 0 .. n : (IF k = 0 THEN 0 ELSE step[<<g[k - 1], k>>])
                            = (IF k = 0 THEN 0 ELSE g[k - 1] + words[k])
    BY <2>1, Zenon
  <2> HIDE DEF step
  <2>3. g = [k \in 0 .. n |-> IF k = 0 THEN 0 ELSE g[k - 1] + words[k]]
    BY <1>3, <2>2, Zenon DEF IsLoop
  <2> QED
    BY <2>3, Zenon DEF SumRun, n
<1>5. SumRun(f, words)
  <2> HIDE DEF step
  <2> QED
    BY <1>4, Zenon
<1>6. Sum(words) = f[n]
  BY Zenon DEF Sum, SumRun, n
<1> HIDE DEF f, step
<1>7. /\ 0 \in 0 .. n
      /\ \A k \in 1 .. n : k \in 0 .. n /\ k # 0
  BY <1>1, SMT
<1>8. f[0] = 0 /\ \A i \in 1 .. n : f[i] = f[i - 1] + words[i]
  BY <1>5, <1>7, Zenon DEF SumRun, n
<1>9. f \in [0 .. n -> Nat]
  <2> DEFINE T == {k \in 0 .. n : f[k] \in Nat}
  <2>1. 0 \in T
    BY <1>7, <1>8, SMT
  <2>2. ASSUME NEW k \in 1 .. n, k - 1 \in T PROVE k \in T
    <3>1. f[k - 1] \in Nat /\ words[k] \in Nat /\ k \in 0 .. n
      BY <1>1, <1>7, <2>2, Zenon
    <3>2. f[k] \in Nat
      BY <1>8, <3>1, SMT
    <3> QED
      BY <3>1, <3>2, Zenon
  <2>3. 0 .. n \subseteq T
    <3> HIDE DEF T
    <3> QED
      BY <1>1, <2>1, <2>2, Rounds, Zenon
  <2>4. f = [k \in 0 .. n |-> f[k]]
    BY <1>5, Zenon DEF SumRun, n
  <2> QED
    BY <2>3, <2>4, Zenon
<1> QED
  BY <1>6, <1>8, <1>9, Zenon DEF PartialSums, n

MaxWord == 65535

\* The sum of the words is at least each of them, and no more than its words
\* allow.
LEMMA SumBounds ==
  ASSUME NEW words \in Seq(Word)
  PROVE  /\ Sum(words) \in Nat
         /\ Sum(words) <= MaxWord * Len(words)
         /\ \A i \in 1 .. Len(words) : words[i] <= Sum(words)
<1>1. PICK f : PartialSums(f, words)
  BY SumRuns, Zenon
<1> DEFINE n == Len(words)
           T == {k \in 0 .. n : /\ f[k] <= MaxWord * k
                                /\ \A i \in 1 .. n : i <= k => words[i] <= f[k]}
<1>2. n \in Nat /\ \A i \in 1 .. n : words[i] \in Nat /\ words[i] <= MaxWord
  BY WordIs, SMT DEF MaxWord
<1> HIDE DEF n
<1>3. /\ f \in [0 .. n -> Nat]
      /\ f[0] = 0
      /\ \A i \in 1 .. n : f[i] = f[i - 1] + words[i]
      /\ Sum(words) = f[n]
  BY <1>1, Zenon DEF PartialSums, n
<1>4. 0 \in T
  BY <1>2, <1>3, SMT DEF MaxWord
<1>5. ASSUME NEW k \in 1 .. n, k - 1 \in T PROVE k \in T
  <2>1. /\ k \in Nat /\ k - 1 \in 0 .. n /\ k \in 0 .. n
        /\ f[k - 1] \in Nat /\ words[k] \in Nat /\ words[k] <= MaxWord
        /\ f[k] = f[k - 1] + words[k]
        /\ f[k - 1] <= MaxWord * (k - 1)
    BY <1>2, <1>3, <1>5, SMT DEF MaxWord
  <2>2. f[k] <= MaxWord * k
    BY <2>1, SMT DEF MaxWord
  <2>3. ASSUME NEW i \in 1 .. n, i <= k PROVE words[i] <= f[k]
    <3>1. CASE i = k
      BY <2>1, <3>1, SMT
    <3>2. CASE i # k
      <4>1. i <= k - 1
        BY <2>1, <2>3, <3>2, SMT
      <4>2. words[i] <= f[k - 1] /\ words[i] \in Nat
        BY <1>2, <1>5, <4>1, SMT
      <4> QED
        BY <2>1, <4>2, SMT
    <3> QED
      BY <3>1, <3>2, Zenon
  <2> QED
    BY <2>1, <2>2, <2>3, Zenon
<1>6. n \in T
  <2>1. 0 .. n \subseteq T
    <3> HIDE DEF T
    <3> QED
      BY <1>2, <1>4, <1>5, Rounds, Zenon
  <2>2. n \in 0 .. n
    BY <1>2, SMT
  <2> QED
    BY <2>1, <2>2, Zenon
<1>7. /\ f[n] \in Nat
      /\ \A i \in 1 .. n : i <= n
  BY <1>2, <1>3, SMT
<1> QED
  BY <1>3, <1>6, <1>7, Zenon DEF n

\* Two headers that differ in one word differ by as much in their sums.
LEMMA SumChange ==
  ASSUME NEW words \in Seq(Word), NEW others \in Seq(Word), Len(others) = Len(words),
         NEW j \in 1 .. Len(words),
         \A i \in 1 .. Len(words) : i # j => others[i] = words[i]
  PROVE  Sum(others) - Sum(words) = others[j] - words[j]
<1>1. PICK f : PartialSums(f, words)
  BY SumRuns, Zenon
<1>2. PICK g : PartialSums(g, others)
  BY SumRuns, Zenon
<1> DEFINE n == Len(words)
           d == others[j] - words[j]
           T == {k \in 0 .. n : g[k] - f[k] = IF k < j THEN 0 ELSE d}
<1>3. /\ n \in Nat /\ j \in 1 .. n
      /\ \A i \in 1 .. n : words[i] \in Nat /\ others[i] \in Nat /\ (i # j => others[i] = words[i])
  BY WordIs, SMT
<1>4. /\ f \in [0 .. n -> Nat] /\ f[0] = 0
      /\ \A i \in 1 .. n : f[i] = f[i - 1] + words[i]
      /\ g \in [0 .. n -> Nat] /\ g[0] = 0
      /\ \A i \in 1 .. n : g[i] = g[i - 1] + others[i]
      /\ Sum(words) = f[n] /\ Sum(others) = g[n]
  BY <1>1, <1>2, Zenon DEF PartialSums
<1> HIDE DEF n
<1>5. 0 \in T
  BY <1>3, <1>4, SMT
<1>6. ASSUME NEW k \in 1 .. n, k - 1 \in T PROVE k \in T
  <2>1. /\ k - 1 \in 0 .. n /\ k \in 0 .. n
        /\ f[k - 1] \in Nat /\ g[k - 1] \in Nat /\ words[k] \in Nat /\ others[k] \in Nat
        /\ f[k] = f[k - 1] + words[k] /\ g[k] = g[k - 1] + others[k]
    BY <1>3, <1>4, SMTT(30)
  <2>2. CASE k < j
    <3>1. g[k - 1] - f[k - 1] = 0 /\ others[k] = words[k]
      BY <1>3, <1>6, <2>2, SMT
    <3> QED
      BY <2>1, <2>2, <3>1, SMT
  <2>3. CASE k = j
    <3>1. g[k - 1] - f[k - 1] = 0
      BY <1>3, <1>6, <2>3, SMT
    <3> QED
      BY <1>3, <2>1, <2>3, <3>1, SMTT(30)
  <2>4. CASE j < k
    <3>1. g[k - 1] - f[k - 1] = d /\ others[k] = words[k] /\ d \in Int /\ ~ (k < j)
      BY <1>3, <1>6, <2>4, SMT
    <3> HIDE DEF d
    <3>2. g[k] - f[k] = d
      BY <2>1, <3>1, SMT
    <3> QED
      BY <2>1, <3>1, <3>2, Zenon
  <2> QED
    BY <1>3, <2>2, <2>3, <2>4, SMT
<1>7. n \in T
  <2>1. 0 .. n \subseteq T
    <3> HIDE DEF T
    <3> QED
      BY <1>3, <1>5, <1>6, Rounds, Zenon
  <2>2. n \in 0 .. n
    BY <1>3, SMT
  <2> QED
    BY <2>1, <2>2, Zenon
<1>8. ~ (n < j)
  BY <1>3, SMT
<1> QED
  BY <1>4, <1>7, <1>8, Zenon
-----------------------------------------------------------------------------
(* The tests of ipv4_receive, one behind the other. *)

\* The header length is a number once the first test has passed.
LEMMA HeaderLenNat ==
  ASSUME NEW p \in Incoming, ~ Short(p)
  PROVE  HeaderLen(p) \in Nat
<1>1. p.capacity >= 20 /\ p.words \in Seq(Nat) /\ Len(p.words) >= 10
  BY Ipv4Assumption, SMT DEF Short, IPV4_HEADER_MIN_SIZE
<1>2. p.words[1] \in Nat
  BY <1>1, SMT
<1> QED
  BY <1>2, SMT DEF HeaderLen

\* Each test of ipv4_receive bounds what the next one reads.
LEMMA BytesReadInside ==
  ASSUME NEW p \in Incoming
  PROVE  BytesRead(p) <= p.capacity
<1>1. p.capacity \in Nat
  BY Ipv4Assumption, Zenon
<1>2. CASE Short(p)
  BY <1>1, <1>2, SMT DEF BytesRead
<1>3. CASE ~ Short(p) /\ (Malformed(p) \/ BadLength(p))
  BY <1>1, <1>3, SMT DEF BytesRead, Short, IPV4_HEADER_MIN_SIZE
<1>4. CASE ~ Short(p) /\ ~ Malformed(p) /\ ~ BadLength(p)
  BY <1>1, <1>4, HeaderLenNat, SMT DEF BytesRead, Malformed
<1> QED
  BY <1>2, <1>3, <1>4, Zenon

-----------------------------------------------------------------------------
(* What ipv4_receive takes. *)

\* A word is its two bytes.
LEMMA TwoBytes ==
  ASSUME NEW a \in Word
  PROVE  \E high, low \in Nat : /\ high = a \div 256 /\ low = a % 256
                               /\ a = 256 * high + low
                               /\ high <= 255 /\ low <= 255
<1>1. a \in Nat /\ a <= 65535
  BY WordIs, SMT
<1>2. \A b \in Nat : \E high, low \in Int : /\ high = b \div 256 /\ low = b % 256
                                           /\ b = 256 * high + low
                                           /\ 0 <= low /\ low < 256
  BY SMT
<1>3. PICK high, low \in Int : /\ high = a \div 256 /\ low = a % 256
                              /\ a = 256 * high + low
                              /\ 0 <= low /\ low < 256
  <2>1. a \in Nat
    BY <1>1, SMT
  <2> QED
    BY <1>2, <2>1, Zenon
<1>4. high \in Nat /\ low \in Nat /\ high <= 255 /\ low <= 255
  BY <1>1, <1>3, SMT
<1> QED
  BY <1>3, <1>4, ZenonT(40)

\* A change of one byte of a word.
LEMMA ByteChange ==
  ASSUME NEW a \in Word, NEW b \in Word, a \div 256 = b \div 256 \/ a % 256 = b % 256
  PROVE  -65280 <= a - b /\ a - b <= 65280
<1>1. PICK c, d \in Nat : /\ c = a \div 256 /\ d = a % 256
                         /\ a = 256 * c + d
                         /\ c <= 255 /\ d <= 255
  BY TwoBytes, Zenon
<1>2. PICK e, f \in Nat : /\ e = b \div 256 /\ f = b % 256
                         /\ b = 256 * e + f
                         /\ e <= 255 /\ f <= 255
  BY TwoBytes, Zenon
<1>3. c = e \/ d = f
  BY <1>1, <1>2, Zenon
<1> QED
  BY <1>1, <1>2, <1>3, SMT

\* The checksum test of the receiver on a header that differs from what was
\* written in at most one byte: passed exactly when there is no difference.
LEMMA ChecksumTells ==
  ASSUME NEW w \in Seq(Word), Len(w) <= 30, ipv4_checksum(w) = 0,
         0 < w[1],
         NEW u \in Seq(Word), Len(u) = Len(w), 0 < u[1],
         NEW j \in 1 .. Len(w), u[j] # w[j],
         \A i \in 1 .. Len(w) : i # j => u[i] = w[i],
         u[j] \div 256 = w[j] \div 256 \/ u[j] % 256 = w[j] % 256
  PROVE  ipv4_checksum(u) # 0
<1>1. /\ Sum(w) \in Nat /\ Sum(w) <= MaxWord * Len(w)
      /\ \A i \in 1 .. Len(w) : w[i] <= Sum(w)
  BY SumBounds, Zenon
<1>2. /\ Sum(u) \in Nat /\ Sum(u) <= MaxWord * Len(u)
      /\ \A i \in 1 .. Len(u) : u[i] <= Sum(u)
  BY SumBounds, Zenon
<1>3. Sum(u) - Sum(w) = u[j] - w[j]
  BY SumChange, Zenon
<1>4. w[1] \in Nat /\ u[1] \in Nat /\ 1 \in 1 .. Len(w) /\ u[j] \in Word /\ w[j] \in Word
  BY WordIs, SMT
<1>5. /\ Sum(w) \in UInt32 /\ 0 < Sum(w)
      /\ Sum(u) \in UInt32 /\ 0 < Sum(u)
  <2>1. Len(w) \in Nat /\ Len(w) <= 30
    BY SMT
  <2>2. \A a, b \in Nat : b <= 30 /\ a <= MaxWord * b => a \in UInt32
    BY SMT DEF UInt32, MaxWord
  <2>3. Sum(w) \in UInt32 /\ Sum(u) \in UInt32
    BY <1>1, <1>2, <2>1, <2>2, Zenon
  <2>4. w[1] <= Sum(w) /\ u[1] <= Sum(u)
    BY <1>1, <1>2, <1>4, Zenon
  <2> QED
    BY <1>1, <1>2, <1>4, <2>3, <2>4, SMT
<1>6. -65280 <= u[j] - w[j] /\ u[j] - w[j] <= 65280
  BY <1>4, ByteChange, SMT
<1>7. /\ Sum(u) # Sum(w)
      /\ -65280 <= Sum(u) - Sum(w) /\ Sum(u) - Sum(w) <= 65280
  BY <1>1, <1>2, <1>3, <1>4, <1>6, WordIs, SMT
<1>8. Complement(Fold(Sum(w))) = 0
  BY Zenon DEF ipv4_checksum
<1>9. Complement(Fold(Sum(u))) # 0
  BY <1>5, <1>7, <1>8, DamageDetected, SMT
<1> QED
  BY <1>9, Zenon DEF ipv4_checksum

\* The flags of a packet that is no fragment.
Unfragmented == {0, 16384}

\* What is left of ReceiveExact for one packet.
TakesExactly(p) ==
  Accepted(p) <=> /\ IsPrefix(p.written, p.words)
                  /\ p.written[2] <= p.capacity
                  /\ p.written[4] \in Unfragmented
                  /\ <<p.written[9], p.written[10]>> \in {LocalIp, Broadcast}

\* For every packet with at most one fault, of every length, the tests of
\* ipv4_receive together take it exactly when it should be taken.
LEMMA ReceiveDecides ==
  ASSUME NEW p \in Incoming, OneFault(p)
  PROVE  TakesExactly(p)
<1> DEFINE w == p.written
           x == p.words
           c == p.capacity
           n == Len(w)
<1>0. WrittenHeader(w)
  BY Zenon DEF OneFault
<1>1. c \in Nat /\ x \in Seq(Word) /\ w \in Seq(Word)
  <2>1. w \in Seq(Word)
    BY <1>0, SMT DEF WrittenHeader
  <2> QED
    BY <2>1, Ipv4Assumption, Zenon DEF OneFault
<1>2. PICK ihl \in 5 .. 15 : n = 2 * ihl /\ w[1] \div 256 = 64 + ihl
  BY <1>0, SMT DEF WrittenHeader
<1>3. w[2] >= 2 * n /\ w[4] < 2 * 16384 /\ ipv4_checksum(w) = 0
  BY <1>0, SMT DEF WrittenHeader
<1>3a. ipv4_checksum(w) = 0
  BY <1>3, SMT
<1>4. Len(x) \in Nat /\ n \in Nat /\ 10 <= n /\ n <= 30
  BY <1>1, <1>2, SMT
<1>5. 2 * Len(x) <= c /\ (2 * n <= c => n <= Len(x)) /\ (20 <= c => 10 <= Len(x))
  <2>1. Len(x) \in Min({c \div 2, n}) .. c \div 2
    BY Zenon DEF OneFault
  <2>2. c \div 2 \in Nat
    BY <1>1, SMT
  <2>3. Min({c \div 2, n}) \in {c \div 2, n}
    <3>1. {c \div 2, n} \in SUBSET Nat /\ {c \div 2, n} # {}
      BY <1>4, <2>2, Zenon
    <3> QED
      BY <3>1, MinIsFirst, Zenon
  <2> HIDE DEF x, c, n
  <2> QED
    BY <1>1, <1>4, <2>1, <2>2, <2>3, SMT
<1>6. \A i \in 1 .. n : w[i] \in Word
  BY <1>1, SMT
<1>7. \A i \in 1 .. Len(x) : x[i] \in Word
  BY <1>1, SMT
<1>8. ASSUME NEW i \in 1 .. n, i \in 1 .. Len(x), x[i] # w[i]
      PROVE  /\ \/ x[i] \div 256 = w[i] \div 256
                \/ x[i] % 256 = w[i] % 256 /\ i # 1
             /\ \A k \in 1 .. n : k \in 1 .. Len(x) /\ k # i => x[k] = w[k]
  <2>1. DOMAIN w = 1 .. n /\ DOMAIN x = 1 .. Len(x)
    BY <1>1, SMT
  <2>2. i \in Changed(p)
    BY <1>8, <2>1, Zenon DEF Changed
  <2>3. ASSUME NEW k \in 1 .. n, k \in 1 .. Len(x), k # i, x[k] # w[k] PROVE FALSE
    BY <2>1, <2>2, <2>3, Zenon DEF Changed, OneFault
  <2> QED
    BY <2>2, <2>3, Zenon DEF OneFault
<1>9. IsPrefix(w, x) <=> n <= Len(x) /\ \A i \in 1 .. n : x[i] = w[i]
  <2>1. SubSeq(w, 1, n) = w
    BY <1>1, SMT
  <2>2. ASSUME n <= Len(x)
        PROVE  SubSeq(x, 1, n) = w <=> \A i \in 1 .. n : x[i] = w[i]
    <3>1. SubSeq(x, 1, n) = [i \in 1 .. n |-> x[i]]
      BY <1>1, <1>4, <2>2, SMT
    <3>2. w = [i \in 1 .. n |-> w[i]]
      BY <1>1, SMT
    <3> QED
      BY <3>1, <3>2, Zenon
  <2> QED
    BY <2>1, <2>2, Zenon DEF IsPrefix
<1> HIDE DEF w, x, c, n
<1>10. CASE c < 20
  <2>1. Short(p)
    BY <1>10, SMT DEF Short, IPV4_HEADER_MIN_SIZE, c
  <2>2. ~ (n <= Len(x))
    BY <1>1, <1>4, <1>5, <1>10, SMT
  <2> QED
    BY <1>9, <2>1, <2>2, Zenon DEF TakesExactly, Accepted, w, x
<1>11. CASE 20 <= c
  <2>1. 10 <= Len(x) /\ 1 \in 1 .. n /\ 1 \in 1 .. Len(x) /\ ~ (c < 20)
    BY <1>1, <1>4, <1>5, <1>11, SMT
  <2>2. x[1] \div 256 = 64 + ihl
    BY <1>2, <1>8, <2>1, Zenon
  <2>3. HeaderLen(p) = 2 * n /\ Version(p) = 4 /\ 0 < x[1] /\ 0 < w[1]
    <3>1. x[1] \in Word /\ w[1] \in Word
      BY <1>6, <1>7, <2>1, Zenon
    <3>2. x[1] \div 4096 = 4
      BY <2>2, <3>1, WordIs, SMT
    <3>3. 4 * ((x[1] \div 256) % 16) = 2 * n
      BY <1>2, <2>2, <3>1, WordIs, SMT
    <3>4. 0 < x[1] /\ 0 < w[1]
      BY <1>2, <2>2, <3>1, WordIs, SMT
    <3> QED
      BY <3>2, <3>3, <3>4, SMT DEF HeaderLen, Version, x
  <2>4. ~ Short(p)
    BY <2>1, Zenon DEF Short, IPV4_HEADER_MIN_SIZE, c
  <2>5. CASE 2 * n > c
    <3>1. Malformed(p)
      BY <2>3, <2>5, Zenon DEF Malformed, c
    <3>2. ~ (n <= Len(x))
      BY <1>1, <1>4, <1>5, <2>5, SMT
    <3> QED
      BY <1>9, <3>1, <3>2, Zenon DEF TakesExactly, Accepted, w, x
  <2>6. CASE 2 * n <= c
    <3>1. ~ Malformed(p)
      BY <1>1, <1>4, <2>3, <2>6, SMT DEF Malformed, IPV4_HEADER_MIN_SIZE, c
    <3>2. n <= Len(x)
      BY <1>5, <2>6
    <3> DEFINE u == SubSeq(x, 1, n)
    <3>3. u \in Seq(Word) /\ Len(u) = n /\ \A i \in 1 .. n : u[i] = x[i]
      BY <1>1, <1>4, <3>2, SMT
    <3>4. HeaderLen(p) \div 2 = n
      BY <1>4, <2>3, SMT
    <3>5. BadChecksum(p) <=> ipv4_checksum(u) # 0
      BY <3>4, Zenon DEF BadChecksum, x
    <3> HIDE DEF u
    <3>6. CASE \A i \in 1 .. n : x[i] = w[i]
      <4>1. u = w
        <5>1. \A i \in 1 .. n : u[i] = w[i]
          BY <3>3, <3>6, Zenon
        <5>2. Len(w) = n
          BY Zenon DEF n
        <5> QED
          BY <1>1, <3>3, <5>1, <5>2, SMT
      <4>2. ~ BadChecksum(p)
        BY <1>3, <3>5, <4>1, SMT
      <4>3. /\ 2 \in 1 .. n /\ 4 \in 1 .. n /\ 9 \in 1 .. n /\ 10 \in 1 .. n
        BY <1>4, SMT
      <4>4. x[2] = w[2] /\ x[4] = w[4] /\ x[9] = w[9] /\ x[10] = w[10]
        BY <3>6, <4>3, Zenon
      <4>5. BadLength(p) <=> ~ (w[2] <= c)
        <5>1. w[2] \in Word
          BY <1>6, <4>3, Zenon
        <5>2. \A a \in Nat : a >= 2 * n => ((a < 2 * n \/ a > c) <=> ~ (a <= c))
          BY <1>1, <1>4, SMT
        <5>3. w[2] \in Nat /\ w[2] >= 2 * n
          BY <1>3, <5>1, WordIs, SMT
        <5> QED
          BY <2>3, <4>4, <5>2, <5>3, Zenon DEF BadLength, TotalLength, x, c
      <4>6. Fragment(p) <=> ~ (w[4] \in Unfragmented)
        <5>1. w[4] \in Word
          BY <1>6, <4>3, Zenon
        <5>2. (x[4] \div 8192) % 2 = 1 \/ x[4] % 8192 # 0 <=> ~ (w[4] \in Unfragmented)
          BY <1>3, <4>4, <5>1, WordIs, SMT DEF Unfragmented
        <5> QED
          BY <5>2, SMT DEF Fragment, x
      <4>7. ipv4_is_for_us(DstIp(p)) <=> <<w[9], w[10]>> \in {LocalIp, Broadcast}
        BY <4>4, Zenon DEF ipv4_is_for_us, DstIp, x
      <4>8. IsPrefix(w, x)
        BY <1>9, <3>2, <3>6, Zenon
      <4> QED
        BY <2>4, <3>1, <4>2, <4>5, <4>6, <4>7, <4>8, Zenon DEF TakesExactly, Accepted, w, x, c
    <3>7. CASE \E i \in 1 .. n : x[i] # w[i]
      <4>1. PICK j \in 1 .. n : x[j] # w[j]
        BY <3>7, Zenon
      <4>2. \A i \in 1 .. n : i \in 1 .. Len(x)
        BY <1>4, <3>2, SMT
      <4>3. /\ x[j] \div 256 = w[j] \div 256 \/ x[j] % 256 = w[j] % 256
            /\ \A k \in 1 .. n : k # j => x[k] = w[k]
        BY <1>8, <4>1, <4>2, Zenon
      <4>4. ipv4_checksum(u) # 0
        <5>1. /\ Len(w) = n /\ n <= 30 /\ Len(u) = n
              /\ u[1] = x[1] /\ u[j] = x[j]
              /\ \A k \in 1 .. n : k # j => u[k] = w[k]
          BY <1>4, <2>1, <3>3, <4>3, Zenon DEF n
        <5>2. /\ Len(w) <= 30 /\ Len(u) = Len(w) /\ 0 < u[1] /\ j \in 1 .. Len(w)
              /\ u[j] # w[j]
              /\ u[j] \div 256 = w[j] \div 256 \/ u[j] % 256 = w[j] % 256
              /\ \A k \in 1 .. Len(w) : k # j => u[k] = w[k]
          BY <2>3, <4>1, <4>3, <5>1, Zenon
        <5> QED
          BY <1>1, <1>3a, <2>3, <3>3, <5>2, ChecksumTells, Zenon
      <4>5. ~ IsPrefix(w, x)
        BY <1>9, <4>1, Zenon
      <4> QED
        BY <3>5, <4>4, <4>5, Zenon DEF TakesExactly, Accepted, w, x
    <3> QED
      BY <3>6, <3>7, Zenon
  <2> QED
    BY <1>1, <1>4, <2>5, <2>6, SMT
<1> QED
  BY <1>1, <1>10, <1>11, SMT

-----------------------------------------------------------------------------
(* What ipv4_send builds. *)

\* Version 4 and five words of header.
FirstWord == 17664

\* A time to live of 64, and the protocol.
FifthWord(protocol) == 64 * 256 + protocol

\* Ten words that sum up to something, with their checksum in the sixth.
LEMMA Checksummed ==
  ASSUME NEW ws \in Seq(Word), Len(ws) = 10, ws[1] = FirstWord, ws[6] = 0,
         NEW h, h = [ws EXCEPT ![6] = ipv4_checksum(ws)]
  PROVE  /\ h \in Seq(Word) /\ Len(h) = 10
         /\ \A i \in 1 .. 10 : i # 6 => h[i] = ws[i]
         /\ ipv4_checksum(h) = 0
<1> DEFINE sum == ipv4_checksum(ws)
<1>1. /\ Sum(ws) \in Nat /\ 0 < Sum(ws) /\ Sum(ws) <= MaxWord * 10
  <2>1. Sum(ws) \in Nat /\ Sum(ws) <= MaxWord * Len(ws)
    BY SumBounds, Zenon
  <2>2. 1 \in 1 .. Len(ws)
    BY SMT
  <2>3. ws[1] <= Sum(ws)
    BY <2>2, SumBounds, Zenon
  <2> QED
    BY <2>1, <2>3, SMT DEF FirstWord
<1>2. Sum(ws) \in UInt32 /\ 0 < Sum(ws)
  BY <1>1, SMT DEF UInt32, MaxWord
<1>3. sum = Complement(Fold(Sum(ws)))
  BY Zenon DEF ipv4_checksum
<1>4. sum \in Word
  <2>1. Fold(Sum(ws)) \in Nat
    BY <1>2, FoldResidue, SMT
  <2> QED
    BY <1>3, <2>1, WordIs, SMT DEF Complement
<1> HIDE DEF sum
<1>5. h = [ws EXCEPT ![6] = sum]
  BY Zenon DEF sum
<1>6. h \in Seq(Word) /\ Len(h) = 10 /\ h[6] = sum /\ \A i \in 1 .. 10 : i # 6 => h[i] = ws[i]
  <2> DEFINE n == Len(ws)
  <2>1. n \in Nat /\ ws \in [1 .. n -> Word] /\ 6 \in 1 .. n
    BY SMT
  <2>2. n = 10
    OBVIOUS
  <2> HIDE DEF n
  <2>3. h = [i \in 1 .. n |-> IF i = 6 THEN sum ELSE ws[i]]
    BY <1>5, <2>1, Zenon
  <2>4. h \in [1 .. n -> Word]
    BY <1>4, <2>1, <2>3, Zenon
  <2>5. h \in Seq(Word) /\ Len(h) = n
    BY <2>1, <2>4, SMT
  <2> QED
    BY <2>1, <2>2, <2>3, <2>5, Zenon
<1>7. Sum(h) = Sum(ws) + sum
  <2>1. 6 \in 1 .. Len(ws) /\ Len(h) = Len(ws) /\ \A i \in 1 .. Len(ws) : i # 6 => h[i] = ws[i]
    BY <1>6, SMT
  <2>2. Sum(h) - Sum(ws) = h[6] - ws[6]
    BY <1>6, <2>1, SumChange, Zenon
  <2>3. Sum(h) \in Nat
    BY <1>6, SumBounds, Zenon
  <2> QED
    BY <1>1, <1>4, <1>6, <2>2, <2>3, WordIs, SMT
<1>8. ipv4_checksum(h) = 0
  <2>1. Sum(ws) <= 4294901760
    BY <1>1, SMT DEF MaxWord
  <2>2. Complement(Fold(Sum(ws) + Complement(Fold(Sum(ws))))) = 0
    BY <1>2, <2>1, ChecksumVerifies, SMT
  <2> QED
    BY <1>3, <1>7, <2>2, Zenon DEF ipv4_checksum
<1> QED
  BY <1>6, <1>8, Zenon

\* What a receiver needs to know of a header.
WellMade(h, total, protocol, dst) ==
  /\ h \in Seq(Word) /\ Len(h) = 10
  /\ h[1] = FirstWord /\ h[2] = total /\ h[4] = 0
  /\ h[5] = FifthWord(protocol)
  /\ h[9] = dst[1] /\ h[10] = dst[2]
  /\ ipv4_checksum(h) = 0

\* The header that ipv4_send writes: the fields, and a checksum that fits them.
LEMMA HeaderIs ==
  ASSUME NEW total \in Word, NEW id \in Word, NEW protocol \in Protocols,
         NEW src \in Address, NEW dst \in Address
  PROVE  WellMade(Header(total, id, protocol, src, dst), total, protocol, dst)
<1> DEFINE h == Header(total, id, protocol, src, dst)
           ws == <<4 * 4096 + 5 * 256, total, id, 0, 64 * 256 + protocol, 0,
                   src[1], src[2], dst[1], dst[2]>>
<1>1. src[1] \in Word /\ src[2] \in Word /\ dst[1] \in Word /\ dst[2] \in Word
  BY SMT DEF Address
<1>2. /\ 4 * 4096 + 5 * 256 = FirstWord
      /\ 64 * 256 + protocol \in Word /\ 0 \in Word /\ FirstWord \in Word
  BY WordIs, SMT DEF Protocols, FirstWord
<1>3. ws \in Seq(Word) /\ Len(ws) = 10
  BY <1>1, <1>2, SMT
<1>4. /\ ws[1] = FirstWord /\ ws[2] = total /\ ws[4] = 0 /\ ws[6] = 0
      /\ ws[5] = FifthWord(protocol)
      /\ ws[9] = dst[1] /\ ws[10] = dst[2]
  BY <1>2, SMT DEF FifthWord
<1>5. h = [ws EXCEPT ![6] = ipv4_checksum(ws)]
  BY SMT DEF Header
<1> HIDE DEF ws, h
<1>6. /\ h \in Seq(Word) /\ Len(h) = 10
      /\ \A i \in 1 .. 10 : i # 6 => h[i] = ws[i]
      /\ ipv4_checksum(h) = 0
  BY <1>3, <1>4, <1>5, Checksummed, Zenon
<1>7. \A i \in {1, 2, 4, 5, 9, 10} : i \in 1 .. 10 /\ i # 6
  BY SMT
<1>8. WellMade(h, total, protocol, dst)
  BY <1>4, <1>6, <1>7, Zenon DEF WellMade
<1> QED
  BY <1>8, Zenon DEF h

\* What a packet of ipv4_send was built from.
SentFrom(sent, len, id, protocol, dst) ==
  /\ len <= IPV4_MAX_PACKET_SIZE - IPV4_HEADER_MIN_SIZE
  /\ sent.ip = dst /\ sent.len = len /\ sent.protocol = protocol
  /\ sent.packet = Packet(Header(20 + len, id, protocol, LocalIp, dst), 20 + len)

\* What is left of SentIsAccepted for one packet.
GoodPacket(sent) ==
  LET p == sent.packet
  IN  /\ ~ (Short(p) \/ Malformed(p) \/ BadLength(p) \/ BadChecksum(p) \/ Fragment(p))
      /\ DstIp(p) = sent.ip
      /\ TotalLength(p) = HeaderLen(p) + sent.len
      /\ Protocol(p) = sent.protocol

\* A packet that ipv4_send has built passes every test of ipv4_receive.
LEMMA SentPasses ==
  ASSUME NEW sent, NEW len \in Nat, NEW id \in Word, NEW protocol \in Protocols,
         NEW dst \in Address, SentFrom(sent, len, id, protocol, dst)
  PROVE  GoodPacket(sent)
<1> DEFINE total == 20 + len
           h == Header(total, id, protocol, LocalIp, dst)
           p == sent.packet
<1>1. /\ len <= IPV4_MAX_PACKET_SIZE - IPV4_HEADER_MIN_SIZE /\ sent.ip = dst /\ sent.len = len
      /\ sent.protocol = protocol /\ p = Packet(h, total)
  BY Zenon DEF SentFrom
<1>2. total \in Word /\ total \in Nat /\ 20 <= total
  BY <1>1, WordIs, SMT DEF IPV4_MAX_PACKET_SIZE, IPV4_HEADER_MIN_SIZE
<1> HIDE DEF total
<1>3. LocalIp \in Address
  BY Ipv4Assumption, Zenon
<1>4. /\ h \in Seq(Word) /\ Len(h) = 10
      /\ h[1] = FirstWord /\ h[2] = total /\ h[4] = 0
      /\ h[5] = FifthWord(protocol)
      /\ h[9] = dst[1] /\ h[10] = dst[2]
      /\ ipv4_checksum(h) = 0
  <2>1. WellMade(h, total, protocol, dst)
    BY <1>2, <1>3, HeaderIs, Zenon
  <2> HIDE DEF h
  <2> QED
    BY <2>1, Zenon DEF WellMade
<1> HIDE DEF h, p
<1>5. p.words = h /\ p.capacity \in Nat /\ p.capacity >= 46 /\ p.capacity >= total
  BY <1>1, <1>2, SMT DEF Packet
<1>6. HeaderLen(p) = 20 /\ Version(p) = 4 /\ TotalLength(p) = total
  BY <1>4, <1>5, SMT DEF HeaderLen, Version, TotalLength, FirstWord
<1>7. ~ Short(p) /\ ~ Malformed(p) /\ ~ BadLength(p)
  BY <1>2, <1>5, <1>6, SMT DEF Short, Malformed, BadLength, IPV4_HEADER_MIN_SIZE
<1>8. ~ BadChecksum(p)
  <2>1. SubSeq(h, 1, 10) = h
    BY <1>4, SMT
  <2>2. HeaderLen(p) \div 2 = 10
    BY <1>6, SMT
  <2> QED
    BY <1>4, <1>5, <2>1, <2>2, Zenon DEF BadChecksum
<1>9. ~ Fragment(p)
  BY <1>4, <1>5, SMT DEF Fragment
<1>10. DstIp(p) = sent.ip
  <2>1. dst = <<dst[1], dst[2]>>
    BY SMT DEF Address
  <2> QED
    BY <1>1, <1>4, <1>5, <2>1, Zenon DEF DstIp
<1>11. TotalLength(p) = HeaderLen(p) + sent.len
  BY <1>1, <1>6, SMT DEF total
<1>12. Protocol(p) = sent.protocol
  <2>1. FifthWord(protocol) % 256 = protocol
    BY SMT DEF Protocols, FifthWord
  <2>2. p.words[5] = FifthWord(protocol) /\ sent.protocol = protocol
    BY <1>1, <1>4, <1>5, Zenon
  <2> QED
    BY <2>1, <2>2, SMT DEF Protocol
<1> QED
  BY <1>7, <1>8, <1>9, <1>10, <1>11, <1>12, Zenon DEF GoodPacket, p

-----------------------------------------------------------------------------
(* The invariant behind the theorems: where what last holds came from. *)

\* What ipv4_receive has been given came from the network.
FromNetwork == last.kind = "received" => last.packet \in Incoming

\* What went out was built by ipv4_send from arguments it does not refuse.
FromSend ==
  last.kind = "sent" =>
    \E len \in Nat, id \in Word, protocol \in Protocols, dst \in Address :
      SentFrom(last, len, id, protocol, dst)

Origins == FromNetwork /\ FromSend /\ next_identification \in Word

NextIdentification == (next_identification + 1) % 65536

\* ipv4_send refuses what does not fit, so that what it sends has the form
\* above; the identification wraps around in its 16 bits.
LEMMA SendKeepsOrigins ==
  ASSUME Origins, NEW dst \in Ips \cup {Broadcast}, NEW protocol \in Protocols,
         NEW null \in BOOLEAN, NEW len \in Payloads,
         ipv4_send(dst, protocol, null, len)
  PROVE  Origins'
<1>1. dst \in Address /\ len \in Nat /\ next_identification \in Word
  BY Ipv4Assumption, Zenon DEF Origins
<1>2. CASE /\ last' \in {[kind |-> "refused"], [kind |-> "arp_request", ip |-> dst]}
           /\ UNCHANGED next_identification
  <2>1. last'.kind # "received" /\ last'.kind # "sent"
    BY <1>2, SMT
  <2> QED
    BY <1>1, <1>2, <2>1, Zenon DEF Origins, FromNetwork, FromSend
<1>3. CASE /\ ~ Refused(null, len)
           /\ next_identification' = NextIdentification
           /\ \E mac : last' = [kind |-> "sent", mac |-> mac, ip |-> dst,
                                protocol |-> protocol, len |-> len,
                                packet |-> Packet(Header(20 + len, next_identification, protocol,
                                                         LocalIp, dst), 20 + len)]
  <2> DEFINE k == Packet(Header(20 + len, next_identification, protocol, LocalIp, dst), 20 + len)
  <2>1. last'.kind = "sent" /\ last'.ip = dst /\ last'.len = len
        /\ last'.protocol = protocol /\ last'.packet = k
    <3> HIDE DEF k
    <3>1. PICK mac : last' = [kind |-> "sent", mac |-> mac, ip |-> dst, protocol |-> protocol,
                             len |-> len, packet |-> k]
      BY <1>3, Zenon DEF k
    <3> QED
      BY <3>1, SMT
  <2>2. len <= IPV4_MAX_PACKET_SIZE - IPV4_HEADER_MIN_SIZE
    BY <1>1, <1>3, SMT DEF Refused, IPV4_MAX_PACKET_SIZE, IPV4_HEADER_MIN_SIZE
  <2>3. SentFrom(last', len, next_identification, protocol, dst)
    BY <2>1, <2>2, Zenon DEF SentFrom
  <2>4. next_identification' \in Word
    BY <1>1, <1>3, WordIs, SMT DEF NextIdentification
  <2>5. FromSend'
    BY <1>1, <2>3, Zenon DEF FromSend
  <2>6. FromNetwork'
    BY <2>1, SMT DEF FromNetwork
  <2> QED
    BY <2>4, <2>5, <2>6, Zenon DEF Origins
<1> QED
  BY <1>2, <1>3, SMT DEF ipv4_send, arp_request, IPV4_HEADER_MIN_SIZE, NextIdentification

\* Every step keeps the invariant.
LEMMA OriginsKept == Spec => []Origins
<1>1. Init => Origins
  BY WordIs, SMT DEF Init, Origins, FromNetwork, FromSend
<1>2. Origins /\ [Next]_vars => Origins'
  <2> SUFFICES ASSUME Origins, [Next]_vars PROVE Origins'
    OBVIOUS
  <2>1. ASSUME NEW p \in Incoming, ipv4_receive(p) PROVE Origins'
    <3>1. last'.kind = "received" /\ last'.packet = p /\ next_identification' = next_identification
      BY <2>1, SMT DEF ipv4_receive
    <3> QED
      BY <3>1, SMT DEF Origins, FromNetwork, FromSend
  <2>2. ASSUME NEW ip \in Ips, NEW mac \in Macs, ArpReceive(ip, mac) PROVE Origins'
    BY <2>2, Zenon DEF ArpReceive, Origins, FromNetwork, FromSend
  <2>3. ASSUME NEW text \in Texts, ArpCommand(text) PROVE Origins'
    <3>1. last'.kind # "received" /\ last'.kind # "sent" /\ next_identification' = next_identification
      BY <2>3, SMT DEF ArpCommand
    <3> QED
      BY <3>1, Zenon DEF Origins, FromNetwork, FromSend
  <2>4. CASE UNCHANGED vars
    BY <2>4, Zenon DEF vars, Origins, FromNetwork, FromSend
  <2> QED
    BY <2>1, <2>2, <2>3, <2>4, SendKeepsOrigins, Zenon DEF Next
<1> QED
  BY <1>1, <1>2, PTL DEF Spec

\* ipv4_receive looks at no byte behind the frame, for any set of frames the
\* network may deliver and any number of them.
THEOREM ReadsInside == Spec => []ReadsWithinFrame
<1>1. Origins => ReadsWithinFrame
  BY BytesReadInside, Zenon DEF Origins, FromNetwork, ReadsWithinFrame
<1> QED
  BY <1>1, OriginsKept, PTL

\* ipv4_receive takes exactly the whole, unfragmented packets for this host
\* with the header their sender wrote, for every length of header and packet,
\* every cut and every change of one byte.
THEOREM ReceivesExactly == Spec => []ReceiveExact
<1>1. Origins => ReceiveExact
  BY ReceiveDecides, SMT DEF Origins, FromNetwork, ReceiveExact, TakesExactly, Unfragmented
<1> QED
  BY <1>1, OriginsKept, PTL

\* Every packet ipv4_send builds passes the tests of ipv4_receive, for every
\* address, protocol and payload length that it does not refuse.
THEOREM SendsAcceptable == Spec => []SentIsAccepted
<1>1. Origins => SentIsAccepted
  BY SentPasses, Zenon DEF Origins, FromSend, SentIsAccepted, GoodPacket
<1> QED
  BY <1>1, OriginsKept, PTL
=============================================================================
