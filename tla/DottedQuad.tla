----------------------------- MODULE DottedQuad -----------------------------
(***************************************************************************)
(* Addresses as text: parse_ipv4 of user/shell.c and print_ipv4 of the     *)
(* kernel with printNum of kernel/common.c.  Characters are their codes; a *)
(* 32-bit address is the pair of its 16-bit halves.                        *)
(***************************************************************************)
EXTENDS Integers, Sequences, SequencesExt

NUL == 0
Dot == 46
Digits == 48 .. 57
Byte == 0 .. 255

\* (value << 8) | byte, in 32 bits.
ShiftIn(ip, byte) == <<(ip[1] * 256 + ip[2] \div 256) % 65536, (ip[2] * 256 + byte) % 65536>>

\* Mutation: >= 256 written as > 256.
ParseCharLoose(p, c) ==
  LET number == p.number * 10 + (c - 48)
      ends == p.digits > 0 /\ (IF p.part < 3 THEN c = Dot ELSE c = NUL)
  IN  IF ~ p.ok THEN p
      ELSE IF c \in Digits
      THEN [p EXCEPT !.number = number, !.digits = @ + 1, !.ok = number <= 256]
      ELSE [p EXCEPT !.value = ShiftIn(@, p.number), !.part = @ + 1, !.ok = ends,
                     !.number = 0, !.digits = 0]

\* The loops of parse_ipv4 at one character; NUL ends the text.
ParseChar(p, c) ==
  LET number == p.number * 10 + (c - 48)
      ends == p.digits > 0 /\ (IF p.part < 3 THEN c = Dot ELSE c = NUL)
  IN  IF ~ p.ok THEN p
      ELSE IF c \in Digits
      THEN [p EXCEPT !.number = number, !.digits = @ + 1, !.ok = number <= 255]
      ELSE [p EXCEPT !.value = ShiftIn(@, p.number), !.part = @ + 1, !.ok = ends,
                     !.number = 0, !.digits = 0]

parse_ipv4(text) ==
  LET p == FoldLeft(ParseChar, [part |-> 0, number |-> 0, digits |-> 0, value |-> <<0, 0>>,
                                ok |-> TRUE], Append(text, NUL))
  IN  [ok |-> p.ok, ip |-> p.value]

Powers == {1, 10, 100, 1000, 10000, 100000, 1000000, 10000000, 100000000, 1000000000}

\* Where that loop stops.
Magnitude(num) == Min({m \in Powers : m > num \div 10})

\* One character for each power of ten from magnitude down, for num >= 0.
printNum(num) ==
  LET mag == SetToSortSeq({m \in Powers : m <= Magnitude(num)}, >)
  IN  [i \in DOMAIN mag |-> 48 + (IF i = 1 THEN num ELSE num % mag[i - 1]) \div mag[i]]

print_ipv4(ip) ==
  printNum(ip[1] \div 256) \o <<Dot>> \o printNum(ip[1] % 256) \o <<Dot>>
    \o printNum(ip[2] \div 256) \o <<Dot>> \o printNum(ip[2] % 256)

-----------------------------------------------------------------------------
(* What the text of an address means, without an algorithm. *)

Decimal(s) == FoldLeft(LAMBDA n, c : 10 * n + (c - 48), 0, s)

\* The texts between the dots.
Part(text, k) ==
  LET dots == {0, Len(text) + 1} \cup {i \in DOMAIN text : text[i] = Dot}
      nth(n) == CHOOSE i \in dots : Cardinality({j \in dots : j < i}) = n
  IN  SubSeq(text, nth(k) + 1, nth(k + 1) - 1)

IsDottedQuad(text) ==
  /\ Cardinality({i \in DOMAIN text : text[i] = Dot}) = 3
  /\ \A k \in 0 .. 3 : LET s == Part(text, k)
                       IN  s # <<>> /\ Range(s) \subseteq Digits /\ Decimal(s) \in Byte

Meaning(text) ==
  LET b(k) == Decimal(Part(text, k)) IN <<256 * b(0) + b(1), 256 * b(2) + b(3)>>
=============================================================================
