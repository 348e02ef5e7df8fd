------------------------------- MODULE MCIpv4 -------------------------------
(***************************************************************************)
(* Ipv4 with the addresses of the code.  Incoming packets are what a peer  *)
(* builds with the header of ipv4_send, with or without an option, cut to  *)
(* some length or with one byte changed.  The texts behind the arp command *)
(* are quads with every number below 1000 in every place, quads of odd     *)
(* parts with odd ends, and the address of this host with any character in *)
(* any place.                                                              *)
(***************************************************************************)
EXTENDS Ipv4

Local == <<2560, 527>>             \* 10.0.2.15
Everyone == <<65535, 65535>>
Gateway == <<2560, 514>>           \* 10.0.2.2
\* The sum over the first header sent there is 131071: the first fold carries.
Carry == <<49320, 44578>>          \* 192.168.174.34
MCIps == {Gateway, Carry}

Options(n) == [i \in 1 .. n |-> 257 * i]
Written(ihl, total, frag, dst) ==
  LET ws == <<16384 + 256 * ihl, total, 7, frag, 64 * 256 + 17, 0>> \o Gateway \o dst
              \o Options(2 * (ihl - 5))
  IN  [ws EXCEPT ![6] = ipv4_checksum(ws)]

Whole == {Written(ihl, total, frag, dst) :
            ihl \in {5, 6}, total \in {24, 46, 60}, frag \in {0, 16384, 8192, 1},
            dst \in {Local, Everyone, Gateway}}

\* The words of a packet of capacity bytes; behind the header a payload of zeroes.
Cut(w, capacity) == [i \in 1 .. Min({capacity \div 2, 30}) |-> IF i <= Len(w) THEN w[i] ELSE 0]

\* One byte of word i changed; not the header length, which says what is summed.
Bytes(w, i) ==
  {256 * b + (w[i] % 256) : b \in IF i = 1 THEN {} ELSE {0, 1, 255}}
    \cup {256 * (w[i] \div 256) + b : b \in {0, 1, 255}}
Damaged(w) == UNION {{[w EXCEPT ![i] = x] : x \in Bytes(w, i)} : i \in DOMAIN w}

MCIncoming ==
  {[capacity |-> c, words |-> Cut(w, c), written |-> w] : w \in Whole, c \in {0, 2, 18, 20, 22, 24, 46, 60}}
    \cup UNION {{[capacity |-> 60, words |-> Cut(d, 60), written |-> w] : d \in Damaged(w)} :
                 w \in {Written(ihl, 60, 0, Local) : ihl \in {5, 6}}}

Join(a, b, c, d) == a \o <<Dot>> \o b \o <<Dot>> \o c \o <<Dot>> \o d

\* "", "0", "00", "007", "10", "255", "256", "1000", "1/" and "-1"
Parts == {<<>>, <<48>>, <<48, 48>>, <<48, 48, 55>>, <<49, 48>>, <<50, 53, 53>>, <<50, 53, 54>>,
          <<49, 48, 48, 48>>, <<49, 47>>, <<45, 49>>}
\* "", ".", ".7", ":" and " "
Ends == {<<>>, <<Dot>>, <<Dot, 55>>, <<58>>, <<32>>}
Plain == <<49, 48>>

OddTexts ==
  UNION {{Join(Plain, Plain, a, b) \o e, Join(a, b, Plain, Plain) \o e,
          Join(Plain, a, b, Plain) \o e, Join(a, Plain, Plain, b) \o e, a \o <<Dot>> \o b \o e} :
         a \in Parts, b \in Parts, e \in Ends}
Numbers ==
  UNION {{Join(printNum(n), Plain, Plain, Plain), Join(Plain, printNum(n), Plain, Plain),
          Join(Plain, Plain, printNum(n), Plain), Join(Plain, Plain, Plain, printNum(n))} :
         n \in 0 .. 999}
Spoiled ==
  {[print_ipv4(Local) EXCEPT ![i] = c] : i \in DOMAIN print_ipv4(Local), c \in 1 .. 255}

MCTexts == OddTexts \cup Numbers \cup Spoiled \cup {print_ipv4(ip) : ip \in MCIps \cup {Everyone}}
=============================================================================
