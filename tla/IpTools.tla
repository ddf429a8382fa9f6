------------------------------- MODULE IpTools -------------------------------
(***************************************************************************)
(* tools/tools.h and tools/subnets.h: addresses, masks and their texts.     *)
(* The arithmetic is on words of Width bits (32 in the code), a word being  *)
(* the set of its bits; the byte swapping in the code only brings the       *)
(* octets of an address into the order of its bits.  Texts are sequences of *)
(* characters, a digit being its value.                                     *)
(***************************************************************************)
EXTENDS Integers, Sequences

CONSTANT Width

ASSUME WidthTyped == Width \in Nat \ {0}

Word == SUBSET (0..(Width - 1))
Power[k \in 0..Width] == IF k = 0 THEN 1 ELSE 2 * Power[k - 1]

\* The number a word stands for, and the word that stands for a number.
Number(w) ==
    LET Sum[k \in 0..Width] ==
            IF k = 0 THEN 0 ELSE Sum[k - 1] + (IF k - 1 \in w THEN Power[k - 1] ELSE 0)
    IN Sum[Width]
Bits(n) == CHOOSE w \in Word : Number(w) = n

ip_in_subnet(subnet, mask, ip) == ip \cap mask = subnet

get_ip_broadcast(subnet, mask) == subnet \cup ((0..(Width - 1)) \ mask)

\* The part of an address inside its subnet.
ip_isolate_addr(mask, ip) == ip \ mask

ip_compose_ip(subnet, host) == host \cup subnet

\* Mutant: the last address of the range is taken too.
PopulatedRange_closed(sub) ==
    {ip_compose_ip(sub.addr, Bits(n)) :
        n \in Number(ip_isolate_addr(sub.netmask, sub.first))
                ..Number(ip_isolate_addr(sub.netmask, sub.last))}

\* The addresses IPAllocator_SQL::initialize makes rows for: new_ip counts from
\* the host part of range-start up to that of range-end.
PopulatedRange(sub) ==
    {ip_compose_ip(sub.addr, Bits(n)) :
        n \in Number(ip_isolate_addr(sub.netmask, sub.first))
                ..(Number(ip_isolate_addr(sub.netmask, sub.last)) - 1)}

----------------------------------------------------------------------------
(* Texts.                                                                   *)

\* The characters that are no digits.
Dot == -1
Colon == -2

OctetText(o) ==
    (IF o >= 100 THEN <<o \div 100>> ELSE <<>>)
      \o (IF o >= 10 THEN <<(o % 100) \div 10>> ELSE <<>>) \o <<o % 10>>

\* Mutant: a zero between other digits is suppressed like a leading one.
ip_u2s_zeros(a) ==
    LET Text(o) == (IF o >= 100 THEN <<o \div 100>> ELSE <<>>)
                     \o (IF (o % 100) >= 10 THEN <<(o % 100) \div 10>> ELSE <<>>) \o <<o % 10>>
    IN Text(a[1]) \o <<Dot>> \o Text(a[2]) \o <<Dot>> \o Text(a[3]) \o <<Dot>> \o Text(a[4])

\* The text of four octets.
ip_u2s(a) ==
    OctetText(a[1]) \o <<Dot>> \o OctetText(a[2]) \o <<Dot>>
      \o OctetText(a[3]) \o <<Dot>> \o OctetText(a[4])

\* The octets after the first characters of a text, and the one that is being read.
\* An octet is a char: what does not fit is cut off.
Digit(s, c, base) == [s EXCEPT !.t[s.i] = (@ * base + c) % 256]
Scan(text, separator, base, zeros) ==
    LET Read[j \in 0..Len(text)] ==
            IF j = 0 THEN [i |-> 1, t |-> zeros]
            ELSE IF text[j] = separator THEN [Read[j - 1] EXCEPT !.i = @ + 1]
            ELSE Digit(Read[j - 1], text[j], base)
    IN Read[Len(text)].t

ip_s2u(text) == Scan(text, Dot, 10, <<0, 0, 0, 0>>)

\* Six octets, two hexadecimal digits each.
mac_u2s(m) ==
    [j \in 1..17 |-> IF j % 3 = 0 THEN Colon
                     ELSE IF j % 3 = 1 THEN m[(j + 2) \div 3] \div 16 ELSE m[(j + 1) \div 3] % 16]

mac_s2u(text) == Scan(text, Colon, 16, <<0, 0, 0, 0, 0, 0>>)
=============================================================================
