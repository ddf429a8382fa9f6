------------------------------ MODULE NetFrame ------------------------------
(***************************************************************************)
(* The IP header that send_broadcast_packet (dhcp/dhcp_net.cxx) puts in     *)
(* front of a response, and the checksum of dhcp/dhcp_netinet.h.  Headers   *)
(* are sequences of bytes in network order.                                 *)
(***************************************************************************)
EXTENDS Integers, Sequences

HiLo(n) == <<n \div 256, n % 256>>

\* Mutant: the carry is dropped instead of added at the other end.
Fold16_dropped(sum) == IF sum > \hFFFF THEN sum - \h10000 ELSE sum

Fold16(sum) == IF sum > \hFFFF THEN sum - \hFFFF ELSE sum

\* Pairs of bytes are added with the end-around carry; the last byte of an odd
\* number is the high byte of a pair.
ip_checksum(buf, sum) ==
    LET Pair(i) == 256 * buf[2 * i - 1] + (IF 2 * i <= Len(buf) THEN buf[2 * i] ELSE 0)
        n == (Len(buf) + 1) \div 2
        Sum[i \in 0..n] == IF i = 0 THEN sum ELSE Fold16(Sum[i - 1] + Pair(i))
    IN Sum[n]

ip_wrapsum(sum) == HiLo(\hFFFF - sum)

IpHeader(len, src, sum) ==
    <<\h45, 16>> \o HiLo(len) \o <<0, 0>> \o HiLo(\h4000) \o <<16, 17>> \o sum
      \o src \o <<255, 255, 255, 255>>

UdpHeader(data_len) == HiLo(67) \o HiLo(68) \o HiLo(8 + data_len) \o <<0, 0>>

\* To everyone, from the interface whose hardware address is mac, ETHERTYPE_IP.
build_ethernet_header(mac) == [i \in 1..6 |-> 255] \o mac \o HiLo(\h0800)

\* Ethernet header, IP and UDP headers and the data.
send_broadcast_packet(hw, my_ip, data) ==
    LET len == 20 + 8 + Len(data)
        sum == ip_wrapsum(ip_checksum(IpHeader(len, my_ip, <<0, 0>>), 0))
    IN build_ethernet_header(hw)
         \o IpHeader(len, my_ip, sum) \o UdpHeader(Len(data)) \o data
=============================================================================
