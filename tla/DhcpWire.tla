------------------------------ MODULE DhcpWire ------------------------------
(***************************************************************************)
(* The bytes of dhcp/dhcp_net.cxx and dhcp/dhcp_packet.cxx: frames that     *)
(* pcap delivers, message_buf, which main_loop uses for every request and   *)
(* every response without clearing it, options in and options out, and the  *)
(* frame that is broadcast.                                                 *)
(*                                                                         *)
(* Of a message only the part behind the magic cookie is bytes; kind says   *)
(* what the part before it is.  The lengths of the Ethernet and UDP headers *)
(* and of an address are counted in units of the constants below.           *)
(***************************************************************************)
EXTENDS Integers, Sequences, SequencesExt

CONSTANTS
    MaxOptions,     \* MAX_DHCP_OPTIONS
    ByteMax,        \* 255, which is DHO_END too
    BodyMax,        \* the part of message_buf behind the cookie
    BodyMin,        \* the same part of the shortest message that is sent
    EthLen, UdpLen, \* header lengths
    PacketMax,      \* bound: the requests one process handles before it is restarted
    Frames,         \* the frames that may arrive
    Responses,      \* the options of the responses that may be built
    NoPacket,       \* there is no request, or no response yet
    Malformed       \* the bytes do not stand for options

DHO_PAD == 0
DHO_END == ByteMax
DHO_DHCP_MESSAGE_TYPE == 1
DHO_DHCP_SERVER_IDENTIFIER == 2
DHO_DHCP_LEASE_TIME == 3
DHO_DHCP_RENEWAL_TIME == 4
DHO_DOMAIN_NAME == 5
DHO_SUBNET == 6
DHO_ROUTERS == 7
DHO_DOMAIN_NAME_SERVERS == 8

ASSUME WireTyped ==
    /\ MaxOptions \in Nat \ {0} /\ PacketMax \in Nat \ {0}
    /\ BodyMax \in Nat /\ BodyMin \in 1..BodyMax
    /\ ByteMax \in Nat /\ ByteMax > DHO_DOMAIN_NAME_SERVERS
    /\ EthLen \in Nat /\ UdpLen \in Nat

VARIABLES
    message_buf,    \* the bytes behind the cookie
    request,        \* the options of the request that is being handled, or NoPacket
    meant,          \* history: the options its sender wrote, or Malformed
    response,       \* the options of the last response
    sent,           \* the bytes behind the cookie of the last message sent
    handled         \* the requests that were taken, up to PacketMax

wire_vars == <<message_buf, request, meant, response, sent, handled>>

----------------------------------------------------------------------------

\* A frame is [ihl, kind, bytes, meant]; bytes starts with the Ethernet header.
HeaderSize(f) == EthLen + f.ihl + UdpLen

\* The UDP payload; nothing for a frame that is shorter than its headers or too
\* long for the buffer, which the loop passes over.
recv_packet(f) ==
    IF Len(f.bytes) < HeaderSize(f) \/ Len(f.bytes) - HeaderSize(f) > BodyMax
    THEN {} ELSE {SubSeq(f.bytes, HeaderSize(f) + 1, Len(f.bytes))}

\* memcpy: what is behind the new bytes stays.
Over(new, old) == new \o SubSeq(old, Len(new) + 1, Len(old))

check_magic_cookie(f) == f.kind = "dhcp"

\* The options from offset o on, idx of them read before it: up to the end mark, the end
\* of the packet or the limit.  Neither the length nor the value of an option is held
\* against the packet's length.
OptionsFrom(buf, pktlength) ==
    LET Options[o \in 1..(BodyMax + ByteMax + 3)] ==
            [idx \in 0..MaxOptions |->
                IF o > pktlength \/ idx = MaxOptions THEN <<>>
                ELSE IF buf[o] = DHO_PAD THEN Options[o + 1][idx]
                ELSE IF buf[o] = DHO_END THEN <<>>
                ELSE <<[code |-> buf[o], value |-> SubSeq(buf, o + 2, o + 1 + buf[o + 1])]>>
                       \o Options[o + 2 + buf[o + 1]][idx + 1]]
    IN Options

\* Mutant: one byte behind the packet is looked at.
marshall_beyond(buf, pktlength) == OptionsFrom(buf, pktlength + 1)[1][0]

marshall(buf, pktlength) == OptionsFrom(buf, pktlength)[1][0]

\* The first byte of the first such option; -1 without one.  The value of an empty
\* option has no first byte: any may be read.
get_message_type(opts) ==
    LET at == SelectInSeq(opts, LAMBDA o : o.code = DHO_DHCP_MESSAGE_TYPE)
    IN IF at = 0 THEN {-1}
       ELSE IF opts[at].value = <<>> THEN 0..ByteMax ELSE {opts[at].value[1]}

----------------------------------------------------------------------------
(* The options of the responses.  An address takes one byte here, and the   *)
(* four bytes behind the first name server are not written when there is no *)
(* second one: rest is what new[] left there.                               *)

Option(c, v) == [code |-> c, value |-> v]

\* set_value(const char *, int): the length is an unsigned char.
StringOption(c, s) == Option(c, SubSeq(s, 1, Len(s) % (ByteMax + 1)))

Servers(net, rest) == <<net.nameserver1, IF net.nameserver2 # 0 THEN net.nameserver2 ELSE rest>>

offer_options(net, rest) ==
    <<Option(DHO_DHCP_MESSAGE_TYPE, <<2>>), Option(DHO_DHCP_SERVER_IDENTIFIER, <<net.server>>),
      Option(DHO_DHCP_LEASE_TIME, <<net.lease_time>>),
      Option(DHO_DHCP_RENEWAL_TIME, <<net.renew_time>>),
      StringOption(DHO_DOMAIN_NAME, net.domain_name), Option(DHO_SUBNET, <<net.netmask>>),
      Option(DHO_ROUTERS, <<net.gateway>>), Option(DHO_DOMAIN_NAME_SERVERS, Servers(net, rest))>>

ack_options(net, rest) ==
    <<Option(DHO_DHCP_MESSAGE_TYPE, <<5>>), Option(DHO_DHCP_SERVER_IDENTIFIER, <<net.server>>),
      Option(DHO_DHCP_LEASE_TIME, <<net.lease_time>>),
      Option(DHO_DHCP_RENEWAL_TIME, <<net.renew_time>>),
      StringOption(DHO_DOMAIN_NAME, net.domain_name), Option(DHO_ROUTERS, <<net.gateway>>),
      Option(DHO_SUBNET, <<net.netmask>>), Option(DHO_DOMAIN_NAME_SERVERS, Servers(net, rest))>>

\* The answer to an INFORM has no lease.
ack2_options(net, rest) ==
    <<Option(DHO_DHCP_MESSAGE_TYPE, <<5>>), Option(DHO_DHCP_SERVER_IDENTIFIER, <<net.server>>),
      StringOption(DHO_DOMAIN_NAME, net.domain_name), Option(DHO_ROUTERS, <<net.gateway>>),
      Option(DHO_SUBNET, <<net.netmask>>), Option(DHO_DOMAIN_NAME_SERVERS, Servers(net, rest))>>

nak_options(net) ==
    <<Option(DHO_DHCP_MESSAGE_TYPE, <<6>>), Option(DHO_DHCP_SERVER_IDENTIFIER, <<net.server>>)>>

----------------------------------------------------------------------------

\* The bytes of the first i options.
OptionBytes(opts) ==
    LET Bytes[i \in 0..Len(opts)] ==
            IF i = 0 THEN <<>>
            ELSE Bytes[i - 1] \o (<<opts[i].code, Len(opts[i].value)>> \o opts[i].value)
    IN Bytes

Encoded(opts) == OptionBytes(opts)[Len(opts)] \o <<DHO_END>>

Zeros(n) == [i \in 1..n |-> 0]

\* Mutant: the padding is counted but not written.
unmarshall_unpadded(opts, buf) ==
    LET e == Encoded(opts)
    IN [buf |-> Over(e, buf), length |-> IF Len(e) < BodyMin THEN BodyMin ELSE Len(e)]

\* The buffer afterwards and the length of the message.
unmarshall(opts, buf) ==
    LET e == Encoded(opts)
    IN [buf |-> Over(e \o (IF Len(e) < BodyMin THEN Zeros(BodyMin - Len(e)) ELSE <<>>), buf),
        length |-> IF Len(e) < BodyMin THEN BodyMin ELSE Len(e)]

----------------------------------------------------------------------------

WireInit ==
    /\ message_buf = Zeros(BodyMax)
    /\ request = NoPacket
    /\ meant = Malformed
    /\ response = NoPacket
    /\ sent = <<>>
    /\ handled = 0

\* The first half of the loop: up to the request's options.  A message that is too
\* short or has no cookie is in the buffer all the same.
Receive(f) ==
    /\ request = NoPacket /\ handled < PacketMax
    /\ handled' = handled + 1
    /\ \E data \in recv_packet(f) :
         /\ message_buf' = Over(data, message_buf)
         /\ IF check_magic_cookie(f)
            THEN request' = marshall(message_buf', Len(data)) /\ meant' = f.meant
            ELSE UNCHANGED <<request, meant>>
    /\ UNCHANGED <<response, sent>>

\* The second half: a response, or none (DhcpServer has which and why).
Respond(r) ==
    /\ request # NoPacket
    /\ \E u \in {unmarshall(r, message_buf)} :
         /\ message_buf' = u.buf
         /\ sent' = SubSeq(u.buf, 1, u.length)
    /\ response' = r
    /\ request' = NoPacket
    /\ UNCHANGED <<meant, handled>>

NoResponse ==
    /\ request # NoPacket
    /\ request' = NoPacket
    /\ UNCHANGED <<message_buf, meant, response, sent, handled>>

\* main_loop is entered anew; the buffer is what the stack had.
Restart ==
    /\ request = NoPacket /\ handled = PacketMax
    /\ request' = NoPacket /\ meant' = Malformed /\ response' = NoPacket
    /\ sent' = <<>> /\ handled' = 0 /\ message_buf' = Zeros(BodyMax)

WireNext ==
    \/ \E f \in Frames : Receive(f)
    \/ \E r \in Responses : Respond(r)
    \/ NoResponse
    \/ Restart

WireSpec == WireInit /\ [][WireNext]_wire_vars

----------------------------------------------------------------------------
(* What senders write, said of the bytes and not by a program that writes   *)
(* or reads them.                                                           *)

\* The bytes d spell the options opts: option i starts at at[i] with its code and its
\* length, before it are pads only, and behind the last one there are pads up to the end
\* mark or to the end of d.
SpelledAt(d, opts, at) ==
    LET n == Len(opts)
        Behind(i) == IF i = 1 THEN 1 ELSE at[i - 1] + 2 + Len(opts[i - 1].value)
    IN /\ at \in [1..(n + 1) -> 1..(Len(d) + 1)]
       /\ \A i \in 1..(n + 1) :
             Behind(i) <= at[i] /\ \A o \in Behind(i)..(at[i] - 1) : d[o] = DHO_PAD
       /\ \A i \in 1..n :
             /\ opts[i].code \notin {DHO_PAD, DHO_END}
             /\ d[at[i]] = opts[i].code
             /\ d[at[i] + 1] = Len(opts[i].value)
             /\ \A j \in 1..Len(opts[i].value) : d[at[i] + 1 + j] = opts[i].value[j]
       /\ at[n + 1] <= Len(d) => d[at[n + 1]] = DHO_END

----------------------------------------------------------------------------
(* Properties.                                                              *)

\* A request is read as it was sent, whatever earlier requests and responses left in
\* the buffer: the options its sender wrote, up to the limit, in order, be there pads
\* between them or not, and an end mark or only the end of the packet.
RequestAsMeant ==
    (request # NoPacket /\ meant # Malformed) =>
       request = SubSeq(meant, 1, IF Len(meant) < MaxOptions THEN Len(meant) ELSE MaxOptions)

\* A response is sent as it was built: its options can be read back, it has at least
\* the length relays insist on, and nothing of an earlier message is behind its end.
ResponseAsBuilt ==
    response # NoPacket =>
       /\ marshall(Over(sent, Zeros(BodyMax)), Len(sent)) = response
       /\ Len(sent) >= BodyMin
       /\ \A i \in (Len(Encoded(response)) + 1)..Len(sent) : sent[i] = 0
=============================================================================
