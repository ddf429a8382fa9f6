----------------------------- MODULE DhcpServer -----------------------------
(***************************************************************************)
(* DHCP_Net::main_loop (dhcp/dhcp_net.cxx) over the allocator: one packet   *)
(* in, the whole switch case with its allocator call and the construction   *)
(* of the response (dhcp/dhcp_packet.cxx), at most one packet out.  The     *)
(* packets that arrive are arbitrary; DhcpSystem puts clients around this.  *)
(***************************************************************************)
EXTENDS IPAllocator

CONSTANTS
    Xid,        \* transaction ids
    NoReply,    \* nothing was sent in the last step
    Fatal       \* the daemon logged FATAL and exited in the last step

VARIABLE reply  \* what the last step sent

server_vars == <<alloc_vars, reply>>

AnyIp == Ip \cup {NoIp}

\* "?" stands for every type the switch does not know, and for packets that are
\* too short, have no magic cookie or no message type option.
MsgType == {"DISCOVER", "REQUEST", "RELEASE", "DECLINE", "INFORM", "?"}

\* ciaddr is 0.0.0.0 = NoIp when absent; req is the requested-address option.
Packet == [type : MsgType, mac : Mac, xid : Xid, ciaddr : AnyIp, req : AnyIp]

\* A response goes to the address to, or is broadcast when that is NoIp.
Response == [type : {"OFFER", "ACK", "ACK2", "NAK"}, mac : Mac, xid : Xid,
             yiaddr : AnyIp, to : AnyIp]

ASSUME RepliesDiffer ==
    NoReply \notin Response /\ Fatal \notin Response /\ NoReply # Fatal

----------------------------------------------------------------------------

get_requested_address(p) == IF p.ciaddr # NoIp THEN p.ciaddr ELSE p.req

\* Every response copies the client's hardware address and xid.
Answer(p, t, i, dest) ==
    [type |-> t, mac |-> p.mac, xid |-> p.xid, yiaddr |-> i, to |-> dest]

create_dhcp_nak(p) == Answer(p, "NAK", NoIp, NoIp)

\* Mutant: the test for the subnet is inverted.
create_dhcp_ack_inverted(p, i) == IF i \notin cfg.net THEN Answer(p, "ACK", i, NoIp) ELSE NoReply

create_dhcp_ack(p, i) == IF i \in cfg.net THEN Answer(p, "ACK", i, NoIp) ELSE NoReply

create_dhcp_ack2(p, i) ==
    IF i \in cfg.net THEN Answer(p, "ACK2", NoIp, p.ciaddr) ELSE NoReply

\* create_dhcp_offer throws for an address outside every subnet; nothing
\* catches that before main(), which logs it and returns.
create_dhcp_offer(p, i) == IF i \in cfg.net THEN Answer(p, "OFFER", i, NoIp) ELSE Fatal

----------------------------------------------------------------------------
(* The cases of the switch.                                                 *)

Discover(p) ==
    /\ p.type = "DISCOVER"
    /\ \E i \in AnyIp, cut \in Cuts :
         /\ ip_alloc(p.mac, i, cut)
         /\ reply' = IF cut # Done THEN NoReply
                     ELSE IF i = NoIp THEN create_dhcp_nak(p)
                     ELSE create_dhcp_offer(p, i)
         /\ up' = (cut = Done /\ reply' # Fatal)

Release(p) ==
    /\ p.type = "RELEASE"
    /\ ip_free(p.mac, p.ciaddr)
    /\ reply' = NoReply
    /\ UNCHANGED up

Inform(p) ==
    /\ p.type = "INFORM"
    /\ reply' = create_dhcp_ack2(p, get_requested_address(p))
    /\ UNCHANGED alloc_vars

RequestAddress(p) ==
    /\ p.type = "REQUEST"
    /\ LET i == get_requested_address(p)
       IN \E ok \in BOOLEAN :
            /\ ip_check(p.mac, i, ok)
            /\ reply' = IF ok THEN create_dhcp_ack(p, i) ELSE create_dhcp_nak(p)
    /\ UNCHANGED up

Decline(p) ==
    /\ p.type = "DECLINE"
    /\ ip_invalidate(p.ciaddr)
    /\ reply' = NoReply
    /\ UNCHANGED up

Ignore(p) ==
    /\ p.type = "?"
    /\ reply' = NoReply
    /\ UNCHANGED alloc_vars

main_loop(p) ==
    /\ up
    /\ \/ Discover(p)
       \/ Release(p)
       \/ Inform(p)
       \/ RequestAddress(p)
       \/ Decline(p)
       \/ Ignore(p)

ServerInit == AllocInit /\ reply = NoReply

ServerNext ==
    \/ \E p \in Packet : main_loop(p)
    \/ Surroundings /\ reply' = NoReply

ServerSpec == ServerInit /\ [][ServerNext]_server_vars

----------------------------------------------------------------------------
(* Properties.                                                              *)

\* What an OFFER or an ACK promises is on disk before it is sent: the address
\* is in one of the subnets, its row belongs to the client, and it lasts at least
\* the lease time the packet carries.
ReplyBacked ==
    (reply \in Response /\ reply.type \in {"OFFER", "ACK"}) =>
       /\ reply.yiaddr \in rows \cap cfg.net
       /\ mac[reply.yiaddr] = reply.mac
       /\ expire[reply.yiaddr] >= now + LeaseTime

\* An offer is honoured: where every subnet has a range and there are no static
\* assignments, no step refuses to a client the address it was just offered.  (The
\* client 00:00:00:00:00:00 may have several rows, see OneLeasePerMac.)
OfferHonoured ==
    [][(reply \in Response /\ reply.type = "OFFER" /\ reply.mac # BadMac) =>
          ~ip_check(reply.mac, reply.yiaddr, FALSE)]_server_vars

\* The daemon never exits because of an address it allocated itself.
NeverFatal == reply # Fatal
=============================================================================
