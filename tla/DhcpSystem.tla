----------------------------- MODULE DhcpSystem -----------------------------
(***************************************************************************)
(* The server among clients.  The clients follow RFC 2131 (they are not     *)
(* part of the repository); the network loses, repeats, delays and reorders *)
(* packets without limit: both directions are sets that only grow, and a    *)
(* packet in them may be received any number of times, at any later time,   *)
(* or never.                                                                *)
(***************************************************************************)
EXTENDS DhcpServer

CONSTANT MaxXid     \* bound on the transactions of each client
ASSUME XidsTyped ==
    MaxXid \in [Mac -> Nat] /\ Xid \subseteq Nat /\ \A m \in Mac : 0..MaxXid[m] \subseteq Xid

VARIABLES
    requests,   \* every packet a client ever sent
    replies,    \* every packet the server ever sent
    cst,        \* the client's state
    cxid,       \* its current transaction
    cip,        \* the address it uses, asks for or remembers
    csent,      \* when it first sent its current REQUEST
    cend        \* the end of its lease

client_vars == <<cst, cxid, cip, csent, cend>>
net_vars == <<requests, replies>>
vars == <<server_vars, net_vars, client_vars>>

ClientState == {"init", "selecting", "requesting", "bound", "renewing"}

Msg(t, m, x, ci, req) == [type |-> t, mac |-> m, xid |-> x, ciaddr |-> ci, req |-> req]

Send(p) == requests' = requests \cup {p}

\* A client step leaves the server alone.
ServerIdle == reply' = NoReply /\ UNCHANGED <<alloc_vars, replies>>

\* The replies client m takes for answers to its current transaction.
Answers(m, t) == {r \in replies : r.type = t /\ r.mac = m /\ r.xid = cxid[m]}

NewXid(m) == cxid[m] < MaxXid[m] /\ cxid' = [cxid EXCEPT ![m] = @ + 1]

----------------------------------------------------------------------------
(* The client m.                                                            *)

ClientDiscover(m) ==
    /\ cst[m] = "init" /\ cst' = [cst EXCEPT ![m] = "selecting"]
    /\ NewXid(m)
    /\ Send(Msg("DISCOVER", m, cxid'[m], NoIp, NoIp))
    /\ UNCHANGED <<cip, csent, cend>>

ClientSelect(m) ==
    /\ cst[m] = "selecting" /\ cst' = [cst EXCEPT ![m] = "requesting"]
    /\ \E r \in Answers(m, "OFFER") :
         /\ cip' = [cip EXCEPT ![m] = r.yiaddr]
         /\ Send(Msg("REQUEST", m, cxid[m], NoIp, r.yiaddr))
    /\ csent' = [csent EXCEPT ![m] = now]
    /\ UNCHANGED <<cxid, cend>>

\* INIT-REBOOT: ask again for the remembered address.
ClientReuse(m) ==
    /\ cst[m] = "init" /\ cip[m] # NoIp /\ cst' = [cst EXCEPT ![m] = "requesting"]
    /\ NewXid(m)
    /\ Send(Msg("REQUEST", m, cxid'[m], NoIp, cip[m]))
    /\ csent' = [csent EXCEPT ![m] = now]
    /\ UNCHANGED <<cip, cend>>

ClientRenew(m) ==
    /\ cst[m] = "bound" /\ now <= cend[m] /\ cst' = [cst EXCEPT ![m] = "renewing"]
    /\ NewXid(m)
    /\ Send(Msg("REQUEST", m, cxid'[m], cip[m], NoIp))
    /\ csent' = [csent EXCEPT ![m] = now]
    /\ UNCHANGED <<cip, cend>>

\* The lease counts from when the REQUEST was sent (RFC 2131, 4.4.1).
ClientBind(m) ==
    /\ \/ cst[m] = "requesting"
       \/ cst[m] = "renewing" /\ now <= cend[m]
    /\ \E r \in Answers(m, "ACK") : cip' = [cip EXCEPT ![m] = r.yiaddr]
    /\ cst' = [cst EXCEPT ![m] = "bound"]
    /\ cend' = [cend EXCEPT ![m] = csent[m] + LeaseTime]
    /\ UNCHANGED <<cxid, csent, requests>>

ClientRefused(m) ==
    /\ cst[m] \in {"requesting", "renewing"} /\ cst' = [cst EXCEPT ![m] = "init"]
    /\ Answers(m, "NAK") # {}
    /\ cip' = [cip EXCEPT ![m] = NoIp]
    /\ UNCHANGED <<cxid, csent, cend, requests>>

ClientRelease(m) ==
    /\ cst[m] = "bound" /\ cst' = [cst EXCEPT ![m] = "init"]
    /\ Send(Msg("RELEASE", m, cxid[m], cip[m], NoIp))
    /\ UNCHANGED <<cxid, cip, csent, cend>>

\* The client found its new address in use; ciaddr is 0 in a DHCPDECLINE.
ClientDecline(m) ==
    /\ cst[m] = "requesting" /\ cst' = [cst EXCEPT ![m] = "init"]
    /\ Answers(m, "ACK") # {}
    /\ Send(Msg("DECLINE", m, cxid[m], NoIp, cip[m]))
    /\ cip' = [cip EXCEPT ![m] = NoIp]
    /\ UNCHANGED <<cxid, csent, cend>>

\* A timeout, the end of the lease, or a reboot of the client.
ClientStop(m) ==
    /\ cst[m] # "init" /\ cst' = [cst EXCEPT ![m] = "init"]
    /\ UNCHANGED <<cxid, cip, csent, cend, requests>>

ClientStep(m) ==
    /\ \/ ClientDiscover(m) \/ ClientSelect(m) \/ ClientReuse(m) \/ ClientRenew(m)
       \/ ClientBind(m) \/ ClientRefused(m) \/ ClientRelease(m) \/ ClientDecline(m)
       \/ ClientStop(m)
    /\ ServerIdle

----------------------------------------------------------------------------

Serve(p) ==
    /\ main_loop(p)
    /\ replies' = replies \cup ({reply'} \cap Response)
    /\ UNCHANGED <<requests, client_vars>>

Init ==
    /\ ServerInit
    /\ requests = {} /\ replies = {}
    /\ cst = [m \in Mac |-> "init"]
    /\ cxid = [m \in Mac |-> 0]
    /\ cip = [m \in Mac |-> NoIp]
    /\ csent = [m \in Mac |-> 0]
    /\ cend = [m \in Mac |-> 0]

Next ==
    \/ \E m \in Mac : ClientStep(m)
    \/ \E p \in requests : Serve(p)
    \/ Surroundings /\ reply' = NoReply /\ UNCHANGED <<net_vars, client_vars>>

Spec == Init /\ [][Next]_vars

----------------------------------------------------------------------------
(* Properties.                                                              *)

\* The type of the client's and the network's state.
SysTypeOK ==
    /\ requests \subseteq Packet /\ replies \subseteq Response
    /\ cst \in [Mac -> ClientState]
    /\ cxid \in [Mac -> Xid] /\ \A m \in Mac : cxid[m] <= MaxXid[m]
    /\ cip \in [Mac -> AnyIp]
    /\ csent \in [Mac -> 0..Horizon] /\ cend \in [Mac -> 0..(Horizon + LeaseTime)]

InUse(m) == cst[m] \in {"bound", "renewing"} /\ now <= cend[m]

\* "Guarantee that any specific network address will not be in use by more than
\* one DHCP client at a time": across lost, repeated and late packets, renewals,
\* releases, clients that come back with an old address, restarts of the daemon
\* with another configuration and calls cut short.
LeaseExclusive ==
    \A m, n \in Mac : (m # n /\ InUse(m) /\ InUse(n)) => cip[m] # cip[n]

\* Row i belongs to m and lasts until t.
Covered(m, i, t) == i \in rows /\ mac[i] = m /\ expire[i] >= t

\* The server's table agrees with a client that uses an address: its row names
\* the client and does not run out before the client's own count does.
TableCoversUse ==
    \A m \in Mac : InUse(m) => Covered(m, cip[m], cend[m])

Promised == INSTANCE AddressUse WITH
    Client <- Mac, Addr <- Ip, None <- NoIp, Term <- LeaseTime,
    uses <- [m \in Mac |-> IF cst[m] \in {"bound", "renewing"} THEN cip[m] ELSE NoIp],
    until <- cend, clock <- now

\* The system implements the service's promise: a client starts or extends its
\* use of an address only while no other client's term on it is running.
KeepsPromise == Promised!UseSpec

----------------------------------------------------------------------------
(* The inductive invariant behind LeaseExclusive (DhcpSystemProofs).        *)

\* No row outlives a lease granted now.
TermBound == \A i \in rows : expire[i] <= now + LeaseTime

\* No packet carries a transaction its client has not started.
XidsPast ==
    /\ \A p \in requests : p.xid <= cxid[p.mac]
    /\ \A r \in replies : r.xid <= cxid[r.mac]

\* A client that is still choosing has asked for nothing in this transaction, so
\* no ACK for it can be under way.
NoEarlyAck ==
    /\ \A p \in requests :
          (p.type = "REQUEST" /\ p.xid = cxid[p.mac]) => cst[p.mac] # "selecting"
    /\ \A r \in replies :
          (r.type = "ACK" /\ r.xid = cxid[r.mac]) => cst[r.mac] # "selecting"

SentInPast == \A m \in Mac : csent[m] <= now

DeclinesNameNothing == \A p \in requests : p.type = "DECLINE" => p.ciaddr = NoIp

\* An ACK the client may still accept is backed by its row for as long as the
\* client will count the lease, unless that time is over.
AckCovers ==
    \A r \in replies :
       (/\ r.type = "ACK" /\ r.xid = cxid[r.mac]
        /\ cst[r.mac] \in {"requesting", "renewing"}
        /\ now <= csent[r.mac] + LeaseTime)
          => Covered(r.mac, r.yiaddr, csent[r.mac] + LeaseTime)

SysInv ==
    /\ TypeOK /\ SysTypeOK
    /\ TermBound /\ XidsPast /\ NoEarlyAck /\ SentInPast /\ DeclinesNameNothing
    /\ AckCovers /\ TableCoversUse
=============================================================================
