------------------------------ MODULE DhcpLive ------------------------------
(***************************************************************************)
(* The server of DhcpServer with clients that keep asking, to see that they *)
(* get an address in the end.  A client sends and the server answers in one *)
(* step; the answer, or the packet, may be lost, and the client then tries  *)
(* again.  (DhcpSystem has the network with its delays and repetitions.)    *)
(***************************************************************************)
EXTENDS DhcpServer

VARIABLES
    client,     \* "idle", "init", "selecting" or "bound"
    lease       \* [ip, end]: what it was offered or has, and until when

live_vars == <<server_vars, client, lease>>

NoLease == [ip |-> NoIp, end |-> 0]
Sends(m, t, ci, i) ==
    main_loop([type |-> t, mac |-> m, xid |-> CHOOSE x \in Xid : TRUE, ciaddr |-> ci, req |-> i])
Answered(m, t) == reply' \in Response /\ reply'.mac = m /\ reply'.type = t

Becomes(m, s, l) ==
    client' = [client EXCEPT ![m] = s] /\ lease' = [lease EXCEPT ![m] = l]

\* DISCOVER; an OFFER is taken, and a NAK is what it was without one.
Ask(m) ==
    /\ client[m] = "init"
    /\ Sends(m, "DISCOVER", NoIp, NoIp)
    /\ IF Answered(m, "OFFER") THEN Becomes(m, "selecting", [ip |-> reply'.yiaddr, end |-> 0])
       ELSE UNCHANGED <<client, lease>>

\* REQUEST of what was offered, or of what it has.
Confirm(m) ==
    /\ client[m] \in {"selecting", "bound"}
    /\ Sends(m, "REQUEST", IF client[m] = "bound" THEN lease[m].ip ELSE NoIp, lease[m].ip)
    /\ IF Answered(m, "ACK") THEN Becomes(m, "bound", [ip |-> reply'.yiaddr, end |-> now + LeaseTime])
       ELSE IF Answered(m, "NAK") THEN Becomes(m, "init", NoLease)
       ELSE UNCHANGED <<client, lease>>

\* The answer is lost.
AskInVain(m) ==
    client[m] = "init" /\ Sends(m, "DISCOVER", NoIp, NoIp) /\ UNCHANGED <<client, lease>>
ConfirmInVain(m) ==
    /\ client[m] = "selecting" /\ Sends(m, "REQUEST", NoIp, lease[m].ip)
    /\ UNCHANGED <<client, lease>>

Leave(m) == client[m] = "bound" /\ Sends(m, "RELEASE", lease[m].ip, NoIp) /\ Becomes(m, "idle", NoLease)

Other(m) == Sends(m, "INFORM", lease[m].ip, NoIp) /\ UNCHANGED <<client, lease>>

Wake(m) == client[m] = "idle" /\ Becomes(m, "init", NoLease) /\ UNCHANGED server_vars

\* A lease that is over is given up.
Around ==
    /\ Surroundings /\ reply' = NoReply
    /\ client' = [m \in Mac |-> IF client[m] = "bound" /\ lease[m].end < now' THEN "init" ELSE client[m]]
    /\ lease' = [m \in Mac |-> IF client[m] = "bound" /\ lease[m].end < now' THEN NoLease ELSE lease[m]]

LiveInit ==
    ServerInit /\ client = [m \in Mac |-> "init"] /\ lease = [m \in Mac |-> NoLease]

LiveNext ==
    \/ \E m \in Mac : Ask(m) \/ Confirm(m) \/ AskInVain(m) \/ ConfirmInVain(m)
    \/ \E m \in Mac : Leave(m) \/ Other(m) \/ Wake(m)
    \/ Around

\* A client that asks again and again while the server is up gets an answer through
\* again and again (strong fairness: the server may be down in between).
LiveSpec ==
    /\ LiveInit /\ [][LiveNext]_live_vars
    /\ \A m \in Mac : SF_live_vars(Ask(m)) /\ SF_live_vars(client[m] = "selecting" /\ Confirm(m))

----------------------------------------------------------------------------
(* Properties.                                                              *)

\* A client that asks ends with an address, when there are addresses for all and the
\* server stays up at last, whatever was lost, left or restarted before.
AskingEndsBound ==
    <>[]up => \A m \in Mac : (client[m] \in {"init", "selecting"}) ~> (client[m] = "bound")
=============================================================================
