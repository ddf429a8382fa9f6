-------------------------- MODULE DhcpSystemProofs --------------------------
(***************************************************************************)
(* Two clients never use one address at a time, for any number of clients,  *)
(* addresses, transactions and configurations, any loss, repetition, delay  *)
(* and reordering of packets, and any deaths and restarts of the daemon -   *)
(* where there are no static assignments and the clock stays a lease time   *)
(* away from the end of int.  (The run v_static_shared shows that the first *)
(* condition is needed.)  The clients of DhcpLive, which keep asking, are   *)
(* clients of the same server.                                              *)
(***************************************************************************)
EXTENDS DhcpSystem, DhcpLive, DhcpServerProofs

----------------------------------------------------------------------------
(* What a step may do to a running lease.                                   *)

\* Row j keeps its owner and its term, or nobody's lease on it was running.
RowKept(j) ==
    /\ j \in rows'
    /\ j \in Reusable \/ (mac'[j] = mac[j] /\ expire'[j] >= expire[j])

\* A write for a client that may have the row keeps every running lease.
LEMMA WriteKeeps ==
  ASSUME TypeOK, TermBound, Horizon + LeaseTime <= IntMax,
         NEW m \in Mac, NEW i \in Ip, i \in rows, mac[i] = m \/ i \in Reusable,
         NEW a, Writes(m, i, a), UNCHANGED now
  PROVE  TermBound' /\ \A j \in rows : RowKept(j)
<1>1. lease_end = now + LeaseTime
  BY LeaseEndExact DEF TypeOK
<1>2. now \in Int /\ LeaseTime \in Int /\ \A j \in rows : expire[j] \in Int
  BY TimesTyped DEF TypeOK
<1>3. /\ rows' = rows
      /\ mac' = [mac EXCEPT ![i] = m]
      /\ expire' = [expire EXCEPT ![i] = now + LeaseTime]
  BY <1>1 DEF Writes, do_update_lease
<1>4. TermBound'
  BY <1>2, <1>3 DEF TermBound, TypeOK
<1>5. \A j \in rows : RowKept(j)
  BY <1>2, <1>3 DEF TermBound, TypeOK, RowKept
<1> QED
  BY <1>4, <1>5

\* No static assignment is anybody's reason to have a row.
LEMMA NoStaticReason ==
  ASSUME TypeOK, StaticEntries = {}, NEW m \in Mac, NEW i, MayHave(m, i)
  PROVE  i \in rows /\ (mac[i] = m \/ i \in Reusable)
<1>1. cfg.hosts[m] = NoEntry /\ static_db[m] = NoEntry
  BY ConfigsTyped DEF TypeOK, ConfigType
<1> QED
  BY <1>1 DEF MayHave, StaticFor

\* A packet that is no DECLINE with an address in ciaddr keeps running leases.
LEMMA ServerKeeps ==
  ASSUME TypeOK, TermBound, StaticEntries = {}, Horizon + LeaseTime <= IntMax,
         NEW p \in Packet, p.type = "DECLINE" => p.ciaddr = NoIp, main_loop(p)
  PROVE  now' = now /\ TermBound' /\ \A j \in rows : RowKept(j)
<1>1. p.mac \in Mac
  BY DEF Packet
<1>2. ASSUME UNCHANGED lease_db, UNCHANGED now
      PROVE  TermBound' /\ \A j \in rows : RowKept(j)
  <2>1. \A j \in rows : expire[j] \in Int
    BY TimesTyped DEF TypeOK
  <2> QED
    BY <1>2, <2>1 DEF lease_db, TermBound, RowKept
<1>3. ASSUME NEW i \in Ip, MayHave(p.mac, i), NEW a, Writes(p.mac, i, a), UNCHANGED now
      PROVE  TermBound' /\ \A j \in rows : RowKept(j)
  BY <1>1, <1>3, NoStaticReason, WriteKeeps
<1>4. CASE Discover(p)
  <2>1. PICK i, cut : ip_alloc(p.mac, i, cut)
    BY <1>4 DEF Discover
  <2>2. now' = now
    BY <2>1 DEF ip_alloc, outside
  <2> QED
    BY <1>1, <1>2, <1>3, <2>1, <2>2, AllocEffect
<1>5. CASE Release(p)
  BY <1>2, <1>5 DEF Release, ip_free, lease_db
<1>6. CASE Inform(p) \/ Ignore(p)
  BY <1>2, <1>6 DEF Inform, Ignore, lease_db, alloc_vars
<1>7. CASE RequestAddress(p)
  <2>1. PICK ok : ip_check(p.mac, get_requested_address(p), ok)
    BY <1>7 DEF RequestAddress
  <2>2. now' = now
    BY <2>1 DEF ip_check
  <2> QED
    BY <1>1, <1>2, <1>3, <2>1, <2>2, CheckEffect
<1>8. CASE Decline(p)
  <2>1. ip_invalidate(NoIp)
    BY <1>8 DEF Decline
  <2>2. NoIp \notin rows
    BY NoIpIsNoAddress DEF TypeOK
  <2> QED
    BY <1>2, <2>1, <2>2, InvalidateEffect DEF ip_invalidate
<1> QED
  BY <1>4, <1>5, <1>6, <1>7, <1>8 DEF main_loop

\* So does everything around the daemon.
LEMMA SurroundingsKeep ==
  ASSUME TypeOK, TermBound, Surroundings
  PROVE  /\ now' \in Int /\ now' >= now
         /\ TermBound' /\ \A j \in rows : RowKept(j)
<1>1. now \in Int /\ LeaseTime \in Nat /\ \A j \in Ip : expire[j] \in Int
  BY TimesTyped DEF TypeOK
<1>2. CASE Start
  <2>1. PICK new \in SUBSET Ip : populate(new)
    BY <1>2, ConfigsTyped DEF Start, prepare_databases, ConfigType
  <2>2. now' = now
    BY <1>2 DEF Start, prepare_databases
  <2> QED
    BY <1>1, <2>1, <2>2, TimesTyped DEF populate, TypeOK, TermBound, RowKept
<1>3. CASE Tick
  BY <1>1, <1>3 DEF Tick, TermBound, RowKept, TypeOK
<1>4. CASE UNCHANGED <<rows, mac, expire, now>>
  BY <1>1, <1>4 DEF TermBound, RowKept, TypeOK
<1> QED
  BY <1>2, <1>3, <1>4
  DEF Surroundings, Die, Reboot, EditStatic, Exclude, Authorise

\* A step that keeps running leases keeps a lease that covers the present.
LEMMA CoverKept ==
  ASSUME TypeOK, NEW m, NEW i, NEW t \in Int, now <= t,
         Covered(m, i, t), RowKept(i), TypeOK'
  PROVE  Covered(m, i, t)'
<1>1. now \in Int /\ i \in Ip /\ expire[i] \in Int /\ expire'[i] \in Int
  BY TimesTyped DEF TypeOK, Covered
<1>2. i \notin Reusable
  BY <1>1 DEF Covered, Reusable
<1> QED
  BY <1>1, <1>2 DEF Covered, RowKept

\* An ACK answers a REQUEST, and the row behind it lasts a lease time from now.
LEMMA AckIsCovered ==
  ASSUME TypeOK, Horizon + LeaseTime <= IntMax,
         NEW p \in Packet, main_loop(p), reply' \in Response, reply'.type = "ACK"
  PROVE  /\ p.type = "REQUEST" /\ reply'.mac = p.mac /\ reply'.xid = p.xid
         /\ Covered(p.mac, reply.yiaddr, now + LeaseTime)'
<1>1. PICK i : ip_check(p.mac, i, TRUE) /\ reply'.yiaddr = i /\ i \in cfg.net
  BY AckComesFrom
<1>2. p.mac \in Mac /\ i \in Ip
  BY <1>1, ConfigsTyped DEF Packet, TypeOK, ConfigType
<1>3. Granted(p.mac, i)'
  BY <1>1, <1>2, CheckRecords, WriteGrants
<1>4. Covered(p.mac, reply.yiaddr, now + LeaseTime)'
  BY <1>1, <1>3 DEF Granted, Covered
<1> QED
  BY <1>4, AckComesFrom

----------------------------------------------------------------------------
(* The invariant is preserved by the clients.                               *)

\* What a client step leaves alone, and what the types of the invariant give.
LEMMA ClientFrame ==
  ASSUME SysInv, NEW m \in Mac, ClientStep(m)
  PROVE  /\ TypeOK' /\ TermBound'
         /\ replies' = replies /\ now' = now /\ rows' = rows /\ mac' = mac
         /\ expire' = expire
         /\ now \in 0..Horizon /\ LeaseTime \in Nat
         /\ \A n \in Mac : /\ cxid[n] \in Nat /\ csent[n] \in Nat /\ cend[n] \in Nat
                          /\ cip[n] \in AnyIp
         /\ \A p \in requests : p.mac \in Mac /\ p.xid \in Nat
         /\ \A r \in replies : r.mac \in Mac /\ r.xid \in Nat /\ r.yiaddr \in AnyIp
<1>1. UNCHANGED alloc_vars /\ replies' = replies
  BY DEF ClientStep, ServerIdle
<1>2. TypeOK' /\ TermBound'
  BY <1>1 DEF SysInv, TypeOK, TermBound, alloc_vars
<1>3. \A n \in Mac : cxid[n] \in Nat /\ csent[n] \in Nat /\ cend[n] \in Nat /\ cip[n] \in AnyIp
  <2>1. Xid \subseteq Nat
    BY XidsTyped
  <2>2. /\ cxid \in [Mac -> Xid] /\ cip \in [Mac -> AnyIp] /\ csent \in [Mac -> 0..Horizon]
        /\ cend \in [Mac -> 0..(Horizon + LeaseTime)]
    BY DEF SysInv, SysTypeOK
  <2>3. \A n \in Mac : cxid[n] \in Nat /\ cip[n] \in AnyIp
    BY <2>1, <2>2
  <2>4. \A n \in Mac : csent[n] \in Nat
    BY <2>2, TimesTyped
  <2>5. \A n \in Mac : cend[n] \in 0..(Horizon + LeaseTime)
    BY <2>2
  <2>6. \A n \in Mac : cend[n] \in Nat
    BY <2>5, TimesTyped
  <2> QED
    BY <2>3, <2>4, <2>6
<1>4. \A p \in requests : p.mac \in Mac /\ p.xid \in Nat
  BY XidsTyped DEF SysInv, SysTypeOK, Packet
<1>5. \A r \in replies : r.mac \in Mac /\ r.xid \in Nat /\ r.yiaddr \in AnyIp
  BY XidsTyped DEF SysInv, SysTypeOK, Response
<1> QED
  BY <1>1, <1>2, <1>3, <1>4, <1>5, TimesTyped DEF alloc_vars, SysInv, TypeOK

\* The packets the clients send are packets.
LEMMA MsgTyped ==
  ASSUME NEW t \in MsgType, NEW m \in Mac, NEW x \in Xid, NEW ci \in AnyIp, NEW req \in AnyIp
  PROVE  /\ Msg(t, m, x, ci, req) \in Packet
         /\ Msg(t, m, x, ci, req).type = t /\ Msg(t, m, x, ci, req).mac = m
         /\ Msg(t, m, x, ci, req).xid = x /\ Msg(t, m, x, ci, req).ciaddr = ci
BY DEF Msg, Packet

\* A new transaction has a number no packet of the client carries.
LEMMA NewXidFresh ==
  ASSUME SysTypeOK, NEW m \in Mac, NewXid(m)
  PROVE  /\ cxid'[m] = cxid[m] + 1 /\ cxid'[m] \in Xid /\ cxid'[m] <= MaxXid[m]
         /\ cxid' \in [Mac -> Xid]
         /\ \A n \in Mac \ {m} : cxid'[n] = cxid[n]
<1>1. /\ cxid \in [Mac -> Xid] /\ cxid[m] < MaxXid[m]
      /\ cxid' = [cxid EXCEPT ![m] = cxid[m] + 1]
  BY DEF SysTypeOK, NewXid
<1>2. cxid[m] \in Nat /\ MaxXid[m] \in Nat
  BY <1>1, XidsTyped
<1>3. cxid[m] + 1 <= MaxXid[m] /\ cxid[m] + 1 \in 0..MaxXid[m]
  BY <1>1, <1>2
<1>4. cxid[m] + 1 \in Xid
  BY <1>3, XidsTyped
<1> QED
  BY <1>1, <1>3, <1>4

\* Going back to init: nothing that could be acknowledged or used is left.
LEMMA ClientToInit ==
  ASSUME SysInv, NEW m \in Mac, ClientStep(m),
         cst' = [cst EXCEPT ![m] = "init"], UNCHANGED <<cxid, csent, cend>>,
         cip' = cip \/ cip' = [cip EXCEPT ![m] = NoIp],
         NEW Q \in SUBSET Packet, requests' = requests \cup Q,
         \A q \in Q : /\ q.mac = m /\ q.xid = cxid[m] /\ q.type # "REQUEST"
                      /\ q.type = "DECLINE" => q.ciaddr = NoIp
  PROVE  SysInv'
<1>1. /\ SysTypeOK /\ XidsPast /\ NoEarlyAck /\ SentInPast /\ DeclinesNameNothing
      /\ AckCovers /\ TableCoversUse
  BY DEF SysInv
<1>2. cst \in [Mac -> ClientState] /\ cip \in [Mac -> AnyIp]
  BY <1>1 DEF SysTypeOK
<1>3. SysTypeOK'
  <2>1. cst' \in [Mac -> ClientState]
    BY <1>2 DEF ClientState
  <2>2. cip' \in [Mac -> AnyIp]
    BY <1>2 DEF AnyIp
  <2> QED
    BY <1>1, <2>1, <2>2, ClientFrame DEF SysTypeOK
<1>4. XidsPast'
  BY <1>1, ClientFrame DEF XidsPast
<1>5. NoEarlyAck'
  BY <1>1, <1>2, ClientFrame DEF NoEarlyAck
<1>6. SentInPast' /\ DeclinesNameNothing'
  BY <1>1, ClientFrame DEF SentInPast, DeclinesNameNothing
<1>7. AckCovers'
  BY <1>1, <1>2, ClientFrame DEF AckCovers, Covered
<1>8. TableCoversUse'
  BY <1>1, <1>2, ClientFrame DEF TableCoversUse, InUse, Covered
<1> QED
  BY <1>3, <1>4, <1>5, <1>6, <1>7, <1>8, ClientFrame DEF SysInv

\* Starting a transaction: no packet carries its number yet.  What the client
\* uses, if it renews, it goes on using.
LEMMA ClientStarts ==
  ASSUME SysInv, NEW m \in Mac, ClientStep(m), NewXid(m), UNCHANGED <<cip, cend>>,
         NEW st \in {"selecting", "requesting", "renewing"},
         cst' = [cst EXCEPT ![m] = st],
         st = "renewing" => cst[m] = "bound",
         csent' = csent \/ csent' = [csent EXCEPT ![m] = now],
         NEW q \in Packet, requests' = requests \cup {q},
         q.mac = m, q.xid = cxid'[m], q.type \in {"DISCOVER", "REQUEST"},
         q.type = "REQUEST" => st # "selecting"
  PROVE  SysInv'
<1>1. /\ SysTypeOK /\ XidsPast /\ NoEarlyAck /\ SentInPast /\ DeclinesNameNothing
      /\ AckCovers /\ TableCoversUse
  BY DEF SysInv
<1>2. cst \in [Mac -> ClientState] /\ csent \in [Mac -> 0..Horizon]
  BY <1>1 DEF SysTypeOK
<1>3. /\ cxid'[m] = cxid[m] + 1 /\ \A n \in Mac \ {m} : cxid'[n] = cxid[n]
      /\ cxid' \in [Mac -> Xid] /\ cxid'[m] <= MaxXid[m]
  BY <1>1, NewXidFresh
<1>4. /\ \A p \in requests : p.mac = m => p.xid < cxid'[m]
      /\ \A r \in replies : r.mac = m => r.xid < cxid'[m]
  BY <1>1, <1>3, ClientFrame DEF XidsPast
<1>5. SysTypeOK'
  <2>1. cst' \in [Mac -> ClientState]
    BY <1>2 DEF ClientState
  <2>2. csent' \in [Mac -> 0..Horizon]
    BY <1>2, ClientFrame
  <2>3. \A n \in Mac : cxid'[n] <= MaxXid[n]
    BY <1>1, <1>3 DEF SysTypeOK
  <2> QED
    BY <1>1, <1>3, <2>1, <2>2, <2>3, ClientFrame DEF SysTypeOK
<1>6. XidsPast'
  <2>1. \A p \in requests' : p.xid <= cxid'[p.mac]
    BY <1>1, <1>3, <1>4, ClientFrame DEF XidsPast
  <2>2. \A r \in replies' : r.xid <= cxid'[r.mac]
    BY <1>1, <1>3, <1>4, ClientFrame DEF XidsPast
  <2> QED
    BY <2>1, <2>2 DEF XidsPast
<1>7. NoEarlyAck'
  <2>1. \A p \in requests' :
          (p.type = "REQUEST" /\ p.xid = cxid'[p.mac]) => cst'[p.mac] # "selecting"
    BY <1>1, <1>2, <1>3, <1>4, ClientFrame DEF NoEarlyAck
  <2>2. \A r \in replies' :
          (r.type = "ACK" /\ r.xid = cxid'[r.mac]) => cst'[r.mac] # "selecting"
    BY <1>1, <1>2, <1>3, <1>4, ClientFrame DEF NoEarlyAck
  <2> QED
    BY <2>1, <2>2 DEF NoEarlyAck
<1>8. SentInPast' /\ DeclinesNameNothing'
  BY <1>1, <1>2, ClientFrame DEF SentInPast, DeclinesNameNothing
<1>9. AckCovers'
  <2> SUFFICES ASSUME NEW r \in replies, r.type = "ACK", r.xid = cxid'[r.mac],
                      cst'[r.mac] \in {"requesting", "renewing"},
                      now' <= csent'[r.mac] + LeaseTime
               PROVE  Covered(r.mac, r.yiaddr, csent[r.mac] + LeaseTime)'
    BY ClientFrame DEF AckCovers
  <2>1. r.mac \in Mac \ {m}
    BY <1>3, <1>4, ClientFrame
  <2> QED
    BY <1>1, <1>2, <1>3, <2>1, ClientFrame DEF AckCovers, Covered
<1>10. TableCoversUse'
  BY <1>1, <1>2, ClientFrame DEF TableCoversUse, InUse, Covered
<1> QED
  BY <1>5, <1>6, <1>7, <1>8, <1>9, <1>10, ClientFrame DEF SysInv

\* Asking for the offered address: the clock of the lease starts, and no ACK of
\* this transaction exists yet.
LEMMA SelectPreserves ==
  ASSUME SysInv, NEW m \in Mac, ClientStep(m), ClientSelect(m)
  PROVE  SysInv'
<1>1. /\ SysTypeOK /\ XidsPast /\ NoEarlyAck /\ SentInPast /\ DeclinesNameNothing
      /\ AckCovers /\ TableCoversUse
  BY DEF SysInv
<1>2. PICK o \in replies :
         /\ cip' = [cip EXCEPT ![m] = o.yiaddr]
         /\ requests' = requests \cup {Msg("REQUEST", m, cxid[m], NoIp, o.yiaddr)}
  BY DEF ClientSelect, Answers, Send
<1> DEFINE q == Msg("REQUEST", m, cxid[m], NoIp, o.yiaddr)
<1>3. /\ cst \in [Mac -> ClientState] /\ csent \in [Mac -> 0..Horizon]
      /\ cip \in [Mac -> AnyIp] /\ cxid[m] \in Xid
  BY <1>1 DEF SysTypeOK
<1>4. /\ cst[m] = "selecting" /\ cst' = [cst EXCEPT ![m] = "requesting"]
      /\ csent' = [csent EXCEPT ![m] = now] /\ cxid' = cxid /\ cend' = cend
  BY DEF ClientSelect
<1>5. q \in Packet /\ q.type = "REQUEST" /\ q.mac = m /\ q.xid = cxid[m]
  <2>1. o.yiaddr \in AnyIp
    BY ClientFrame
  <2>2. NoIp \in AnyIp
    BY DEF AnyIp
  <2> QED
    BY <1>3, <2>1, <2>2, MsgTyped DEF MsgType
<1>6. requests' = requests \cup {q}
  BY <1>2
<1> HIDE DEF q
<1>7. SysTypeOK'
  <2>1. cst' \in [Mac -> ClientState]
    BY <1>3, <1>4 DEF ClientState
  <2>2. csent' \in [Mac -> 0..Horizon]
    BY <1>3, <1>4, ClientFrame
  <2>3. cip' \in [Mac -> AnyIp]
    BY <1>2, <1>3, ClientFrame
  <2> QED
    BY <1>1, <1>4, <1>5, <1>6, <2>1, <2>2, <2>3, ClientFrame DEF SysTypeOK
<1>8. XidsPast'
  BY <1>1, <1>4, <1>5, <1>6, ClientFrame DEF XidsPast
<1>9. NoEarlyAck'
  BY <1>1, <1>3, <1>4, <1>5, <1>6, ClientFrame DEF NoEarlyAck
<1>10. SentInPast' /\ DeclinesNameNothing'
  BY <1>1, <1>3, <1>4, <1>5, <1>6, ClientFrame DEF SentInPast, DeclinesNameNothing
<1>11. AckCovers'
  <2> SUFFICES ASSUME NEW r \in replies, r.type = "ACK", r.xid = cxid[r.mac],
                      cst'[r.mac] \in {"requesting", "renewing"},
                      now' <= csent'[r.mac] + LeaseTime
               PROVE  Covered(r.mac, r.yiaddr, csent[r.mac] + LeaseTime)'
    BY <1>4, ClientFrame DEF AckCovers
  <2>1. r.mac \in Mac \ {m}
    BY <1>1, <1>4, ClientFrame DEF NoEarlyAck
  <2> QED
    BY <1>1, <1>3, <1>4, <2>1, ClientFrame DEF AckCovers, Covered
<1>12. TableCoversUse'
  BY <1>1, <1>2, <1>3, <1>4, ClientFrame DEF TableCoversUse, InUse, Covered
<1> QED
  BY <1>7, <1>8, <1>9, <1>10, <1>11, <1>12, ClientFrame DEF SysInv

\* Accepting an ACK: what AckCovers said of the packet, TableCoversUse says of
\* the client.
LEMMA BindPreserves ==
  ASSUME SysInv, NEW m \in Mac, ClientStep(m), ClientBind(m)
  PROVE  SysInv'
<1>1. /\ SysTypeOK /\ XidsPast /\ NoEarlyAck /\ SentInPast /\ DeclinesNameNothing
      /\ AckCovers /\ TableCoversUse
  BY DEF SysInv
<1>2. PICK r \in replies : /\ r.type = "ACK" /\ r.mac = m /\ r.xid = cxid[m]
                           /\ cip' = [cip EXCEPT ![m] = r.yiaddr]
  BY DEF ClientBind, Answers
<1>3. /\ cst \in [Mac -> ClientState] /\ cip \in [Mac -> AnyIp]
      /\ csent \in [Mac -> 0..Horizon] /\ cend \in [Mac -> 0..(Horizon + LeaseTime)]
  BY <1>1 DEF SysTypeOK
<1>4. /\ cst[m] \in {"requesting", "renewing"} /\ cst' = [cst EXCEPT ![m] = "bound"]
      /\ cend' = [cend EXCEPT ![m] = csent[m] + LeaseTime]
      /\ cxid' = cxid /\ csent' = csent /\ requests' = requests
  BY DEF ClientBind
<1>5. SysTypeOK'
  <2>1. cst' \in [Mac -> ClientState]
    BY <1>3, <1>4 DEF ClientState
  <2>2. csent[m] + LeaseTime \in 0..(Horizon + LeaseTime)
    BY <1>3, TimesTyped
  <2>3. cend' \in [Mac -> 0..(Horizon + LeaseTime)]
    BY <1>3, <1>4, <2>2
  <2>4. cip' \in [Mac -> AnyIp]
    BY <1>2, <1>3, ClientFrame
  <2> QED
    BY <1>1, <1>4, <2>1, <2>3, <2>4, ClientFrame DEF SysTypeOK
<1>6. XidsPast' /\ SentInPast' /\ DeclinesNameNothing'
  BY <1>1, <1>4, ClientFrame DEF XidsPast, SentInPast, DeclinesNameNothing
<1>7. NoEarlyAck'
  BY <1>1, <1>3, <1>4, ClientFrame DEF NoEarlyAck
<1>8. AckCovers'
  BY <1>1, <1>3, <1>4, ClientFrame DEF AckCovers, Covered
<1>9. TableCoversUse'
  <2> SUFFICES ASSUME NEW n \in Mac, InUse(n)' PROVE Covered(n, cip[n], cend[n])'
    BY DEF TableCoversUse
  <2>1. CASE n = m
    <3>1. cend'[m] = csent[m] + LeaseTime /\ cip'[m] = r.yiaddr /\ now <= csent[m] + LeaseTime
      BY <1>2, <1>3, <1>4, <2>1, ClientFrame DEF InUse
    <3>2. Covered(m, r.yiaddr, csent[m] + LeaseTime)
      BY <1>1, <1>2, <1>4, <3>1 DEF AckCovers
    <3> QED
      BY <2>1, <3>1, <3>2, ClientFrame DEF Covered
  <2>2. CASE n # m
    BY <1>1, <1>2, <1>3, <1>4, <2>2, ClientFrame DEF TableCoversUse, InUse, Covered
  <2> QED
    BY <2>1, <2>2
<1> QED
  BY <1>5, <1>6, <1>7, <1>8, <1>9, ClientFrame DEF SysInv

\* Every client step.
LEMMA ClientPreserves ==
  ASSUME SysInv, NEW m \in Mac, ClientStep(m)
  PROVE  SysInv'
<1>1. SysTypeOK /\ cxid[m] \in Xid /\ cip[m] \in AnyIp /\ NoIp \in AnyIp
  BY DEF SysInv, SysTypeOK, AnyIp
<1>2. CASE ClientDiscover(m)
  <2> DEFINE q == Msg("DISCOVER", m, cxid'[m], NoIp, NoIp)
  <2>1. NewXid(m) /\ UNCHANGED <<cip, cend, csent>> /\ requests' = requests \cup {q}
        /\ cst' = [cst EXCEPT ![m] = "selecting"]
    BY <1>2 DEF ClientDiscover, Send
  <2>2. q \in Packet /\ q.mac = m /\ q.xid = cxid'[m] /\ q.type = "DISCOVER"
    BY <1>1, <2>1, NewXidFresh, MsgTyped DEF MsgType
  <2> HIDE DEF q
  <2> QED
    BY <2>1, <2>2, ClientStarts
<1>3. CASE ClientReuse(m)
  <2> DEFINE q == Msg("REQUEST", m, cxid'[m], NoIp, cip[m])
  <2>1. NewXid(m) /\ UNCHANGED <<cip, cend>> /\ requests' = requests \cup {q}
        /\ csent' = [csent EXCEPT ![m] = now] /\ cst' = [cst EXCEPT ![m] = "requesting"]
    BY <1>3 DEF ClientReuse, Send
  <2>2. q \in Packet /\ q.mac = m /\ q.xid = cxid'[m] /\ q.type = "REQUEST"
    BY <1>1, <2>1, NewXidFresh, MsgTyped DEF MsgType
  <2> HIDE DEF q
  <2> QED
    BY <2>1, <2>2, ClientStarts
<1>4. CASE ClientRenew(m)
  <2> DEFINE q == Msg("REQUEST", m, cxid'[m], cip[m], NoIp)
  <2>1. NewXid(m) /\ UNCHANGED <<cip, cend>> /\ requests' = requests \cup {q}
        /\ csent' = [csent EXCEPT ![m] = now] /\ cst' = [cst EXCEPT ![m] = "renewing"]
        /\ cst[m] = "bound"
    BY <1>4 DEF ClientRenew, Send
  <2>2. q \in Packet /\ q.mac = m /\ q.xid = cxid'[m] /\ q.type = "REQUEST"
    BY <1>1, <2>1, NewXidFresh, MsgTyped DEF MsgType
  <2> HIDE DEF q
  <2> QED
    BY <2>1, <2>2, ClientStarts
<1>5. CASE ClientRelease(m)
  <2> DEFINE q == Msg("RELEASE", m, cxid[m], cip[m], NoIp)
  <2>1. q \in Packet /\ q.mac = m /\ q.xid = cxid[m] /\ q.type = "RELEASE"
    BY <1>1, MsgTyped DEF MsgType
  <2>2. requests' = requests \cup {q} /\ cst' = [cst EXCEPT ![m] = "init"]
        /\ UNCHANGED <<cxid, csent, cend>> /\ cip' = cip
    BY <1>5 DEF ClientRelease, Send
  <2> HIDE DEF q
  <2>3. {q} \in SUBSET Packet
    BY <2>1
  <2> QED
    BY <2>1, <2>2, <2>3, ClientToInit
<1>6. CASE ClientDecline(m)
  <2> DEFINE q == Msg("DECLINE", m, cxid[m], NoIp, cip[m])
  <2>1. q \in Packet /\ q.mac = m /\ q.xid = cxid[m] /\ q.type = "DECLINE" /\ q.ciaddr = NoIp
    BY <1>1, MsgTyped DEF MsgType
  <2>2. requests' = requests \cup {q} /\ cst' = [cst EXCEPT ![m] = "init"]
        /\ UNCHANGED <<cxid, csent, cend>> /\ cip' = [cip EXCEPT ![m] = NoIp]
    BY <1>6 DEF ClientDecline, Send
  <2> HIDE DEF q
  <2>3. {q} \in SUBSET Packet
    BY <2>1
  <2> QED
    BY <2>1, <2>2, <2>3, ClientToInit
<1>7. CASE ClientRefused(m) \/ ClientStop(m)
  <2>1. requests' = requests \cup {} /\ cst' = [cst EXCEPT ![m] = "init"]
        /\ UNCHANGED <<cxid, csent, cend>>
        /\ (cip' = cip \/ cip' = [cip EXCEPT ![m] = NoIp])
    BY <1>7 DEF ClientRefused, ClientStop
  <2>2. {} \in SUBSET Packet
    OBVIOUS
  <2> QED
    BY <2>1, <2>2, ClientToInit
<1> QED
  BY <1>2, <1>3, <1>4, <1>5, <1>6, <1>7, SelectPreserves, BindPreserves DEF ClientStep

----------------------------------------------------------------------------
(* The invariant is preserved by the server and by what surrounds it.       *)

\* A step of the server's side that keeps running leases, and whose new replies
\* are covered, preserves the invariant.
LEMMA ServerSidePreserves ==
  ASSUME SysInv, UNCHANGED <<requests, client_vars>>,
         TypeOK', TermBound', \A j \in rows : RowKept(j), now' \in Int, now' >= now,
         NEW R \in SUBSET Response, replies' = replies \cup R,
         \A r \in R : /\ r.xid <= cxid[r.mac]
                      /\ r.type = "ACK" =>
                           /\ r.xid = cxid[r.mac] => cst[r.mac] # "selecting"
                           /\ Covered(r.mac, r.yiaddr, now + LeaseTime)'
  PROVE  SysInv'
<1>1. /\ TypeOK /\ SysTypeOK /\ XidsPast /\ NoEarlyAck /\ SentInPast /\ DeclinesNameNothing
      /\ AckCovers /\ TableCoversUse
  BY DEF SysInv
<1>2. /\ cst' = cst /\ cxid' = cxid /\ cip' = cip /\ csent' = csent /\ cend' = cend
      /\ requests' = requests
  BY DEF client_vars
<1>3. now \in Int /\ LeaseTime \in Int
  BY <1>1, TimesTyped DEF TypeOK
<1>4. /\ csent \in [Mac -> 0..Horizon] /\ cend \in [Mac -> 0..(Horizon + LeaseTime)]
      /\ replies \subseteq Response
  BY <1>1 DEF SysTypeOK
<1>5. \A n \in Mac : csent[n] \in Int /\ cend[n] \in Int
  BY <1>4
<1>6. \A r \in Response : r.mac \in Mac
  BY DEF Response
<1>7. SysTypeOK' /\ XidsPast' /\ DeclinesNameNothing'
  BY <1>1, <1>2 DEF SysTypeOK, XidsPast, DeclinesNameNothing
<1>8. NoEarlyAck'
  BY <1>1, <1>2 DEF NoEarlyAck
<1>9. SentInPast'
  BY <1>1, <1>2, <1>3, <1>5 DEF SentInPast
<1>10. AckCovers'
  <2> SUFFICES ASSUME NEW r \in replies', r.type = "ACK", r.xid = cxid[r.mac],
                      cst[r.mac] \in {"requesting", "renewing"},
                      now' <= csent[r.mac] + LeaseTime
               PROVE  Covered(r.mac, r.yiaddr, csent[r.mac] + LeaseTime)'
    BY <1>2 DEF AckCovers
  <2>1. r.mac \in Mac /\ csent[r.mac] \in Int /\ csent[r.mac] + LeaseTime \in Int
    BY <1>3, <1>4, <1>5, <1>6
  <2>2. CASE r \in replies
    <3>1. now <= csent[r.mac] + LeaseTime
      BY <1>3, <2>1
    <3>2. Covered(r.mac, r.yiaddr, csent[r.mac] + LeaseTime)
      BY <1>1, <2>2, <3>1 DEF AckCovers
    <3>3. RowKept(r.yiaddr)
      BY <3>2 DEF Covered
    <3> DEFINE t == csent[r.mac] + LeaseTime
    <3>4. now <= t /\ t \in Int /\ Covered(r.mac, r.yiaddr, t) /\ t' = t
      BY <1>2, <2>1, <3>1, <3>2
    <3> QED
      BY <1>1, <1>2, <3>3, <3>4, CoverKept DEF Covered
  <2>3. CASE r \in R
    <3>1. Covered(r.mac, r.yiaddr, now + LeaseTime)'
      BY <2>3
    <3>2. r.yiaddr \in Ip /\ expire'[r.yiaddr] \in Int
      BY <3>1, TimesTyped DEF Covered, TypeOK
    <3>3. csent[r.mac] <= now
      BY <1>1, <2>1 DEF SentInPast
    <3> QED
      BY <1>2, <1>3, <2>1, <3>1, <3>2, <3>3 DEF Covered
  <2> QED
    BY <2>2, <2>3
<1>11. TableCoversUse'
  <2> SUFFICES ASSUME NEW n \in Mac, InUse(n)' PROVE Covered(n, cip[n], cend[n])'
    BY DEF TableCoversUse
  <2>1. InUse(n) /\ now <= cend[n]
    BY <1>2, <1>3, <1>5 DEF InUse
  <2>2. Covered(n, cip[n], cend[n])
    BY <1>1, <2>1 DEF TableCoversUse
  <2>3. RowKept(cip[n])
    BY <2>2 DEF Covered
  <2> DEFINE t == cend[n]
             i == cip[n]
  <2>4. Covered(n, i, t) /\ RowKept(i) /\ t \in Int /\ now <= t /\ t' = t /\ i' = i
    BY <1>2, <1>5, <2>1, <2>2, <2>3
  <2> QED
    BY <1>1, <1>2, <2>4, CoverKept DEF Covered
<1> QED
  BY <1>7, <1>8, <1>9, <1>10, <1>11 DEF SysInv

\* Handling a packet.
LEMMA ServePreserves ==
  ASSUME SysInv, StaticEntries = {}, Horizon + LeaseTime <= IntMax,
         NEW p \in requests, Serve(p)
  PROVE  SysInv'
<1>1. p \in Packet /\ main_loop(p) /\ TypeOK /\ TermBound
  BY DEF SysInv, SysTypeOK, Serve
<1>2. p.type = "DECLINE" => p.ciaddr = NoIp
  BY DEF SysInv, DeclinesNameNothing
<1>3. now' = now /\ TermBound' /\ \A j \in rows : RowKept(j)
  BY <1>1, <1>2, ServerKeeps
<1>4. TypeOK'
  <2>1. AllocNext => TypeOK'
    BY <1>1, RequestTyped, SurroundingsTyped DEF AllocNext
  <2>2. UNCHANGED alloc_vars => TypeOK'
    BY <1>1 DEF TypeOK, alloc_vars
  <2> QED
    BY <1>1, <2>1, <2>2, ServerCallsAllocator
<1>5. now \in Int
  BY <1>1 DEF TypeOK
<1> DEFINE R == {reply'} \cap Response
<1>6. UNCHANGED <<requests, client_vars>> /\ replies' = replies \cup R
  BY DEF Serve
<1>7. ASSUME reply' \in Response
      PROVE  /\ reply'.mac = p.mac /\ reply'.xid = p.xid
  <2>1. \A t, j, dest : Answer(p, t, j, dest).mac = p.mac /\ Answer(p, t, j, dest).xid = p.xid
    BY DEF Answer
  <2>2. reply' # NoReply /\ reply' # Fatal
    BY <1>7, RepliesDiffer
  <2> DEFINE Replied == \E t, j, dest : reply' = Answer(p, t, j, dest)
  <2>3. create_dhcp_nak(p) = reply' => Replied
    BY DEF create_dhcp_nak
  <2>4. \A j : create_dhcp_offer(p, j) = reply' => Replied
    BY <2>2 DEF create_dhcp_offer
  <2>5. \A j : create_dhcp_ack(p, j) = reply' \/ create_dhcp_ack2(p, j) = reply' => Replied
    BY <2>2 DEF create_dhcp_ack, create_dhcp_ack2
  <2> HIDE DEF Replied
  <2>6. Replied
    BY <1>1, <2>2, <2>3, <2>4, <2>5
    DEF main_loop, Discover, Release, Inform, RequestAddress, Decline, Ignore
  <2> QED
    BY <2>1, <2>6 DEF Replied
<1>8. ASSUME reply' \in Response
      PROVE  reply'.xid <= cxid[reply'.mac]
  BY <1>7, <1>8 DEF SysInv, XidsPast
<1>9. ASSUME reply' \in Response, reply'.type = "ACK"
      PROVE  /\ reply'.xid = cxid[reply'.mac] => cst[reply'.mac] # "selecting"
             /\ Covered(reply.mac, reply.yiaddr, now + LeaseTime)'
  <2>1. /\ p.type = "REQUEST" /\ reply'.mac = p.mac /\ reply'.xid = p.xid
        /\ Covered(p.mac, reply.yiaddr, now + LeaseTime)'
    BY <1>1, <1>9, AckIsCovered
  <2> QED
    BY <2>1 DEF SysInv, NoEarlyAck, Covered
<1>10. \A r \in R : /\ r.xid <= cxid[r.mac]
                    /\ r.type = "ACK" =>
                         /\ r.xid = cxid[r.mac] => cst[r.mac] # "selecting"
                         /\ r.yiaddr \in rows' /\ mac'[r.yiaddr] = r.mac
                         /\ expire'[r.yiaddr] >= now' + LeaseTime
  BY <1>8, <1>9 DEF Covered
<1>11. R \in SUBSET Response /\ now' \in Int /\ now' >= now
  BY <1>3, <1>5
<1> HIDE DEF R
<1> QED
  BY <1>3, <1>4, <1>6, <1>10, <1>11, ServerSidePreserves DEF Covered

\* Everything around the daemon.
LEMMA SurroundingsPreserve ==
  ASSUME SysInv, Surroundings, UNCHANGED <<net_vars, client_vars>>
  PROVE  SysInv'
<1>1. TypeOK /\ TermBound
  BY DEF SysInv
<1>2. now' \in Int /\ now' >= now /\ TermBound' /\ \A j \in rows : RowKept(j)
  BY <1>1, SurroundingsKeep
<1>3. TypeOK'
  BY <1>1, SurroundingsTyped
<1>4. replies' = replies \cup {} /\ UNCHANGED <<requests, client_vars>>
  BY DEF net_vars
<1>5. {} \in SUBSET Response
  OBVIOUS
<1> QED
  BY <1>2, <1>3, <1>4, <1>5, ServerSidePreserves

----------------------------------------------------------------------------
(* The theorems.                                                            *)

\* The invariant is inductive: whatever a client, the network, the server or
\* its surroundings do next, the table still covers every address in use.
THEOREM SystemInvariant ==
  ASSUME StaticEntries = {}, Horizon + LeaseTime <= IntMax
  PROVE  Spec => []SysInv
<1>1. Init => SysInv
  <2> SUFFICES ASSUME Init PROVE SysInv
    OBVIOUS
  <2>1. TypeOK
    BY AllocInitTyped DEF Init, ServerInit
  <2>2. SysTypeOK
    <3>1. \A m \in Mac : 0 \in Xid /\ 0 <= MaxXid[m]
      BY XidsTyped
    <3>2. cxid \in [Mac -> Xid] /\ \A m \in Mac : cxid[m] <= MaxXid[m]
      BY <3>1 DEF Init
    <3>3. cst \in [Mac -> ClientState] /\ cip \in [Mac -> AnyIp]
      BY DEF Init, ClientState, AnyIp
    <3>4. csent \in [Mac -> 0..Horizon] /\ cend \in [Mac -> 0..(Horizon + LeaseTime)]
      BY TimesTyped DEF Init
    <3> QED
      BY <3>2, <3>3, <3>4 DEF Init, SysTypeOK
  <2>3. TermBound
    BY DEF Init, ServerInit, AllocInit, TermBound
  <2>4. SentInPast
    BY DEF Init, ServerInit, AllocInit, SentInPast
  <2>5. XidsPast /\ NoEarlyAck /\ DeclinesNameNothing /\ AckCovers
    BY DEF Init, XidsPast, NoEarlyAck, DeclinesNameNothing, AckCovers
  <2>6. TableCoversUse
    BY DEF Init, TableCoversUse, InUse
  <2> QED
    BY <2>1, <2>2, <2>3, <2>4, <2>5, <2>6 DEF SysInv
<1>2. SysInv /\ Next => SysInv'
  BY ClientPreserves, ServePreserves, SurroundingsPreserve DEF Next
<1>3. SysInv /\ UNCHANGED vars => SysInv'
  BY DEF SysInv, TypeOK, SysTypeOK, TermBound, XidsPast, NoEarlyAck, SentInPast,
         DeclinesNameNothing, AckCovers, TableCoversUse, InUse, Covered,
         vars, server_vars, alloc_vars, net_vars, client_vars
<1>4. SysInv /\ [Next]_vars => SysInv'
  BY <1>2, <1>3
<1> QED
  BY <1>1, <1>4, PTL DEF Spec

\* Two clients never use one address at a time, whatever the network does to
\* their packets and however often the daemon dies, as long as no address is
\* assigned statically and the clock stays a lease time away from INT_MAX.
THEOREM Exclusive ==
  ASSUME StaticEntries = {}, Horizon + LeaseTime <= IntMax
  PROVE  Spec => []LeaseExclusive
<1>1. SysInv => LeaseExclusive
  BY DEF SysInv, TableCoversUse, Covered, LeaseExclusive
<1> QED
  BY <1>1, SystemInvariant, PTL

\* The server's table covers every use of an address.
THEOREM TableCovers ==
  ASSUME StaticEntries = {}, Horizon + LeaseTime <= IntMax
  PROVE  Spec => []TableCoversUse
<1>1. SysInv => TableCoversUse
  BY DEF SysInv
<1> QED
  BY <1>1, SystemInvariant, PTL

----------------------------------------------------------------------------
(* The system is a user of the allocator, whatever is configured.           *)

\* An ACK names an address.
AcksName == \A r \in replies : r.type = "ACK" => r.yiaddr \in Ip

SysTyped == TypeOK /\ SysTypeOK /\ AcksName

\* A client step keeps the clients and the network typed.
LEMMA ClientTyped ==
  ASSUME SysTyped, NEW m \in Mac, ClientStep(m)
  PROVE  SysTyped'
<1>1. UNCHANGED alloc_vars /\ replies' = replies
  BY DEF ClientStep, ServerIdle
<1>2. TypeOK' /\ AcksName' /\ replies' \subseteq Response
  BY <1>1 DEF SysTyped, TypeOK, AcksName, alloc_vars, SysTypeOK
<1>3. /\ SysTypeOK /\ requests \subseteq Packet /\ replies \subseteq Response
      /\ cst \in [Mac -> ClientState] /\ cxid \in [Mac -> Xid] /\ cip \in [Mac -> AnyIp]
      /\ csent \in [Mac -> 0..Horizon] /\ cend \in [Mac -> 0..(Horizon + LeaseTime)]
      /\ now \in 0..Horizon
      /\ \A n \in Mac : cxid[n] <= MaxXid[n]
  BY DEF SysTyped, SysTypeOK, TypeOK
<1>4. \A r \in replies : r.yiaddr \in AnyIp
  BY <1>3 DEF Response
<1>5. NoIp \in AnyIp /\ cxid[m] \in Xid /\ cip[m] \in AnyIp
  BY <1>3 DEF AnyIp
<1>6. csent[m] + LeaseTime \in 0..(Horizon + LeaseTime)
  BY <1>3, TimesTyped
<1>7. \/ cxid' = cxid
      \/ /\ cxid' \in [Mac -> Xid] /\ cxid'[m] <= MaxXid[m] /\ cxid'[m] \in Xid
         /\ \A n \in Mac \ {m} : cxid'[n] = cxid[n]
  <2>1. cxid' = cxid \/ NewXid(m)
    BY DEF ClientStep, ClientDiscover, ClientSelect, ClientReuse, ClientRenew, ClientBind,
           ClientRefused, ClientRelease, ClientDecline, ClientStop
  <2> QED
    BY <1>3, <2>1, NewXidFresh
<1>8. cxid' \in [Mac -> Xid] /\ \A n \in Mac : cxid'[n] <= MaxXid[n]
  BY <1>3, <1>7
<1>9. cst' \in [Mac -> ClientState]
  <2>1. PICK st \in ClientState : cst' = [cst EXCEPT ![m] = st]
    BY DEF ClientStep, ClientState, ClientDiscover, ClientSelect, ClientReuse, ClientRenew,
           ClientBind, ClientRefused, ClientRelease, ClientDecline, ClientStop
  <2> QED
    BY <1>3, <2>1
<1>10. cip' \in [Mac -> AnyIp]
  <2>1. cip' = cip \/ \E i \in AnyIp : cip' = [cip EXCEPT ![m] = i]
    BY <1>4, <1>5
    DEF ClientStep, Answers, ClientDiscover, ClientSelect, ClientReuse, ClientRenew,
        ClientBind, ClientRefused, ClientRelease, ClientDecline, ClientStop
  <2> QED
    BY <1>3, <2>1
<1>11. csent' \in [Mac -> 0..Horizon]
  <2>1. csent' = csent \/ csent' = [csent EXCEPT ![m] = now]
    BY DEF ClientStep, ClientDiscover, ClientSelect, ClientReuse, ClientRenew, ClientBind,
           ClientRefused, ClientRelease, ClientDecline, ClientStop
  <2> QED
    BY <1>3, <2>1
<1>12. cend' \in [Mac -> 0..(Horizon + LeaseTime)]
  <2>1. cend' = cend \/ cend' = [cend EXCEPT ![m] = csent[m] + LeaseTime]
    BY DEF ClientStep, ClientDiscover, ClientSelect, ClientReuse, ClientRenew, ClientBind,
           ClientRefused, ClientRelease, ClientDecline, ClientStop
  <2> QED
    BY <1>3, <1>6, <2>1
<1>13. requests' \subseteq Packet
  <2>2. CASE ClientDiscover(m)
    <3>1. cxid'[m] \in Xid /\ requests' = requests \cup {Msg("DISCOVER", m, cxid'[m], NoIp, NoIp)}
      BY <1>3, <2>2, NewXidFresh DEF ClientDiscover, Send
    <3> QED
      BY <1>3, <1>5, <3>1, MsgTyped DEF MsgType
  <2>3. CASE ClientSelect(m)
    <3>1. PICK r \in replies : requests' = requests \cup {Msg("REQUEST", m, cxid[m], NoIp, r.yiaddr)}
      BY <2>3 DEF ClientSelect, Send, Answers
    <3> QED
      BY <1>3, <1>4, <1>5, <3>1, MsgTyped DEF MsgType
  <2>4. CASE ClientReuse(m)
    <3>1. cxid'[m] \in Xid /\ requests' = requests \cup {Msg("REQUEST", m, cxid'[m], NoIp, cip[m])}
      BY <1>3, <2>4, NewXidFresh DEF ClientReuse, Send
    <3> QED
      BY <1>3, <1>5, <3>1, MsgTyped DEF MsgType
  <2>5. CASE ClientRenew(m)
    <3>1. cxid'[m] \in Xid /\ requests' = requests \cup {Msg("REQUEST", m, cxid'[m], cip[m], NoIp)}
      BY <1>3, <2>5, NewXidFresh DEF ClientRenew, Send
    <3> QED
      BY <1>3, <1>5, <3>1, MsgTyped DEF MsgType
  <2>6. CASE ClientRelease(m)
    BY <1>3, <1>5, <2>6, MsgTyped DEF ClientRelease, Send, MsgType
  <2>7. CASE ClientDecline(m)
    BY <1>3, <1>5, <2>7, MsgTyped DEF ClientDecline, Send, MsgType
  <2>8. CASE requests' = requests
    BY <1>3, <2>8
  <2> QED
    BY <2>2, <2>3, <2>4, <2>5, <2>6, <2>7, <2>8
    DEF ClientStep, ClientBind, ClientRefused, ClientStop
<1> QED
  BY <1>2, <1>8, <1>9, <1>10, <1>11, <1>12, <1>13 DEF SysTyped, SysTypeOK

\* Every step of the system is a call of the allocator, a step of what surrounds
\* it, or leaves it alone.
LEMMA SystemStepsAllocator ==
  ASSUME SysTyped, [Next]_vars
  PROVE  [AllocNext]_alloc_vars
<1>1. ASSUME NEW p \in requests, Serve(p) PROVE [AllocNext]_alloc_vars
  <2>1. p \in Packet /\ main_loop(p)
    BY <1>1 DEF SysTyped, SysTypeOK, Serve
  <2> QED
    BY <2>1, ServerCallsAllocator
<1>2. Surroundings => AllocNext
  BY DEF AllocNext
<1>3. ASSUME NEW m \in Mac, ClientStep(m) PROVE UNCHANGED alloc_vars
  BY <1>3 DEF ClientStep, ServerIdle
<1>4. UNCHANGED vars => UNCHANGED alloc_vars
  BY DEF vars, server_vars
<1> QED
  BY <1>1, <1>2, <1>3, <1>4 DEF Next

\* With static assignments, failing SELECTs and overflows too.
LEMMA SystemTyped == Spec => []SysTyped
<1>1. Init => SysTyped
  <2> SUFFICES ASSUME Init PROVE SysTyped
    OBVIOUS
  <2>1. TypeOK /\ AcksName
    BY AllocInitTyped DEF Init, ServerInit, AcksName
  <2>2. cxid \in [Mac -> Xid] /\ \A m \in Mac : cxid[m] <= MaxXid[m]
    BY XidsTyped DEF Init
  <2>3. /\ cst \in [Mac -> ClientState] /\ cip \in [Mac -> AnyIp]
        /\ csent \in [Mac -> 0..Horizon] /\ cend \in [Mac -> 0..(Horizon + LeaseTime)]
    BY TimesTyped DEF Init, ClientState, AnyIp
  <2> QED
    BY <2>1, <2>2, <2>3 DEF Init, SysTyped, SysTypeOK
<1>2. ASSUME SysTyped, [Next]_vars PROVE TypeOK'
  <2>1. AllocNext => TypeOK'
    BY <1>2, RequestTyped, SurroundingsTyped DEF AllocNext, SysTyped
  <2>2. UNCHANGED alloc_vars => TypeOK'
    BY <1>2 DEF TypeOK, alloc_vars, SysTyped
  <2> QED
    BY <1>2, <2>1, <2>2, SystemStepsAllocator
<1>3. ASSUME SysTyped, NEW p \in requests, Serve(p) PROVE SysTypeOK' /\ AcksName'
  <2>1. p \in Packet /\ main_loop(p) /\ TypeOK
    BY <1>3 DEF SysTyped, SysTypeOK, Serve
  <2>2. SysTypeOK'
    BY <1>3 DEF SysTyped, SysTypeOK, Serve, client_vars
  <2>3. ASSUME reply' \in Response, reply'.type = "ACK" PROVE reply'.yiaddr \in Ip
    BY <2>1, <2>3, AckComesFrom, ConfigsTyped DEF TypeOK, ConfigType
  <2>4. AcksName'
    BY <1>3, <2>3 DEF AcksName, SysTyped, Serve
  <2> QED
    BY <2>2, <2>4
<1>4. ASSUME SysTyped, UNCHANGED <<net_vars, client_vars>> PROVE SysTypeOK' /\ AcksName'
  BY <1>4 DEF SysTyped, SysTypeOK, AcksName, net_vars, client_vars
<1>5. ASSUME SysTyped, [Next]_vars PROVE SysTyped'
  <2>1. CASE Next
    BY <1>2, <1>3, <1>4, <1>5, <2>1, ClientTyped DEF Next, SysTyped
  <2>2. CASE UNCHANGED vars
    BY <1>2, <1>4, <1>5, <2>2 DEF vars, SysTyped
  <2> QED
    BY <1>5, <2>1, <2>2
<1> QED
  BY <1>1, <1>5, PTL DEF Spec

\* Clients and a network that loses, repeats and reorders packets make the server
\* call the allocator in no way it is not specified for: every theorem about
\* AllocSpec holds of the system, in any configuration.
THEOREM SystemUsesAllocator == Spec => AllocSpec
<1>1. Init => AllocInit
  BY DEF Init, ServerInit
<1> QED
  BY <1>1, SystemTyped, SystemStepsAllocator, PTL DEF Spec, AllocSpec

----------------------------------------------------------------------------
(* The refinement: the system keeps the promise of AddressUse.              *)

\* The mapped variable: the address a client uses.
UsedBy == [m \in Mac |-> IF cst[m] \in {"bound", "renewing"} THEN cip[m] ELSE NoIp]

\* A step after which the same clients use the same addresses until the same time.
LEMMA SameUse ==
  ASSUME UNCHANGED <<UsedBy, cend, now>>
  PROVE  UNCHANGED Promised!use_vars
BY DEF UsedBy, Promised!use_vars

\* Accepting an ACK is taking an address nobody else's term on is running.
LEMMA BindTakes ==
  ASSUME SysInv, AcksName, NEW m \in Mac, ClientBind(m), ServerIdle
  PROVE  Promised!UseNext
<1>1. PICK r \in replies : /\ r.type = "ACK" /\ r.mac = m /\ r.xid = cxid[m]
                           /\ cip' = [cip EXCEPT ![m] = r.yiaddr]
  BY DEF ClientBind, Answers
<1>2. /\ cst[m] \in {"requesting", "renewing"} /\ cst' = [cst EXCEPT ![m] = "bound"]
      /\ cend' = [cend EXCEPT ![m] = csent[m] + LeaseTime] /\ now' = now
  BY DEF ClientBind, ServerIdle, alloc_vars
<1>3. /\ cst \in [Mac -> ClientState] /\ cip \in [Mac -> AnyIp]
      /\ csent \in [Mac -> 0..Horizon] /\ cend \in [Mac -> 0..(Horizon + LeaseTime)]
  BY DEF SysInv, SysTypeOK
<1> DEFINE i == r.yiaddr
<1>4. i \in Ip /\ i # NoIp
  BY <1>1, NoIpIsNoAddress DEF AcksName
<1>5. cend'[m] = csent[m] + LeaseTime
  BY <1>2, <1>3
<1>6. csent[m] + LeaseTime <= now + LeaseTime
  <2>1. csent[m] \in Int /\ now \in Int /\ LeaseTime \in Int /\ csent[m] <= now
    BY <1>3, TimesTyped DEF SysInv, TypeOK, SentInPast
  <2> QED
    BY <2>1
<1>7. ASSUME now <= cend'[m], NEW d \in Mac \ {m}, UsedBy[d] = i, now <= cend[d]
      PROVE  FALSE
  <2>1. Covered(m, i, csent[m] + LeaseTime)
    BY <1>1, <1>2, <1>5, <1>7 DEF SysInv, AckCovers
  <2>2. InUse(d) /\ cip[d] = i
    BY <1>4, <1>7 DEF UsedBy, InUse
  <2>3. Covered(d, i, cend[d])
    BY <2>2 DEF SysInv, TableCoversUse
  <2> QED
    BY <2>1, <2>3 DEF Covered
<1>8. UsedBy' = [UsedBy EXCEPT ![m] = i]
  BY <1>1, <1>2, <1>3 DEF UsedBy
<1>9. cend' = [cend EXCEPT ![m] = cend'[m]]
  BY <1>2, <1>5
<1> HIDE DEF i
<1>10. Promised!Take(m, i, cend'[m])
  BY <1>2, <1>5, <1>6, <1>7, <1>8, <1>9 DEF Promised!Take, Promised!Live, UsedBy
<1> QED
  BY <1>4, <1>10 DEF Promised!UseNext, Promised!Take

\* Going back to init is stopping.
LEMMA InitStops ==
  ASSUME SysInv, NEW m \in Mac, cst' = [cst EXCEPT ![m] = "init"], UNCHANGED <<cend, now>>,
         cip' = cip \/ cip' = [cip EXCEPT ![m] = NoIp]
  PROVE  Promised!UseNext
<1>1. cst \in [Mac -> ClientState] /\ cip \in [Mac -> AnyIp]
  BY DEF SysInv, SysTypeOK
<1>2. UsedBy' = [UsedBy EXCEPT ![m] = NoIp]
  BY <1>1 DEF UsedBy
<1>3. Promised!Stop(m)
  BY <1>2 DEF Promised!Stop, UsedBy
<1> QED
  BY <1>3 DEF Promised!UseNext

\* A step of a client is one of the promise, or none.
LEMMA ClientKeepsPromise ==
  ASSUME SysInv, AcksName, NEW m \in Mac, ClientStep(m)
  PROVE  Promised!UseNext \/ UNCHANGED Promised!use_vars
<1>1. ServerIdle /\ now' = now
  BY DEF ClientStep, ServerIdle, alloc_vars
<1>2. cst \in [Mac -> ClientState] /\ cip \in [Mac -> AnyIp]
  BY DEF SysInv, SysTypeOK
<1>3. CASE ClientBind(m)
  BY <1>1, <1>3, BindTakes
<1>4. CASE ClientRefused(m) \/ ClientRelease(m) \/ ClientDecline(m) \/ ClientStop(m)
  <2>1. /\ cst' = [cst EXCEPT ![m] = "init"] /\ cend' = cend
        /\ cip' = cip \/ cip' = [cip EXCEPT ![m] = NoIp]
    BY <1>4 DEF ClientRefused, ClientRelease, ClientDecline, ClientStop
  <2> QED
    BY <1>1, <2>1, InitStops
<1>5. CASE ClientDiscover(m) \/ ClientReuse(m) \/ ClientSelect(m)
  <2>1. /\ cst[m] \in {"init", "selecting"} /\ cend' = cend
        /\ \E st \in {"selecting", "requesting"} : cst' = [cst EXCEPT ![m] = st]
        /\ cip' = cip \/ \E i : cip' = [cip EXCEPT ![m] = i]
    BY <1>5 DEF ClientDiscover, ClientReuse, ClientSelect
  <2>2. UsedBy' = UsedBy
    BY <1>2, <2>1 DEF UsedBy
  <2> QED
    BY <1>1, <2>1, <2>2, SameUse
<1>6. CASE ClientRenew(m)
  <2>1. /\ cst[m] = "bound" /\ cst' = [cst EXCEPT ![m] = "renewing"]
        /\ cip' = cip /\ cend' = cend
    BY <1>6 DEF ClientRenew
  <2>2. UsedBy' = UsedBy
    BY <1>2, <2>1 DEF UsedBy
  <2> QED
    BY <1>1, <2>1, <2>2, SameUse
<1> QED
  BY <1>3, <1>4, <1>5, <1>6 DEF ClientStep

\* The system implements the promise of a DHCP service, step by step: a client takes
\* or extends the use of an address only when no other client's term on it is
\* running and for a lease time at most, under the assumptions of Exclusive.
THEOREM ImplementsPromise ==
  ASSUME StaticEntries = {}, Horizon + LeaseTime <= IntMax
  PROVE  Spec => KeepsPromise
<1>1. Init => Promised!UseInit
  <2> SUFFICES ASSUME Init PROVE Promised!UseInit
    OBVIOUS
  <2>1. now \in Nat /\ cend = [m \in Mac |-> 0]
    BY DEF Init, ServerInit, AllocInit
  <2>2. UsedBy = [m \in Mac |-> NoIp]
    BY DEF Init, UsedBy
  <2> QED
    BY <2>1, <2>2 DEF Promised!UseInit, UsedBy
<1>2. ASSUME UNCHANGED client_vars, now' = now PROVE UNCHANGED Promised!use_vars
  BY <1>2, SameUse DEF client_vars, UsedBy
<1>3. ASSUME SysInv, AcksName, Next
      PROVE  Promised!UseNext \/ UNCHANGED Promised!use_vars
  <2>1. ASSUME NEW p \in requests, Serve(p) PROVE UNCHANGED Promised!use_vars
    <3>1. /\ TypeOK /\ TermBound /\ p \in Packet /\ main_loop(p)
          /\ p.type = "DECLINE" => p.ciaddr = NoIp
      BY <1>3, <2>1 DEF SysInv, SysTypeOK, Serve, DeclinesNameNothing
    <3>2. now' = now
      BY <3>1, ServerKeeps
    <3> QED
      BY <1>2, <2>1, <3>2 DEF Serve
  <2>2. ASSUME Surroundings, UNCHANGED client_vars
        PROVE  Promised!UseNext \/ UNCHANGED Promised!use_vars
    <3>1. CASE Tick
      <4>1. UsedBy' = UsedBy /\ cend' = cend /\ now' = now + 1
        BY <2>2, <3>1 DEF client_vars, UsedBy, Tick
      <4>2. Promised!Pass
        BY <4>1 DEF Promised!Pass, UsedBy
      <4> QED
        BY <4>2 DEF Promised!UseNext
    <3>2. CASE now' = now
      BY <1>2, <2>2, <3>2
    <3> QED
      BY <2>2, <3>1, <3>2
      DEF Surroundings, Start, prepare_databases, Die, Reboot, EditStatic, Exclude, Authorise
  <2> QED
    BY <1>3, <2>1, <2>2, ClientKeepsPromise DEF Next
<1>4. SysInv /\ AcksName /\ [Next]_vars => [Promised!UseNext]_Promised!use_vars
  <2>1. UNCHANGED vars => UNCHANGED Promised!use_vars
    BY <1>2 DEF vars, server_vars, alloc_vars
  <2> QED
    BY <1>3, <2>1
<1>5. Spec => []AcksName
  BY SystemTyped, PTL DEF SysTyped
<1>6. Spec => []SysInv
  BY SystemInvariant
<1> QED
  BY <1>1, <1>4, <1>5, <1>6, PTL DEF Spec, KeepsPromise, Promised!UseSpec

----------------------------------------------------------------------------
(* The clients of DhcpLive are clients of DhcpServer, so that what is       *)
(* proved about the server holds while they keep asking.  (That they are    *)
(* served in the end is a matter of fairness, and for TLC.)                 *)

\* A client asks for and releases addresses, or nothing.
LeaseTyped ==
    lease = [m \in Mac |-> lease[m]] /\ \A m \in Mac : lease[m].ip \in AnyIp

\* What a client sends is a packet.
LEMMA SendsPacket ==
  ASSUME Xid # {}, NEW m \in Mac, NEW t \in MsgType, NEW ci \in AnyIp, NEW i \in AnyIp,
         Sends(m, t, ci, i)
  PROVE  \E p \in Packet : main_loop(p)
<1> DEFINE p == [type |-> t, mac |-> m, xid |-> CHOOSE x \in Xid : TRUE, ciaddr |-> ci, req |-> i]
<1>1. p \in Packet
  BY DEF Packet
<1>2. main_loop(p)
  BY DEF Sends
<1> HIDE DEF p
<1> QED
  BY <1>1, <1>2

\* A step of a client is a packet for the server, or leaves it alone.
LEMMA LiveStepsServer ==
  ASSUME Xid # {}, LeaseTyped, [LiveNext]_live_vars
  PROVE  [ServerNext]_server_vars
<1>1. NoIp \in AnyIp /\ {"DISCOVER", "REQUEST", "RELEASE", "INFORM"} \subseteq MsgType
  BY DEF AnyIp, MsgType
<1>2. \A m \in Mac : lease[m].ip \in AnyIp
  BY DEF LeaseTyped
<1>3. ASSUME NEW m \in Mac, Ask(m) \/ AskInVain(m) PROVE \E p \in Packet : main_loop(p)
  <2>1. Sends(m, "DISCOVER", NoIp, NoIp)
    BY <1>3 DEF Ask, AskInVain
  <2> QED
    BY <1>1, <2>1, SendsPacket
<1>4. ASSUME NEW m \in Mac, Confirm(m) \/ ConfirmInVain(m) PROVE \E p \in Packet : main_loop(p)
  <2>1. PICK ci \in AnyIp, i \in AnyIp : Sends(m, "REQUEST", ci, i)
    BY <1>1, <1>2, <1>4 DEF Confirm, ConfirmInVain, Sends
  <2> QED
    BY <1>1, <2>1, SendsPacket
<1>5. ASSUME NEW m \in Mac, Leave(m) \/ Other(m) PROVE \E p \in Packet : main_loop(p)
  <2>1. PICK t \in MsgType, ci \in AnyIp, i \in AnyIp : Sends(m, t, ci, i)
    BY <1>1, <1>2, <1>5 DEF Leave, Other, Sends
  <2> QED
    BY <2>1, SendsPacket
<1>6. ASSUME NEW m \in Mac, Wake(m) PROVE UNCHANGED server_vars
  BY <1>6 DEF Wake
<1>7. Around => Surroundings /\ reply' = NoReply
  BY DEF Around
<1>8. UNCHANGED live_vars => UNCHANGED server_vars
  BY DEF live_vars
<1> QED
  BY <1>3, <1>4, <1>5, <1>6, <1>7, <1>8 DEF LiveNext, ServerNext

\* The clients that keep asking are users of the server: what it promises under any
\* packets (RepliesBacked, OffersHonoured, NeverExits), and what the allocator
\* promises under any calls (OneLease, Announced), it promises to them.
THEOREM ClientsUseServer ==
  ASSUME Xid # {}
  PROVE  LiveSpec => ServerSpec
<1>1. LiveInit => ServerInit /\ LeaseTyped
  BY DEF LiveInit, LeaseTyped, NoLease, AnyIp
<1>2. ASSUME LeaseTyped, [LiveNext]_live_vars PROVE LeaseTyped'
  <2>1. NoLease.ip \in AnyIp
    BY DEF NoLease, AnyIp
  <2>2. ASSUME lease' = lease PROVE LeaseTyped'
    BY <1>2, <2>2 DEF LeaseTyped
  <2>3. ASSUME NEW m \in Mac, NEW l, l.ip \in AnyIp, lease' = [lease EXCEPT ![m] = l]
        PROVE  LeaseTyped'
    BY <1>2, <2>3 DEF LeaseTyped
  <2>4. reply' \in Response => reply'.yiaddr \in AnyIp
    BY DEF Response
  <2>5. ASSUME NEW m \in Mac, Ask(m) \/ Confirm(m) PROVE LeaseTyped'
    <3>1. CASE Becomes(m, "init", NoLease)
      BY <2>1, <2>3, <3>1 DEF Becomes
    <3>2. ASSUME NEW s, NEW e, reply' \in Response, Becomes(m, s, [ip |-> reply'.yiaddr, end |-> e])
          PROVE  LeaseTyped'
      <4>1. PICK i \in AnyIp : i = reply'.yiaddr
        BY <2>4, <3>2
      <4> DEFINE l == [ip |-> i, end |-> e]
      <4>2. l.ip \in AnyIp /\ lease' = [lease EXCEPT ![m] = l]
        BY <3>2, <4>1 DEF Becomes
      <4> HIDE DEF l
      <4> QED
        BY <2>3, <4>2
    <3>3. \/ lease' = lease
          \/ Becomes(m, "init", NoLease)
          \/ /\ reply' \in Response
             /\ \E s, e : /\ client' = [client EXCEPT ![m] = s]
                          /\ lease' = [lease EXCEPT ![m] = [ip |-> reply'.yiaddr, end |-> e]]
      BY <2>5 DEF Ask, Confirm, Answered, Becomes
    <3> QED
      BY <2>2, <3>1, <3>2, <3>3 DEF Becomes
  <2>6. ASSUME NEW m \in Mac, Leave(m) \/ Wake(m) PROVE LeaseTyped'
    BY <2>1, <2>3, <2>6 DEF Leave, Wake, Becomes
  <2>7. CASE Around
    BY <1>2, <2>1, <2>7 DEF Around, LeaseTyped
  <2>8. CASE lease' = lease
    BY <2>2, <2>8
  <2> QED
    BY <1>2, <2>5, <2>6, <2>7, <2>8 DEF LiveNext, AskInVain, ConfirmInVain, Other, live_vars
<1>3. LeaseTyped /\ [LiveNext]_live_vars => LeaseTyped'
  BY <1>2
<1>4. LeaseTyped /\ [LiveNext]_live_vars => [ServerNext]_server_vars
  BY LiveStepsServer
<1> QED
  BY <1>1, <1>3, <1>4, PTL DEF LiveSpec, ServerSpec
=============================================================================
