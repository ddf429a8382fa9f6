-------------------------- MODULE DhcpServerProofs --------------------------
(***************************************************************************)
(* Theorems about the allocator, for every set of clients and addresses,    *)
(* every configuration and static table, every lease time and clock; and    *)
(* about the server loop, for every sequence of packets, and any deaths and *)
(* restarts: what it says is in its table, what it offers it honours, and   *)
(* when it cannot fall over its own table.                                  *)
(***************************************************************************)
EXTENDS DhcpServer, TLAPS

USE DEF Owner

\* The expiry time is a C int.
LEMMA LeaseEndInt ==
  ASSUME now \in 0..Horizon
  PROVE  lease_end \in (-IntMax - 1)..IntMax
BY TimesTyped DEF lease_end, ToInt

\* What the queries may answer.
LEMMA QueryTypes ==
  ASSUME TypeOK, NEW m \in Mac
  PROVE  /\ get_static_ip(m) \subseteq StaticEntries \cup {NoEntry}
         /\ \A e \in get_static_ip(m) \ {NoEntry} : e.ip \in Ip /\ e.inet \in BOOLEAN
         /\ get_leased_ip(m) \ {NoIp} \subseteq rows
         /\ get_new_ip \ {NoIp} \subseteq Reusable
         /\ Reusable \subseteq rows
         /\ rows \subseteq Ip
<1>1. cfg.hosts \in [Mac -> StaticEntries \cup {NoEntry}]
  BY ConfigsTyped DEF TypeOK, ConfigType
<1>2. get_static_ip(m) \subseteq StaticEntries \cup {NoEntry}
  BY <1>1 DEF TypeOK, get_static_ip
<1>3. \A e \in StaticEntries : e.ip \in Ip /\ e.inet \in BOOLEAN
  BY EntriesTyped
<1> QED
  BY <1>2, <1>3 DEF TypeOK, get_leased_ip, get_new_ip, Reusable, Found

\* Writing a row keeps the lease table typed.
LEMMA WriteTyped ==
  ASSUME TypeOK, NEW m \in Owner, NEW i \in Ip, NEW a \in AuthInfo \cup {Keep},
         \/ do_update_lease(m, i, a)
         \/ a # Keep /\ do_create_lease(m, i, a)
         \/ UNCHANGED lease_db
  PROVE  /\ rows' \subseteq Ip
         /\ mac' \in [Ip -> Owner]
         /\ expire' \in [Ip -> (-IntMax - 1)..IntMax]
         /\ auth' \in [Ip -> AuthInfo]
<1>1. lease_end \in (-IntMax - 1)..IntMax
  BY LeaseEndInt DEF TypeOK
<1>2. CASE do_update_lease(m, i, a)
  BY <1>1, <1>2 DEF TypeOK, do_update_lease, Keep
<1>3. CASE a # Keep /\ do_create_lease(m, i, a)
  BY <1>1, <1>3 DEF TypeOK, do_create_lease
<1>4. CASE UNCHANGED lease_db
  BY <1>4 DEF TypeOK, lease_db
<1> QED
  BY <1>2, <1>3, <1>4

----------------------------------------------------------------------------
(* What a call does to the lease table.                                     *)

\* Row i is written for m, by UPDATE if it exists and by INSERT if not.
Writes(m, i, a) ==
    \/ i \in rows /\ do_update_lease(m, i, a)
    \/ i \notin rows /\ a # Keep /\ do_create_lease(m, i, a)

\* m may have row i: by a static assignment, because it had it, or because
\* nobody's lease on it is running.
MayHave(m, i) == StaticFor(m, i) \/ (i \in rows /\ (mac[i] = m \/ i \in Reusable))

\* ip_alloc writes at most the row it answers with, and only if the client may
\* have it.
LEMMA AllocEffect ==
  ASSUME TypeOK, NEW m \in Mac, NEW i, NEW cut, ip_alloc(m, i, cut)
  PROVE  \/ UNCHANGED lease_db
         \/ /\ i \in Ip /\ MayHave(m, i)
            /\ \E a \in AuthInfo : Writes(m, i, a)
<1>1. CASE AllocStatic(m, i, cut)
  <2>1. PICK e \in get_static_ip(m) \ {NoEntry} :
           /\ i = e.ip
           /\ \/ record_static_lease(m, i, IF e.inet THEN "static" ELSE "internal")
              \/ UNCHANGED lease_db
    BY <1>1 DEF AllocStatic, Upto
  <2>2. i \in Ip
    BY <2>1, QueryTypes
  <2>3. StaticFor(m, i)
    BY <2>1 DEF StaticFor, get_static_ip
  <2>4. (IF e.inet THEN "static" ELSE "internal") \in AuthInfo \ {Keep}
    BY DEF AuthInfo, Keep
  <2> QED
    BY <2>1, <2>2, <2>3, <2>4 DEF MayHave, Writes, record_static_lease
<1>2. CASE AllocLeased(m, i, cut)
  <2>1. i \in rows /\ mac[i] = m /\ i \in Ip
    BY <1>2, QueryTypes DEF AllocLeased, get_leased_ip, Found
  <2>2. record_lease(m, i, "leased") \/ UNCHANGED lease_db
    BY <1>2 DEF AllocLeased, Upto
  <2> QED
    BY <2>1, <2>2 DEF MayHave, Writes, record_lease, AuthInfo
<1>3. CASE AllocNew(m, i, cut)
  <2>1. i \in rows /\ i \in Reusable /\ i \in Ip
    BY <1>3, QueryTypes DEF AllocNew
  <2>2. record_lease(m, i, "new") \/ UNCHANGED lease_db
    BY <1>3 DEF AllocNew, Upto
  <2> QED
    BY <2>1, <2>2 DEF MayHave, Writes, record_lease, AuthInfo
<1>4. CASE AllocNone(m, i)
  BY <1>4 DEF AllocNone, lease_db
<1> QED
  BY <1>1, <1>2, <1>3, <1>4 DEF ip_alloc

\* ip_check writes at most the row it was asked about, and only if the client
\* may have it.
LEMMA CheckEffect ==
  ASSUME TypeOK, NEW m \in Mac, NEW i, NEW ok, ip_check(m, i, ok)
  PROVE  \/ UNCHANGED lease_db
         \/ /\ i \in Ip /\ MayHave(m, i)
            /\ \E a \in AuthInfo \cup {Keep} : Writes(m, i, a)
<1>1. CASE CheckStatic(m, i, ok)
  <2>1. PICK e \in get_static_ip(m) \ {NoEntry} :
           /\ ok = (i = e.ip)
           /\ IF ok THEN record_static_lease(m, i, "static") ELSE UNCHANGED lease_db
    BY <1>1 DEF CheckStatic
  <2>2. SUFFICES ASSUME i = e.ip, record_static_lease(m, i, "static")
                 PROVE  /\ i \in Ip /\ MayHave(m, i)
                        /\ \E a \in AuthInfo \cup {Keep} : Writes(m, i, a)
    BY <2>1
  <2>3. i \in Ip
    BY <2>2, QueryTypes
  <2>4. StaticFor(m, i)
    BY <2>2 DEF StaticFor, get_static_ip
  <2> QED
    BY <2>2, <2>3, <2>4 DEF MayHave, Writes, record_static_lease, AuthInfo, Keep
<1>2. CASE CheckLeased(m, i, ok)
  <2>1. PICK own \in get_leased_ip(m) :
           /\ ok = (i = own)
           /\ IF ok THEN record_lease(m, i, Keep) ELSE UNCHANGED lease_db
    BY <1>2 DEF CheckLeased
  <2>2. SUFFICES ASSUME i = own, record_lease(m, i, Keep), i \in rows
                 PROVE  /\ i \in Ip /\ MayHave(m, i)
                        /\ \E a \in AuthInfo \cup {Keep} : Writes(m, i, a)
    BY <2>1 DEF record_lease
  <2>3. i \in Ip /\ mac[i] = m
    BY <2>2, QueryTypes, NoIpIsNoAddress DEF get_leased_ip, Found
  <2> QED
    BY <2>2, <2>3 DEF MayHave, Writes, record_lease
<1>3. CASE CheckRefused(m, i, ok)
  BY <1>3 DEF CheckRefused
<1> QED
  BY <1>1, <1>2, <1>3 DEF ip_check

\* ip_invalidate writes at most the row of the address, for nobody.
LEMMA InvalidateEffect ==
  ASSUME NEW i, ip_invalidate(i)
  PROVE  UNCHANGED lease_db \/ (i \in rows /\ Writes(BadMac, i, "invalidated"))
BY DEF ip_invalidate, record_lease, Writes

\* The table stays typed in every one of these cases.
LEMMA EffectTyped ==
  ASSUME TypeOK,
         \/ UNCHANGED lease_db
         \/ \E m \in Mac \cup {BadMac}, i \in Ip, a \in AuthInfo \cup {Keep} : Writes(m, i, a)
  PROVE  /\ rows' \subseteq Ip
         /\ mac' \in [Ip -> Owner]
         /\ expire' \in [Ip -> (-IntMax - 1)..IntMax]
         /\ auth' \in [Ip -> AuthInfo]
<1>1. CASE UNCHANGED lease_db
  BY <1>1 DEF TypeOK, lease_db
<1>2. ASSUME NEW m \in Mac \cup {BadMac}, NEW i \in Ip, NEW a \in AuthInfo \cup {Keep},
             Writes(m, i, a)
      PROVE  /\ rows' \subseteq Ip
             /\ mac' \in [Ip -> Owner]
             /\ expire' \in [Ip -> (-IntMax - 1)..IntMax]
             /\ auth' \in [Ip -> AuthInfo]
  <2>1. m \in Owner
    OBVIOUS
  <2> QED
    BY <1>2, <2>1, WriteTyped DEF Writes
<1> QED
  BY <1>1, <1>2

----------------------------------------------------------------------------
(* Type correctness.                                                        *)

\* One effect on the accounting state.
LEMMA AcctTyped ==
  ASSUME TypeOK, NEW m \in Mac, NEW i \in Ip \cup {NoIp}, NEW st \in {"start", "end"},
         send_acct_message(m, i, st) \/ UNCHANGED acct
  PROVE  acct' \in [Mac \X (Ip \cup {NoIp}) -> {"none", "start", "end"}]
BY DEF TypeOK, send_acct_message

\* A call of the allocator keeps the state typed.
LEMMA RequestTyped ==
  ASSUME TypeOK, NEW m \in Mac, NEW i \in Ip \cup {NoIp}, Request(m, i)
  PROVE  TypeOK'
<1>1. ASSUME NEW cut \in Cuts, ip_alloc(m, i, cut), up' \in {cut = Done, FALSE}
      PROVE  TypeOK'
  <2>1. /\ rows' \subseteq Ip /\ mac' \in [Ip -> Owner]
        /\ expire' \in [Ip -> (-IntMax - 1)..IntMax] /\ auth' \in [Ip -> AuthInfo]
    BY <1>1, AllocEffect, EffectTyped
  <2>2. pf' \subseteq Ip /\ acct' \in [Mac \X (Ip \cup {NoIp}) -> {"none", "start", "end"}]
    <3>1. CASE AllocStatic(m, i, cut)
      <4>1. i \in Ip
        BY <3>1, QueryTypes DEF AllocStatic
      <4>2. pf_add(i) \/ UNCHANGED pf
        BY <3>1 DEF AllocStatic, Upto
      <4>3. send_acct_message(m, i, "start") \/ UNCHANGED acct
        BY <3>1 DEF AllocStatic, Upto
      <4> QED
        BY <4>1, <4>2, <4>3, AcctTyped DEF pf_add, TypeOK
    <3>2. CASE AllocLeased(m, i, cut)
      BY <3>2 DEF AllocLeased, TypeOK
    <3>3. CASE AllocNew(m, i, cut)
      <4>1. pf_del(i) \/ UNCHANGED pf
        BY <3>3 DEF AllocNew, Upto
      <4>2. send_acct_message(m, i, "start") \/ UNCHANGED acct
        BY <3>3 DEF AllocNew, Upto
      <4> QED
        BY <4>1, <4>2, AcctTyped DEF pf_del, TypeOK
    <3>4. CASE AllocNone(m, i)
      BY <3>4 DEF AllocNone, TypeOK
    <3> QED
      BY <1>1, <3>1, <3>2, <3>3, <3>4 DEF ip_alloc
  <2>3. now' \in 0..Horizon /\ cfg' \in Configs
        /\ static_db' \in [Mac -> StaticEntries \cup {NoEntry}]
    BY <1>1 DEF ip_alloc, outside, TypeOK
  <2> QED
    BY <1>1, <2>1, <2>2, <2>3 DEF TypeOK
<1>2. ASSUME NEW ok \in BOOLEAN, ip_check(m, i, ok), UNCHANGED up
      PROVE  TypeOK'
  <2>1. /\ rows' \subseteq Ip /\ mac' \in [Ip -> Owner]
        /\ expire' \in [Ip -> (-IntMax - 1)..IntMax] /\ auth' \in [Ip -> AuthInfo]
    BY <1>2, CheckEffect, EffectTyped
  <2> QED
    BY <1>2, <2>1 DEF TypeOK, ip_check
<1>3. ASSUME ip_free(m, i), UNCHANGED up
      PROVE  TypeOK'
  BY <1>3, AcctTyped DEF ip_free, TypeOK
<1>4. ASSUME ip_invalidate(i), UNCHANGED up
      PROVE  TypeOK'
  <2>1. /\ rows' \subseteq Ip /\ mac' \in [Ip -> Owner]
        /\ expire' \in [Ip -> (-IntMax - 1)..IntMax] /\ auth' \in [Ip -> AuthInfo]
    BY <1>4, InvalidateEffect, EffectTyped DEF TypeOK, AuthInfo
  <2> QED
    BY <1>4, <2>1 DEF TypeOK, ip_invalidate
<1> QED
  BY <1>1, <1>2, <1>3, <1>4 DEF Request

\* Everything around the daemon keeps the state typed.
LEMMA SurroundingsTyped ==
  ASSUME TypeOK, Surroundings
  PROVE  TypeOK'
<1>1. ASSUME Start PROVE TypeOK'
  <2>1. PICK new \in SUBSET Ip, adm \in SUBSET StaticRows :
          populate(new) /\ pf' = (IF PfEnabled THEN pf \cup adm ELSE pf)
    BY <1>1, ConfigsTyped DEF Start, prepare_databases, ConfigType
  <2>2. new \subseteq Ip /\ adm \subseteq Ip /\ \A i \in adm : auth[i] = "static"
    BY DEF StaticRows, TypeOK
  <2>3. 0 \in (-IntMax - 1)..IntMax /\ NoMac \in Owner /\ "-" \in AuthInfo
    BY TimesTyped DEF AuthInfo
  <2> QED
    BY <1>1, <2>1, <2>2, <2>3 DEF Start, prepare_databases, populate, TypeOK
<1>2. ASSUME Die \/ Reboot PROVE TypeOK'
  BY <1>2 DEF Die, Reboot, TypeOK
<1>3. ASSUME Tick PROVE TypeOK'
  BY <1>3, TimesTyped DEF Tick, TypeOK
<1>4. ASSUME NEW m \in Editable, NEW e \in StaticEntries \cup {NoEntry}, EditStatic(m, e)
      PROVE  TypeOK'
  BY <1>4, AdministratorTyped DEF EditStatic, TypeOK
<1>5. ASSUME NEW i \in Ip, Exclude(i) \/ Authorise(i)
      PROVE  TypeOK'
  BY <1>5 DEF Exclude, Authorise, TypeOK, AuthInfo
<1> QED
  BY <1>1, <1>2, <1>3, <1>4, <1>5 DEF Surroundings

\* The initial states are typed.
LEMMA AllocInitTyped ==
  ASSUME AllocInit
  PROVE  TypeOK
<1> DEFINE P == Mac \X (Ip \cup {NoIp})
<1>1. [p \in P |-> "none"] \in [P -> {"none", "start", "end"}]
  <2> HIDE DEF P
  <2> QED OBVIOUS
<1>2. acct \in [P -> {"none", "start", "end"}]
  BY <1>1 DEF AllocInit
<1>3. mac \in [Ip -> Owner] /\ auth \in [Ip -> AuthInfo]
  BY DEF AllocInit, AuthInfo
<1>4. expire \in [Ip -> (-IntMax - 1)..IntMax] /\ now \in 0..Horizon
  BY TimesTyped DEF AllocInit
<1>5. static_db \in [Mac -> StaticEntries \cup {NoEntry}]
  BY DEF AllocInit
<1> QED
  BY <1>2, <1>3, <1>4, <1>5 DEF AllocInit, TypeOK

\* The state keeps its type: an expiry time stays a C int whatever the clock and
\* the lease time, and INADDR_NONE never gets a row or a place in the pf table.
THEOREM TypeCorrect == AllocSpec => []TypeOK
<1>1. AllocInit => TypeOK
  BY AllocInitTyped
<1>2. TypeOK /\ [AllocNext]_alloc_vars => TypeOK'
  <2>1. TypeOK /\ AllocNext => TypeOK'
    BY RequestTyped, SurroundingsTyped DEF AllocNext
  <2>2. TypeOK /\ UNCHANGED alloc_vars => TypeOK'
    BY DEF TypeOK, alloc_vars
  <2> QED
    BY <2>1, <2>2
<1> QED
  BY <1>1, <1>2, PTL DEF AllocSpec

----------------------------------------------------------------------------
(* Who may take a row.                                                      *)

\* The change of owner that LeaseNotStolen allows for row j.
FairlyTaken(j) ==
    mac'[j] # mac[j] =>
       \/ expire[j] < now /\ auth[j] # "excluded"
       \/ mac'[j] = BadMac /\ auth'[j] = "invalidated"
       \/ mac'[j] \in Mac /\ StaticFor(mac'[j], j)

\* A write for a client that may have the row takes no row unfairly.
LEMMA WriteFair ==
  ASSUME TypeOK, NEW m \in Mac, NEW i \in Ip, MayHave(m, i), NEW a, Writes(m, i, a),
         NEW j \in rows
  PROVE  FairlyTaken(j)
BY DEF TypeOK, MayHave, Reusable, Writes, do_update_lease, do_create_lease, FairlyTaken

\* Across calls, edits, deaths, reboots and restarts, a row that is excluded or
\* whose lease is running changes hands only by a decline or by a static
\* assignment to its new owner.
THEOREM LeaseSafe == AllocSpec => LeaseNotStolen
<1>1. ASSUME TypeOK, AllocNext
      PROVE  \A j \in rows : FairlyTaken(j)
  <2> TAKE j \in rows
  <2>1. ASSUME NEW m \in Mac, NEW i \in Ip \cup {NoIp}, Request(m, i)
        PROVE  FairlyTaken(j)
    <3>1. ASSUME UNCHANGED lease_db PROVE FairlyTaken(j)
      BY <3>1 DEF lease_db, FairlyTaken
    <3>2. ASSUME NEW cut \in Cuts, ip_alloc(m, i, cut) PROVE FairlyTaken(j)
      BY <1>1, <3>1, <3>2, AllocEffect, WriteFair
    <3>3. ASSUME NEW ok \in BOOLEAN, ip_check(m, i, ok) PROVE FairlyTaken(j)
      BY <1>1, <3>1, <3>3, CheckEffect, WriteFair
    <3>4. ASSUME ip_free(m, i) PROVE FairlyTaken(j)
      BY <3>1, <3>4 DEF ip_free, lease_db
    <3>5. ASSUME ip_invalidate(i) PROVE FairlyTaken(j)
      <4>1. CASE Writes(BadMac, i, "invalidated") /\ i \in rows
        BY <1>1, <4>1 DEF TypeOK, Writes, do_update_lease, Keep, FairlyTaken
      <4> QED
        BY <3>1, <3>5, <4>1, InvalidateEffect
    <3> QED
      BY <2>1, <3>2, <3>3, <3>4, <3>5 DEF Request
  <2>2. ASSUME Surroundings PROVE FairlyTaken(j)
    <3>1. CASE Start
      BY <1>1, <3>1 DEF Start, prepare_databases, populate, TypeOK, FairlyTaken
    <3>2. CASE UNCHANGED mac
      BY <3>2 DEF FairlyTaken
    <3> QED
      BY <2>2, <3>1, <3>2
      DEF Surroundings, Die, Reboot, Tick, EditStatic, Exclude, Authorise
  <2> QED
    BY <1>1, <2>1, <2>2 DEF AllocNext
<1>2. TypeOK /\ [AllocNext]_alloc_vars => [\A j \in rows : FairlyTaken(j)]_alloc_vars
  BY <1>1
<1>3. [\A j \in rows : FairlyTaken(j)]_alloc_vars =>
        [\A i \in rows :
          mac'[i] # mac[i] =>
             \/ expire[i] < now /\ auth[i] # "excluded"
             \/ mac'[i] = BadMac /\ auth'[i] = "invalidated"
             \/ mac'[i] \in Mac /\ StaticFor(mac'[i], i)]_alloc_vars
  BY DEF FairlyTaken
<1> QED
  BY <1>2, <1>3, TypeCorrect, PTL DEF AllocSpec, LeaseNotStolen

\* Leases survive restarts: no step taken while the daemon is down, a start with
\* any configuration included, loses a row, its owner or its term.
THEOREM RestartSafe == AllocSpec => LeasesSurviveRestart
<1> DEFINE Kept == /\ rows \subseteq rows'
                   /\ \A i \in rows : mac'[i] = mac[i] /\ expire'[i] = expire[i]
<1>1. ASSUME TypeOK, AllocNext, ~up
      PROVE  Kept
  <2>1. CASE Start
    BY <1>1, <2>1 DEF Start, prepare_databases, populate, TypeOK
  <2>2. CASE UNCHANGED <<rows, mac, expire>>
    BY <2>2
  <2> QED
    BY <1>1, <2>1, <2>2
    DEF AllocNext, Request, Surroundings, Die, Reboot, Tick, EditStatic, Exclude, Authorise
<1>2. TypeOK /\ [AllocNext]_alloc_vars => [~up => Kept]_alloc_vars
  BY <1>1
<1> QED
  BY <1>2, TypeCorrect, PTL DEF AllocSpec, LeasesSurviveRestart

----------------------------------------------------------------------------
(* One lease per client.                                                    *)

\* Where there is no static assignment every lookup answers "none".
LEMMA NoStatic ==
  ASSUME TypeOK, StaticEntries = {}, NEW m \in Mac
  PROVE  get_static_ip(m) = {NoEntry}
<1>1. cfg.hosts[m] = NoEntry
  BY ConfigsTyped DEF TypeOK, ConfigType
<1>2. static_db[m] = NoEntry
  BY DEF TypeOK
<1> QED
  BY <1>1, <1>2 DEF get_static_ip

\* The allocator gives a client a second row only where a static assignment or
\* a failing SELECT makes it: otherwise the row get_leased_ip finds is the only
\* one it owns and may use.
THEOREM OneLease ==
  ASSUME StaticEntries = {}, SelectMayFail = FALSE
  PROVE  AllocSpec => []OneLeasePerMac
<1>1. AllocInit => OneLeasePerMac
  BY DEF AllocInit, OneLeasePerMac
<1>2. ASSUME TypeOK, OneLeasePerMac, AllocNext
      PROVE  OneLeasePerMac'
  <2>1. ASSUME NEW m \in Mac, NEW i \in Ip \cup {NoIp}, Request(m, i)
        PROVE  OneLeasePerMac'
    <3>1. ASSUME UNCHANGED lease_db PROVE OneLeasePerMac'
      BY <1>2, <3>1 DEF lease_db, OneLeasePerMac
    <3>2. ASSUME NEW cut \in Cuts, AllocLeased(m, i, cut) PROVE OneLeasePerMac'
      <4>1. i \in rows /\ mac[i] = m /\ i \in Ip /\ auth[i] # "excluded"
        BY <1>2, <3>2, QueryTypes DEF AllocLeased, get_leased_ip, Found
      <4>2. CASE record_lease(m, i, "leased")
        BY <1>2, <4>1, <4>2
        DEF record_lease, do_update_lease, Keep, TypeOK, OneLeasePerMac
      <4> QED
        BY <3>1, <3>2, <4>2 DEF AllocLeased, Upto
    <3>3. ASSUME NEW cut \in Cuts, AllocNew(m, i, cut) PROVE OneLeasePerMac'
      <4>1. i \in rows /\ i \in Ip
        BY <1>2, <3>3, QueryTypes DEF AllocNew
      <4>2. \A j \in rows : mac[j] = m => auth[j] = "excluded"
        BY <1>2, <3>3, NoIpIsNoAddress DEF AllocNew, get_leased_ip, Found, TypeOK
      <4>3. CASE record_lease(m, i, "new")
        BY <1>2, <4>1, <4>2, <4>3
        DEF record_lease, do_update_lease, Keep, TypeOK, OneLeasePerMac
      <4> QED
        BY <3>1, <3>3, <4>3 DEF AllocNew, Upto
    <3>4. ASSUME NEW cut \in Cuts, ip_alloc(m, i, cut) PROVE OneLeasePerMac'
      <4>1. ~AllocStatic(m, i, cut)
        BY <1>2, NoStatic DEF AllocStatic
      <4> QED
        BY <3>1, <3>2, <3>3, <3>4, <4>1 DEF ip_alloc, AllocNone, lease_db
    <3>5. ASSUME NEW ok \in BOOLEAN, ip_check(m, i, ok) PROVE OneLeasePerMac'
      <4>1. ~CheckStatic(m, i, ok)
        BY <1>2, NoStatic DEF CheckStatic
      <4>2. CASE CheckLeased(m, i, ok) /\ ~UNCHANGED lease_db
        <5>1. i \in get_leased_ip(m) /\ record_lease(m, i, Keep) /\ i \in rows
          BY <4>2 DEF CheckLeased, record_lease
        <5>2. mac[i] = m /\ i \in Ip
          BY <1>2, <5>1, QueryTypes, NoIpIsNoAddress DEF get_leased_ip, Found
        <5> QED
          BY <1>2, <5>1, <5>2 DEF record_lease, do_update_lease, Keep, TypeOK, OneLeasePerMac
      <4> QED
        BY <3>1, <3>5, <4>1, <4>2 DEF ip_check, CheckRefused
    <3>6. ASSUME ip_free(m, i) PROVE OneLeasePerMac'
      BY <3>1, <3>6 DEF ip_free, lease_db
    <3>7. ASSUME ip_invalidate(i) PROVE OneLeasePerMac'
      <4>1. CASE i \in rows /\ Writes(BadMac, i, "invalidated")
        BY <1>2, <4>1
        DEF Writes, do_update_lease, Keep, TypeOK, OneLeasePerMac
      <4> QED
        BY <3>1, <3>7, <4>1, InvalidateEffect
    <3> QED
      BY <2>1, <3>4, <3>5, <3>6, <3>7 DEF Request
  <2>2. ASSUME Surroundings PROVE OneLeasePerMac'
    <3>1. CASE Start
      <4>1. PICK new \in SUBSET Ip : populate(new)
        BY <3>1, ConfigsTyped DEF Start, prepare_databases, ConfigType
      <4> QED
        BY <1>2, <4>1, OwnersDiffer DEF populate, TypeOK, OneLeasePerMac
    <3>2. CASE UNCHANGED lease_db
      BY <1>2, <3>2 DEF lease_db, OneLeasePerMac
    <3>3. ASSUME NEW i \in Ip, Exclude(i) \/ Authorise(i) PROVE OneLeasePerMac'
      BY <1>2, <3>3 DEF Exclude, Authorise, TypeOK, OneLeasePerMac
    <3> QED
      BY <2>2, <3>1, <3>2, <3>3 DEF Surroundings, Die, Reboot, Tick, EditStatic, lease_db
  <2> QED
    BY <1>2, <2>1, <2>2 DEF AllocNext
<1>3. OneLeasePerMac /\ UNCHANGED alloc_vars => OneLeasePerMac'
  BY DEF OneLeasePerMac, alloc_vars
<1>4. TypeOK /\ OneLeasePerMac /\ [AllocNext]_alloc_vars => OneLeasePerMac'
  BY <1>2, <1>3
<1> QED
  BY <1>1, <1>4, TypeCorrect, PTL DEF AllocSpec

----------------------------------------------------------------------------
(* The firewall and the accounting server.                                  *)

\* Without pf nothing is ever admitted, which makes NewNotAdmitted inductive
\* for both settings of PfEnabled.
PfInv == NewNotAdmitted /\ (PfEnabled \/ pf = {})

\* An address given to a new client is never still admitted, as long as no call
\* is cut short: pf_del follows record_lease on the only path that writes "new".
THEOREM NewIsNotAdmitted ==
  ASSUME MidOpCrash = FALSE
  PROVE  AllocSpec => []NewNotAdmitted
<1>1. AllocInit => PfInv
  BY DEF AllocInit, PfInv, NewNotAdmitted
<1>2. ASSUME TypeOK, PfInv, AllocNext
      PROVE  PfInv'
  <2>1. ASSUME NEW m \in Mac, NEW i \in Ip \cup {NoIp}, Request(m, i)
        PROVE  PfInv'
    <3>1. ASSUME UNCHANGED lease_db, UNCHANGED pf PROVE PfInv'
      BY <1>2, <3>1 DEF lease_db, PfInv, NewNotAdmitted
    <3>2. ASSUME NEW a \in AuthInfo \cup {Keep}, a # "new", i \in Ip,
                 NEW n, Writes(n, i, a), UNCHANGED pf
          PROVE  PfInv'
      BY <1>2, <3>2
      DEF Writes, do_update_lease, do_create_lease, TypeOK, PfInv, NewNotAdmitted
    <3>3. ASSUME ip_alloc(m, i, Done) PROVE PfInv'
      <4>1. CASE AllocStatic(m, i, Done)
        <5>1. PICK e \in get_static_ip(m) \ {NoEntry} :
                 /\ i = e.ip
                 /\ record_static_lease(m, i, IF e.inet THEN "static" ELSE "internal")
                 /\ pf_add(i) \/ UNCHANGED pf
          BY <4>1 DEF AllocStatic, Upto, Done
        <5>2. i \in Ip
          BY <1>2, <5>1, QueryTypes
        <5>3. PICK a \in {"static", "internal"} : Writes(m, i, a)
          BY <5>1 DEF record_static_lease, Writes, Keep
        <5> QED
          BY <1>2, <5>1, <5>2, <5>3
          DEF Writes, do_update_lease, do_create_lease, pf_add, Keep, TypeOK, PfInv,
              NewNotAdmitted
      <4>2. CASE AllocLeased(m, i, Done)
        <5>1. i \in Ip /\ i \in rows
          BY <1>2, <4>2, QueryTypes DEF AllocLeased
        <5> QED
          BY <4>2, <5>1, <3>2 DEF AllocLeased, Upto, Done, record_lease, Writes, AuthInfo
      <4>3. CASE AllocNew(m, i, Done)
        <5>1. i \in Ip /\ i \in rows
          BY <1>2, <4>3, QueryTypes DEF AllocNew
        <5>2. record_lease(m, i, "new") /\ pf_del(i)
          BY <4>3 DEF AllocNew, Upto, Done
        <5> QED
          BY <1>2, <5>1, <5>2
          DEF record_lease, do_update_lease, pf_del, Keep, TypeOK, PfInv, NewNotAdmitted
      <4>4. CASE AllocNone(m, i)
        BY <3>1, <4>4 DEF AllocNone, lease_db
      <4> QED
        BY <3>3, <4>1, <4>2, <4>3, <4>4 DEF ip_alloc
    <3>4. ASSUME NEW ok \in BOOLEAN, ip_check(m, i, ok) PROVE PfInv'
      <4>1. UNCHANGED pf
        BY <3>4 DEF ip_check
      <4>2. CASE CheckStatic(m, i, ok) /\ ~UNCHANGED lease_db
        <5>1. i \in Ip /\ record_static_lease(m, i, "static")
          BY <1>2, <4>2, QueryTypes DEF CheckStatic
        <5> QED
          BY <4>1, <5>1, <3>2 DEF record_static_lease, Writes, AuthInfo, Keep
      <4>3. CASE CheckLeased(m, i, ok) /\ ~UNCHANGED lease_db
        <5>1. i \in Ip /\ i \in rows /\ record_lease(m, i, Keep)
          BY <1>2, <4>3, QueryTypes DEF CheckLeased, record_lease
        <5> QED
          BY <4>1, <5>1, <3>2 DEF record_lease, Writes, Keep
      <4> QED
        BY <3>1, <3>4, <4>1, <4>2, <4>3 DEF ip_check, CheckRefused
    <3>5. ASSUME ip_free(m, i) PROVE PfInv'
      BY <3>1, <3>5 DEF ip_free, lease_db
    <3>6. ASSUME ip_invalidate(i) PROVE PfInv'
      <4>1. CASE i \in rows /\ Writes(BadMac, i, "invalidated")
        BY <1>2, <3>6, <4>1, <3>2 DEF ip_invalidate, TypeOK, AuthInfo
      <4> QED
        BY <3>1, <3>6, <4>1, InvalidateEffect DEF ip_invalidate
    <3> QED
      BY <2>1, <3>3, <3>4, <3>5, <3>6 DEF Request, Cuts
  <2>2. ASSUME Surroundings PROVE PfInv'
    <3>1. CASE Start
      <4>1. PICK new \in SUBSET Ip, adm \in SUBSET StaticRows :
              populate(new) /\ pf' = (IF PfEnabled THEN pf \cup adm ELSE pf)
        BY <3>1, ConfigsTyped DEF Start, prepare_databases, ConfigType
      <4>2. new \subseteq Ip /\ adm \subseteq Ip /\ \A i \in adm : auth[i] = "static"
        BY <1>2 DEF StaticRows, TypeOK
      <4> QED
        BY <1>2, <4>1, <4>2 DEF populate, TypeOK, PfInv, NewNotAdmitted
    <3>2. CASE UNCHANGED lease_db /\ (UNCHANGED pf \/ pf' = {})
      BY <1>2, <3>2 DEF lease_db, PfInv, NewNotAdmitted
    <3>3. ASSUME NEW i \in Ip, Exclude(i) \/ Authorise(i) PROVE PfInv'
      BY <1>2, <3>3 DEF Exclude, Authorise, TypeOK, PfInv, NewNotAdmitted
    <3> QED
      BY <2>2, <3>1, <3>2, <3>3 DEF Surroundings, Die, Reboot, Tick, EditStatic, lease_db
  <2> QED
    BY <1>2, <2>1, <2>2 DEF AllocNext
<1>3. PfInv /\ UNCHANGED alloc_vars => PfInv'
  BY DEF PfInv, NewNotAdmitted, alloc_vars
<1>4. TypeOK /\ PfInv /\ [AllocNext]_alloc_vars => PfInv'
  BY <1>2, <1>3
<1>5. PfInv => NewNotAdmitted
  BY DEF PfInv
<1> QED
  BY <1>1, <1>4, <1>5, TypeCorrect, PTL DEF AllocSpec

\* A client that owns a row was announced to the accounting server: where there are
\* no static assignments (REQUEST announces none) and no call is cut short, a row
\* gets a new owner only in AllocNew, which sends the START, and no message takes
\* an announcement back.
THEOREM Announced ==
  ASSUME StaticEntries = {}, RadEnabled = TRUE, MidOpCrash = FALSE
  PROVE  AllocSpec => []HolderAnnounced
<1>1. AllocInit => HolderAnnounced
  BY DEF AllocInit, HolderAnnounced
<1>2. ASSUME TypeOK, HolderAnnounced, AllocNext
      PROVE  HolderAnnounced'
  <2>1. ASSUME UNCHANGED <<rows, mac, acct>> PROVE HolderAnnounced'
    BY <1>2, <2>1 DEF HolderAnnounced
  <2>2. ASSUME NEW m \in Mac, NEW i \in Ip \cup {NoIp}, Request(m, i)
        PROVE  HolderAnnounced'
    <3>1. ASSUME i \in rows, mac[i] = m, NEW a, record_lease(m, i, a), UNCHANGED acct
          PROVE  HolderAnnounced'
      <4>1. rows' = rows /\ mac' = mac
        BY <1>2, <3>1 DEF record_lease, do_update_lease, TypeOK
      <4> QED
        BY <2>1, <3>1, <4>1
    <3>2. ASSUME ip_alloc(m, i, Done) PROVE HolderAnnounced'
      <4>1. ~AllocStatic(m, i, Done)
        BY <1>2, NoStatic DEF AllocStatic
      <4>2. CASE AllocLeased(m, i, Done)
        <5>1. i \in rows /\ mac[i] = m
          BY <1>2, <4>2, QueryTypes DEF AllocLeased, get_leased_ip, Found
        <5> QED
          BY <3>1, <4>2, <5>1 DEF AllocLeased, Upto, Done
      <4>3. CASE AllocNew(m, i, Done)
        <5>1. i \in rows /\ i \in Ip
          BY <1>2, <4>3, QueryTypes DEF AllocNew
        <5>2. record_lease(m, i, "new") /\ send_acct_message(m, i, "start")
          BY <4>3 DEF AllocNew, Upto, Done
        <5>3. rows' = rows /\ mac' = [mac EXCEPT ![i] = m]
              /\ acct' = [acct EXCEPT ![<<m, i>>] = "start"]
          BY <5>1, <5>2 DEF record_lease, do_update_lease, send_acct_message
        <5>4. \A j \in rows : j \in Ip
          BY <1>2 DEF TypeOK
        <5> QED
          BY <1>2, <5>1, <5>3, <5>4 DEF TypeOK, HolderAnnounced
      <4>4. CASE AllocNone(m, i)
        BY <2>1, <4>4 DEF AllocNone
      <4> QED
        BY <3>2, <4>1, <4>2, <4>3, <4>4 DEF ip_alloc
    <3>3. ASSUME NEW ok \in BOOLEAN, ip_check(m, i, ok) PROVE HolderAnnounced'
      <4>1. ~CheckStatic(m, i, ok)
        BY <1>2, NoStatic DEF CheckStatic
      <4>2. CASE CheckLeased(m, i, ok) /\ ~UNCHANGED lease_db
        <5>1. i \in get_leased_ip(m) /\ record_lease(m, i, Keep) /\ i \in rows
          BY <4>2 DEF CheckLeased, record_lease
        <5>2. mac[i] = m
          BY <1>2, <5>1, NoIpIsNoAddress DEF get_leased_ip, Found, TypeOK
        <5> QED
          BY <3>1, <3>3, <5>1, <5>2 DEF ip_check
      <4> QED
        BY <2>1, <3>3, <4>1, <4>2 DEF ip_check, CheckRefused, lease_db
    <3>4. ASSUME ip_free(m, i) PROVE HolderAnnounced'
      <4>1. rows' = rows /\ mac' = mac /\ acct' = [acct EXCEPT ![<<m, i>>] = "end"]
        BY <3>4 DEF ip_free, send_acct_message
      <4>2. \A j \in rows : j \in Ip
        BY <1>2 DEF TypeOK
      <4> QED
        BY <1>2, <4>1, <4>2 DEF TypeOK, HolderAnnounced
    <3>5. ASSUME ip_invalidate(i) PROVE HolderAnnounced'
      <4>1. CASE i \in rows /\ Writes(BadMac, i, "invalidated")
        BY <1>2, <3>5, <4>1, OwnersDiffer
        DEF ip_invalidate, Writes, do_update_lease, TypeOK, HolderAnnounced
      <4> QED
        BY <2>1, <3>5, <4>1, InvalidateEffect DEF ip_invalidate, lease_db
    <3> QED
      BY <2>2, <3>2, <3>3, <3>4, <3>5 DEF Request, Cuts
  <2>3. ASSUME Surroundings PROVE HolderAnnounced'
    <3>1. CASE Start
      <4>1. PICK new \in SUBSET Ip : populate(new)
        BY <3>1, ConfigsTyped DEF Start, prepare_databases, ConfigType
      <4>2. acct' = acct
        BY <3>1 DEF Start, prepare_databases
      <4> QED
        BY <1>2, <4>1, <4>2, OwnersDiffer DEF populate, TypeOK, HolderAnnounced
    <3>2. CASE UNCHANGED <<rows, mac, acct>>
      BY <2>1, <3>2
    <3> QED
      BY <2>3, <3>1, <3>2 DEF Surroundings, Die, Reboot, Tick, EditStatic, Exclude, Authorise
  <2> QED
    BY <1>2, <2>2, <2>3 DEF AllocNext
<1>3. HolderAnnounced /\ UNCHANGED alloc_vars => HolderAnnounced'
  BY DEF HolderAnnounced, alloc_vars
<1>4. TypeOK /\ HolderAnnounced /\ [AllocNext]_alloc_vars => HolderAnnounced'
  BY <1>2, <1>3
<1> QED
  BY <1>1, <1>4, TypeCorrect, PTL DEF AllocSpec

----------------------------------------------------------------------------
(* The server's steps, as steps of the allocator.                           *)

\* Handling a packet is a call of the allocator or leaves it alone.
LEMMA ServerCallsAllocator ==
  ASSUME NEW p \in Packet, main_loop(p)
  PROVE  AllocNext \/ UNCHANGED alloc_vars
<1>1. p.mac \in Mac /\ p.ciaddr \in Ip \cup {NoIp} /\ p.req \in Ip \cup {NoIp}
  BY DEF Packet, AnyIp
<1>2. get_requested_address(p) \in Ip \cup {NoIp}
  BY <1>1 DEF get_requested_address
<1>3. CASE Discover(p)
  <2>1. PICK i \in Ip \cup {NoIp}, cut \in Cuts :
           ip_alloc(p.mac, i, cut) /\ up' = (cut = Done /\ reply' # Fatal)
    BY <1>3 DEF Discover, AnyIp
  <2>2. up' \in {cut = Done, FALSE}
    BY <2>1
  <2> QED
    BY <1>1, <2>1, <2>2 DEF main_loop, AllocNext, Request
<1>4. CASE Release(p)
  BY <1>1, <1>4 DEF main_loop, Release, AllocNext, Request
<1>5. CASE Inform(p) \/ Ignore(p)
  BY <1>5 DEF Inform, Ignore
<1>6. CASE RequestAddress(p)
  BY <1>1, <1>2, <1>6 DEF main_loop, RequestAddress, AllocNext, Request
<1>7. CASE Decline(p)
  BY <1>1, <1>7 DEF main_loop, Decline, AllocNext, Request
<1> QED
  BY <1>3, <1>4, <1>5, <1>6, <1>7 DEF main_loop

\* Every step of the server is a step of the allocator or leaves it alone.
LEMMA ServerStepsAllocator ==
  [ServerNext]_server_vars => [AllocNext]_alloc_vars
<1>1. ASSUME NEW p \in Packet, main_loop(p) PROVE [AllocNext]_alloc_vars
  BY <1>1, ServerCallsAllocator
<1>2. Surroundings => AllocNext
  BY DEF AllocNext
<1>3. UNCHANGED server_vars => UNCHANGED alloc_vars
  BY DEF server_vars
<1> QED
  BY <1>1, <1>2, <1>3 DEF ServerNext

\* The server is a user of the allocator: whatever packets arrive, it makes only
\* calls the allocator is specified for, so that every theorem about AllocSpec is
\* one about the server.
THEOREM ServerUsesAllocator == ServerSpec => AllocSpec
<1>1. ServerInit => AllocInit
  BY DEF ServerInit
<1> QED
  BY <1>1, ServerStepsAllocator, PTL DEF ServerSpec, AllocSpec

\* So the state stays typed.
LEMMA ServerTyped == ServerSpec => []TypeOK
BY ServerUsesAllocator, TypeCorrect, PTL

----------------------------------------------------------------------------
(* The answers.                                                             *)

\* What the create_dhcp_ functions answer.
LEMMA AnswerFields ==
  ASSUME NEW p, NEW t, NEW i, NEW dest
  PROVE  /\ Answer(p, t, i, dest).type = t /\ Answer(p, t, i, dest).mac = p.mac
         /\ Answer(p, t, i, dest).xid = p.xid /\ Answer(p, t, i, dest).yiaddr = i
BY DEF Answer

\* An OFFER comes from DISCOVER, with the address ip_alloc returned.
LEMMA OfferComesFrom ==
  ASSUME NEW p \in Packet, main_loop(p), reply' \in Response, reply'.type = "OFFER"
  PROVE  \E i \in Ip : /\ ip_alloc(p.mac, i, Done) /\ i \in cfg.net
                       /\ reply'.mac = p.mac /\ reply'.yiaddr = i
<1>1. reply' # NoReply /\ reply' # Fatal
  BY RepliesDiffer
<1>2. ~Inform(p)
  BY <1>1, AnswerFields DEF Inform, create_dhcp_ack2
<1>3. ~RequestAddress(p)
  BY <1>1, AnswerFields DEF RequestAddress, create_dhcp_ack, create_dhcp_nak
<1>4. Discover(p)
  BY <1>1, <1>2, <1>3 DEF main_loop, Release, Decline, Ignore
<1>5. PICK i \in AnyIp, cut \in Cuts :
         /\ ip_alloc(p.mac, i, cut)
         /\ reply' = IF cut # Done THEN NoReply
                     ELSE IF i = NoIp THEN create_dhcp_nak(p)
                     ELSE create_dhcp_offer(p, i)
  BY <1>4 DEF Discover
<1>6. create_dhcp_nak(p).type = "NAK"
  BY AnswerFields DEF create_dhcp_nak
<1>7. cut = Done /\ i # NoIp /\ reply' = create_dhcp_offer(p, i)
  BY <1>1, <1>5, <1>6
<1>8. i \in cfg.net /\ reply' = Answer(p, "OFFER", i, NoIp)
  BY <1>1, <1>7 DEF create_dhcp_offer
<1> QED
  BY <1>5, <1>7, <1>8, AnswerFields DEF AnyIp

\* An ACK comes from REQUEST, with the address that was checked.
LEMMA AckComesFrom ==
  ASSUME NEW p \in Packet, main_loop(p), reply' \in Response, reply'.type = "ACK"
  PROVE  /\ p.type = "REQUEST" /\ reply'.mac = p.mac /\ reply'.xid = p.xid
         /\ \E i : ip_check(p.mac, i, TRUE) /\ reply'.yiaddr = i /\ i \in cfg.net
<1> DEFINE i == get_requested_address(p)
<1>1. reply' # NoReply /\ reply' # Fatal
  BY RepliesDiffer
<1>2. ~Discover(p)
  BY <1>1, AnswerFields DEF Discover, create_dhcp_nak, create_dhcp_offer
<1>3. ~Inform(p)
  BY <1>1, AnswerFields DEF Inform, create_dhcp_ack2
<1>4. RequestAddress(p)
  BY <1>1, <1>2, <1>3 DEF main_loop, Release, Decline, Ignore
<1>5. PICK ok \in BOOLEAN :
         /\ ip_check(p.mac, i, ok)
         /\ reply' = IF ok THEN create_dhcp_ack(p, i) ELSE create_dhcp_nak(p)
  BY <1>4 DEF RequestAddress
<1>6. create_dhcp_nak(p).type = "NAK"
  BY AnswerFields DEF create_dhcp_nak
<1>7. ok = TRUE /\ i \in cfg.net /\ reply' = Answer(p, "ACK", i, NoIp)
  BY <1>1, <1>5, <1>6 DEF create_dhcp_ack
<1>8. p.type = "REQUEST"
  BY <1>4 DEF RequestAddress
<1>9. reply'.mac = p.mac /\ reply'.xid = p.xid /\ reply'.yiaddr = i
  BY <1>7, AnswerFields
<1>10. ip_check(p.mac, i, TRUE) /\ i \in cfg.net
  BY <1>5, <1>7
<1> HIDE DEF i
<1> QED
  BY <1>8, <1>9, <1>10

----------------------------------------------------------------------------
(* What is promised is on disk.                                             *)

\* Row i says what a packet that grants it now may say.
Granted(m, i) == i \in rows /\ mac[i] = m /\ expire[i] >= now + LeaseTime

\* Where nothing overflows, what is stored is the end of a lease granted now.
LEMMA LeaseEndExact ==
  ASSUME now \in 0..Horizon, Horizon + LeaseTime <= IntMax
  PROVE  lease_end = now + LeaseTime
BY TimesTyped DEF lease_end, ToInt

\* Writing a row grants it.
LEMMA WriteGrants ==
  ASSUME TypeOK, Horizon + LeaseTime <= IntMax, NEW m \in Mac, NEW i \in Ip, NEW a,
         Writes(m, i, a), UNCHANGED now
  PROVE  Granted(m, i)'
<1>1. lease_end = now + LeaseTime
  BY LeaseEndExact DEF TypeOK
<1>2. now + LeaseTime \in Int
  BY TimesTyped DEF TypeOK
<1>3. i \in rows' /\ mac' = [mac EXCEPT ![i] = m] /\ expire' = [expire EXCEPT ![i] = lease_end]
  BY DEF Writes, do_update_lease, do_create_lease
<1>4. mac'[i] = m /\ expire'[i] = now + LeaseTime
  BY <1>1, <1>3 DEF TypeOK
<1> QED
  BY <1>2, <1>3, <1>4 DEF Granted

\* A call of ip_alloc that returned an address wrote its row.
LEMMA AllocRecords ==
  ASSUME TypeOK, NEW m \in Mac, NEW i \in Ip, ip_alloc(m, i, Done)
  PROVE  /\ UNCHANGED <<now, cfg>>
         /\ \E a \in AuthInfo : Writes(m, i, a)
<1>1. CASE AllocStatic(m, i, Done)
  <2>1. PICK a \in {"static", "internal"} : record_static_lease(m, i, a)
    BY <1>1 DEF AllocStatic, Upto, Done
  <2> QED
    BY <2>1 DEF ip_alloc, outside, record_static_lease, Writes, AuthInfo, Keep
<1>2. CASE AllocLeased(m, i, Done)
  <2>1. i \in rows /\ record_lease(m, i, "leased")
    BY <1>2, QueryTypes DEF AllocLeased, Upto, Done
  <2> QED
    BY <2>1 DEF ip_alloc, outside, record_lease, Writes, AuthInfo
<1>3. CASE AllocNew(m, i, Done)
  <2>1. i \in rows /\ record_lease(m, i, "new")
    BY <1>3, QueryTypes DEF AllocNew, Upto, Done
  <2> QED
    BY <2>1 DEF ip_alloc, outside, record_lease, Writes, AuthInfo
<1>4. ~AllocNone(m, i)
  BY NoIpIsNoAddress DEF AllocNone
<1> QED
  BY <1>1, <1>2, <1>3, <1>4 DEF ip_alloc

\* A call of ip_check that said yes wrote the row.
LEMMA CheckRecords ==
  ASSUME TypeOK, NEW m \in Mac, NEW i \in Ip, ip_check(m, i, TRUE)
  PROVE  /\ UNCHANGED <<now, cfg>>
         /\ \E a \in AuthInfo \cup {Keep} : Writes(m, i, a)
<1>1. CASE CheckStatic(m, i, TRUE)
  <2>1. record_static_lease(m, i, "static")
    BY <1>1 DEF CheckStatic
  <2> QED
    BY <2>1 DEF ip_check, record_static_lease, Writes, AuthInfo, Keep
<1>2. CASE CheckLeased(m, i, TRUE)
  <2>1. i \in get_leased_ip(m) /\ record_lease(m, i, Keep)
    BY <1>2 DEF CheckLeased
  <2>2. i \in rows
    BY <2>1, QueryTypes, NoIpIsNoAddress
  <2> QED
    BY <2>1, <2>2 DEF ip_check, record_lease, Writes
<1>3. ~CheckRefused(m, i, TRUE)
  BY DEF CheckRefused
<1> QED
  BY <1>1, <1>2, <1>3 DEF ip_check

\* Whatever the server offers or acknowledges is in its table before the packet is
\* sent, for as long as the packet says: with static assignments, SELECTs that fail,
\* calls cut short and any sequence of packets, as long as the clock stays a lease
\* time away from INT_MAX.
THEOREM RepliesBacked ==
  ASSUME Horizon + LeaseTime <= IntMax
  PROVE  ServerSpec => []ReplyBacked
<1>1. ServerInit => ReplyBacked
  BY RepliesDiffer DEF ServerInit, ReplyBacked
<1>2. ASSUME TypeOK, NEW p \in Packet, main_loop(p)
      PROVE  ReplyBacked'
  <2>1. SUFFICES ASSUME reply' \in Response, reply'.type \in {"OFFER", "ACK"}
                 PROVE  /\ reply'.yiaddr \in rows' \cap cfg'.net
                        /\ mac'[reply'.yiaddr] = reply'.mac
                        /\ expire'[reply'.yiaddr] >= now' + LeaseTime
    BY DEF ReplyBacked
  <2>2. p.mac \in Mac
    BY DEF Packet
  <2>3. cfg.net \subseteq Ip
    BY <1>2, ConfigsTyped DEF TypeOK, ConfigType
  <2>4. \E i, a : /\ i \in Ip /\ Writes(p.mac, i, a) /\ UNCHANGED <<now, cfg>>
                  /\ reply'.mac = p.mac /\ reply'.yiaddr = i /\ i \in cfg.net
    <3>1. CASE reply'.type = "OFFER"
      BY <1>2, <2>1, <2>2, <3>1, OfferComesFrom, AllocRecords
    <3>2. CASE reply'.type = "ACK"
      BY <1>2, <2>1, <2>2, <2>3, <3>2, AckComesFrom, CheckRecords
    <3> QED
      BY <2>1, <3>1, <3>2
  <2>5. PICK i, a : /\ i \in Ip /\ Writes(p.mac, i, a) /\ UNCHANGED <<now, cfg>>
                    /\ reply'.mac = p.mac /\ reply'.yiaddr = i /\ i \in cfg.net
    BY <2>4
  <2>6. Granted(p.mac, i)'
    BY <1>2, <2>2, <2>5, WriteGrants
  <2> QED
    BY <2>5, <2>6 DEF Granted
<1>3. ASSUME reply' = NoReply PROVE ReplyBacked'
  BY <1>3, RepliesDiffer DEF ReplyBacked
<1>4. ReplyBacked /\ UNCHANGED server_vars => ReplyBacked'
  BY DEF ReplyBacked, server_vars, alloc_vars
<1>5. TypeOK /\ ReplyBacked /\ [ServerNext]_server_vars => ReplyBacked'
  BY <1>2, <1>3, <1>4 DEF ServerNext
<1> QED
  BY <1>1, <1>5, ServerTyped, PTL DEF ServerSpec

----------------------------------------------------------------------------
(* What is offered is honoured.                                             *)

\* The address of an offer is a usable row of the client, and in a subnet.
OfferStands ==
    (reply \in Response /\ reply.type = "OFFER") =>
       /\ reply.yiaddr \in rows \cap cfg.net
       /\ mac[reply.yiaddr] = reply.mac
       /\ auth[reply.yiaddr] # "excluded"

\* Without static assignments ip_alloc marks what it hands out as leased or new.
LEMMA AllocMarks ==
  ASSUME TypeOK, StaticEntries = {}, NEW m \in Mac, NEW i \in Ip, ip_alloc(m, i, Done)
  PROVE  /\ i \in rows' /\ mac'[i] = m /\ auth'[i] # "excluded"
         /\ UNCHANGED cfg
<1>1. ~AllocStatic(m, i, Done)
  BY NoStatic DEF AllocStatic
<1>2. ~AllocNone(m, i)
  BY NoIpIsNoAddress DEF AllocNone
<1>3. PICK a \in {"leased", "new"} : i \in rows /\ record_lease(m, i, a)
  BY <1>1, <1>2, QueryTypes DEF ip_alloc, AllocLeased, AllocNew, Upto, Done
<1>4. i \in rows' /\ mac' = [mac EXCEPT ![i] = m] /\ auth' = [auth EXCEPT ![i] = a]
  BY <1>3 DEF record_lease, do_update_lease, Keep
<1> QED
  BY <1>4 DEF TypeOK, ip_alloc, outside

\* A client whose only usable row is i finds i, and is not refused it.  A client
\* with the zero address may have other rows: those invalidated.
LEMMA OwnerAccepted ==
  ASSUME TypeOK, OneLeasePerMac, StaticEntries = {}, SelectMayFail = FALSE,
         cfg.net = cfg.dyn, NEW m \in Mac \ {BadMac}, NEW i \in rows \cap cfg.net,
         mac[i] = m, auth[i] # "excluded"
  PROVE  ~ip_check(m, i, FALSE)
<1>1. get_leased_ip(m) = {i}
  <2> DEFINE own == {j \in rows : mac[j] = m /\ auth[j] # "excluded"}
  <2>1. own = {i}
    BY DEF OneLeasePerMac
  <2> QED
    BY <2>1 DEF get_leased_ip, Found
<1>2. get_static_ip(m) = {NoEntry}
  BY NoStatic
<1>3. ~CheckStatic(m, i, FALSE) /\ ~CheckLeased(m, i, FALSE) /\ ~CheckRefused(m, i, FALSE)
  BY <1>1, <1>2 DEF CheckStatic, CheckLeased, CheckRefused
<1> QED
  BY <1>3 DEF ip_check

\* OfferStands is inductive: an offer ends with the next step, and a new one is
\* made of the row ip_alloc has just written.
LEMMA OffersStand ==
  ASSUME StaticEntries = {}
  PROVE  ServerSpec => []OfferStands
<1>1. ServerInit => OfferStands
  BY RepliesDiffer DEF ServerInit, OfferStands
<1>2. ASSUME TypeOK, NEW p \in Packet, main_loop(p) PROVE OfferStands'
  <2>1. SUFFICES ASSUME reply' \in Response, reply'.type = "OFFER"
                 PROVE  /\ reply'.yiaddr \in rows' \cap cfg'.net
                        /\ mac'[reply'.yiaddr] = reply'.mac
                        /\ auth'[reply'.yiaddr] # "excluded"
    BY DEF OfferStands
  <2>2. PICK i \in Ip : /\ ip_alloc(p.mac, i, Done) /\ i \in cfg.net
                        /\ reply'.mac = p.mac /\ reply'.yiaddr = i
    BY <1>2, <2>1, OfferComesFrom
  <2>3. p.mac \in Mac
    BY DEF Packet
  <2> QED
    BY <1>2, <2>2, <2>3, AllocMarks
<1>3. ASSUME reply' = NoReply PROVE OfferStands'
  BY <1>3, RepliesDiffer DEF OfferStands
<1>4. OfferStands /\ UNCHANGED server_vars => OfferStands'
  BY DEF OfferStands, server_vars, alloc_vars
<1>5. TypeOK /\ OfferStands /\ [ServerNext]_server_vars => OfferStands'
  BY <1>2, <1>3, <1>4 DEF ServerNext
<1> QED
  BY <1>1, <1>5, ServerTyped, PTL DEF ServerSpec

\* No step refuses to a client, but one with the zero address, the address it was
\* just offered: where there are no static assignments, every subnet has a range and SELECTs succeed, whatever
\* crashes, restarts, exclusions and authorisations went before.
THEOREM OffersHonoured ==
  ASSUME StaticEntries = {}, SelectMayFail = FALSE, \A c \in Configs : c.net = c.dyn
  PROVE  ServerSpec => OfferHonoured
<1>1. ASSUME TypeOK, OneLeasePerMac, OfferStands, reply \in Response, reply.type = "OFFER",
             reply.mac # BadMac
      PROVE  ~ip_check(reply.mac, reply.yiaddr, FALSE)
  <2>1. reply.mac \in Mac
    BY <1>1 DEF Response
  <2>2. cfg.net = cfg.dyn
    BY <1>1 DEF TypeOK
  <2>3. PICK m \in Mac \ {BadMac}, i \in rows \cap cfg.net :
           m = reply.mac /\ i = reply.yiaddr /\ mac[i] = m /\ auth[i] # "excluded"
    BY <1>1, <2>1 DEF OfferStands
  <2>4. ~ip_check(m, i, FALSE)
    BY <1>1, <2>2, <2>3, OwnerAccepted
  <2> QED
    BY <2>3, <2>4 DEF ip_check, CheckStatic, CheckLeased, CheckRefused
<1>2. TypeOK /\ OneLeasePerMac /\ OfferStands /\ [ServerNext]_server_vars
        => [(reply \in Response /\ reply.type = "OFFER" /\ reply.mac # BadMac) =>
               ~ip_check(reply.mac, reply.yiaddr, FALSE)]_server_vars
  BY <1>1
<1>3. ServerSpec => []OneLeasePerMac
  BY ServerUsesAllocator, OneLease, PTL
<1>4. ServerSpec => []OfferStands
  BY OffersStand
<1> QED
  BY <1>2, <1>3, <1>4, ServerTyped, PTL DEF ServerSpec, OfferHonoured

----------------------------------------------------------------------------
(* When the server can take no address out of its table that it cannot offer. *)

\* The addresses every configuration serves.
Served == {i \in Ip : \A c \in Configs : i \in c.net}

\* An address to be handed out is one of the table or of a static assignment.
LEMMA HandedOutServed ==
  ASSUME TypeOK, rows \subseteq Served, \A e \in StaticEntries : e.ip \in Served,
         NEW m \in Mac, NEW i \in Ip, MayHave(m, i)
  PROVE  i \in Served
<1>1. cfg.hosts[m] \in StaticEntries \cup {NoEntry} /\ static_db[m] \in StaticEntries \cup {NoEntry}
  BY ConfigsTyped DEF TypeOK, ConfigType
<1> QED
  BY <1>1, NoEntryIsNoEntry DEF MayHave, StaticFor, Reusable

\* Rows are never deleted, so that a row of an earlier configuration may be handed
\* out under a later one (the run v_stale_rows).  Where every configuration serves
\* the ranges of every other and the static addresses, the table holds only
\* addresses that can be offered, and the daemon never exits because of one.
THEOREM NeverExits ==
  ASSUME \A c, d \in Configs : c.pool \subseteq d.net,
         \A e \in StaticEntries, c \in Configs : e.ip \in c.net
  PROVE  ServerSpec => []NeverFatal
<1>1. \A c \in Configs : c.pool \subseteq Served
  BY ConfigsTyped DEF Served, ConfigType
<1>2. \A e \in StaticEntries : e.ip \in Served
  BY EntriesTyped DEF Served
<1> DEFINE I == rows \subseteq Served /\ NeverFatal
<1>3. ServerInit => I
  BY RepliesDiffer DEF ServerInit, AllocInit, NeverFatal
<1>4. ASSUME TypeOK, I, AllocNext PROVE rows' \subseteq Served
  <2>1. ASSUME NEW m \in Mac, NEW i \in Ip \cup {NoIp}, Request(m, i)
        PROVE  rows' \subseteq Served
    <3>1. \/ UNCHANGED lease_db
          \/ i \in Ip /\ MayHave(m, i) /\ \E a : Writes(m, i, a)
          \/ i \in rows /\ Writes(BadMac, i, "invalidated")
      BY <1>4, <2>1, AllocEffect, CheckEffect, InvalidateEffect DEF Request, ip_free, lease_db
    <3>2. \A n, a : Writes(n, i, a) => rows' = rows \cup {i}
      BY DEF Writes, do_update_lease, do_create_lease
    <3> QED
      BY <1>2, <1>4, <3>1, <3>2, HandedOutServed DEF lease_db
  <2>2. ASSUME Start PROVE rows' \subseteq Served
    BY <1>1, <1>4, <2>2 DEF Start, prepare_databases, populate
  <2> QED
    BY <1>4, <2>1, <2>2
    DEF AllocNext, Surroundings, Die, Reboot, Tick, EditStatic, Exclude, Authorise
<1>5. ASSUME TypeOK, I, [AllocNext]_alloc_vars PROVE rows' \subseteq Served
  BY <1>4, <1>5 DEF alloc_vars
<1>6. ASSUME TypeOK, rows' \subseteq Served, NEW p \in Packet, main_loop(p)
      PROVE  reply' # Fatal
  <2>1. p.mac \in Mac /\ p.xid \in Xid /\ p.ciaddr \in AnyIp /\ get_requested_address(p) \in AnyIp
    BY DEF Packet, get_requested_address
  <2>2. ASSUME NEW t \in {"OFFER", "ACK", "ACK2", "NAK"}, NEW i \in AnyIp, NEW dest \in AnyIp
        PROVE  Answer(p, t, i, dest) # Fatal
    BY <2>1, RepliesDiffer DEF Answer, Response
  <2>3. NoIp \in AnyIp
    BY DEF AnyIp
  <2>4. ASSUME NEW i \in AnyIp PROVE create_dhcp_ack(p, i) # Fatal
    BY <2>2, <2>3, RepliesDiffer DEF create_dhcp_ack
  <2>5. create_dhcp_nak(p) # Fatal
    BY <2>2, <2>3 DEF create_dhcp_nak
  <2>6. ASSUME NEW i \in AnyIp PROVE create_dhcp_ack2(p, i) # Fatal
    BY <2>1, <2>2, <2>3, RepliesDiffer DEF create_dhcp_ack2
  <2>7. ASSUME NEW i \in AnyIp \ {NoIp}, ip_alloc(p.mac, i, Done)
        PROVE  create_dhcp_offer(p, i) # Fatal
    <3>1. i \in Ip
      BY DEF AnyIp
    <3>2. i \in rows'
      BY <1>6, <2>1, <2>7, <3>1, AllocRecords DEF Writes, do_update_lease, do_create_lease
    <3>3. i \in cfg.net
      BY <1>6, <3>2 DEF Served, TypeOK
    <3> QED
      BY <2>2, <2>3, <3>3 DEF create_dhcp_offer
  <2>8. CASE Discover(p)
    <3>1. PICK i \in AnyIp, cut \in Cuts :
             /\ ip_alloc(p.mac, i, cut)
             /\ reply' = IF cut # Done THEN NoReply
                         ELSE IF i = NoIp THEN create_dhcp_nak(p)
                         ELSE create_dhcp_offer(p, i)
      BY <2>8 DEF Discover
    <3> QED
      BY <2>5, <2>7, <3>1, RepliesDiffer
  <2>9. CASE RequestAddress(p)
    BY <2>1, <2>4, <2>5, <2>9 DEF RequestAddress
  <2>10. CASE Inform(p)
    BY <2>1, <2>6, <2>10 DEF Inform
  <2>11. CASE reply' = NoReply
    BY <2>11, RepliesDiffer
  <2> QED
    BY <1>6, <2>8, <2>9, <2>10, <2>11 DEF main_loop, Release, Decline, Ignore
<1>7. ASSUME TypeOK, I, [ServerNext]_server_vars PROVE I'
  <2>1. rows' \subseteq Served
    BY <1>5, <1>7, ServerStepsAllocator
  <2>2. CASE ServerNext
    BY <1>6, <1>7, <2>1, <2>2, RepliesDiffer DEF ServerNext, NeverFatal
  <2>3. CASE UNCHANGED server_vars
    BY <1>7, <2>1, <2>3 DEF server_vars, NeverFatal
  <2> QED
    BY <1>7, <2>1, <2>2, <2>3
<1> QED
  BY <1>3, <1>7, ServerTyped, PTL DEF ServerSpec
=============================================================================
