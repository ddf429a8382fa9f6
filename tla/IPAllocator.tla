---------------------------- MODULE IPAllocator ----------------------------
(***************************************************************************)
(* The address allocator of s3dhcpd (alloc/ipallocator.cxx) over its       *)
(* SQLite lease table (alloc/ipallocator_sql.cxx), with the two outside    *)
(* effects an allocation has: the pf table of admitted addresses and the   *)
(* RADIUS accounting messages.                                             *)
(*                                                                         *)
(* The daemon is one thread, so a call of the allocator is one step; what  *)
(* can happen in the middle of a call is that the process dies (a signal,  *)
(* or an exception thrown by a failed statement, which main() catches only *)
(* to exit).  A call that makes several effects therefore takes a cut: how *)
(* many of them happened.  Around the daemon the administrator edits the   *)
(* static table and excludes addresses, the landing page authorises        *)
(* clients, the host reboots and time passes.                              *)
(*                                                                         *)
(* The column ts of the lease table is written and never read; it is left  *)
(* out.                                                                    *)
(***************************************************************************)
EXTENDS Integers, FiniteSets

CONSTANTS
    Mac,            \* hardware addresses of clients
    BadMac,         \* 00:00:00:00:00:00, the owner of an invalidated address; a
                    \* client may send it as its own address
    NoMac,          \* '', the owner of a freshly populated address
    Ip,             \* addresses
    NoIp,           \* INADDR_NONE and 0.0.0.0: in no subnet and in no row
    StaticEntries,  \* the static assignments an administrator may make
    NoEntry,        \* no static assignment
    Editable,       \* the clients whose static assignment he may edit
    Excludable,     \* the addresses an administrator may exclude
    Configs,        \* the configurations the daemon may be started with
    LeaseTime,      \* global-lease-time
    IntMax,         \* largest value of a C int (2^31-1 in the build)
    Horizon,        \* bound on the clock
    PfEnabled,      \* built and configured with pf
    RadEnabled,     \* built and configured with RADIUS accounting
    SelectMayFail,  \* a SELECT may fail, e.g. with SQLITE_BUSY
    MidOpCrash      \* the process may die between two effects of one call

Owner == Mac \cup {BadMac, NoMac}

\* A configuration: the addresses of its subnets, those of subnets that have a
\* dynamic range, those of the ranges, and the host- lines of the rc file.
ConfigType ==
    [net : SUBSET Ip, dyn : SUBSET Ip, pool : SUBSET Ip,
     hosts : [Mac -> StaticEntries \cup {NoEntry}]]

ASSUME OwnersDiffer == NoMac \notin Mac /\ NoMac # BadMac
ASSUME NoIpIsNoAddress == NoIp \notin Ip
ASSUME EntriesTyped == StaticEntries \subseteq [ip : Ip, inet : BOOLEAN]
ASSUME NoEntryIsNoEntry == NoEntry \notin StaticEntries
ASSUME ConfigsTyped ==
    /\ Configs \subseteq ConfigType
    /\ \A c \in Configs : c.pool \subseteq c.dyn /\ c.dyn \subseteq c.net
ASSUME TimesTyped ==
    /\ LeaseTime \in Nat \ {0} /\ IntMax \in Nat /\ Horizon \in Nat
    /\ LeaseTime <= IntMax /\ Horizon <= IntMax
ASSUME AdministratorTyped == Editable \subseteq Mac /\ Excludable \subseteq Ip
ASSUME SwitchesTyped ==
    {PfEnabled, RadEnabled, SelectMayFail, MidOpCrash} \subseteq BOOLEAN

VARIABLES
    rows,       \* the addresses that have a row in dhcp_leases (ip is unique)
    mac,        \* column mac
    expire,     \* column expire
    auth,       \* column auth_info
    now,        \* get_clock()
    cfg,        \* the configuration the daemon was last started with
    static_db,  \* the administrator's static table
    pf,         \* the pf table of admitted addresses
    acct,       \* the last accounting message sent about a (client, address)
    up          \* the daemon is running

lease_db == <<rows, mac, expire, auth>>
outside == <<now, cfg, static_db>>
alloc_vars == <<rows, mac, expire, auth, now, cfg, static_db, pf, acct, up>>

\* "-" is written by populate, "excluded" by the administrator, "granted" by
\* the landing page, the others by the allocator.
AuthInfo == {"-", "new", "leased", "static", "internal", "invalidated",
             "excluded", "granted"}
Keep == "NULL"      \* auth_info == NULL: the column is not in the UPDATE

\* Mutant: the sum is kept in a wider type.
ToInt_wide(n) == n

\* A C int holds the sum modulo 2^w, read as a signed number.
ToInt(n) == IF n <= IntMax THEN n ELSE n - 2 * (IntMax + 1)

\* The value both do_update_lease and do_create_lease store.
lease_end == ToInt(now + LeaseTime)

----------------------------------------------------------------------------
(* Queries.  Each is the set of answers the code may get: LIMIT 1 takes any *)
(* of the matching rows, and a SELECT that fails reads as "not found".      *)

get_static_ip(m) ==
    IF cfg.hosts[m] # NoEntry THEN {cfg.hosts[m]}
    ELSE {static_db[m]} \cup (IF SelectMayFail THEN {NoEntry} ELSE {})

Found(s) == s \cup (IF s = {} \/ SelectMayFail THEN {NoIp} ELSE {})

\* The row a client owns is found even when its lease is over.
get_leased_ip(m) ==
    Found({i \in rows : mac[i] = m /\ auth[i] # "excluded"})

\* Mutant: the condition on auth_info is missing.
Reusable_excluded == {i \in rows : expire[i] < now}
\* Mutant: the last second of a lease counts as expired.
Reusable_early == {i \in rows : expire[i] <= now /\ auth[i] # "excluded"}

Reusable == {i \in rows : expire[i] < now /\ auth[i] # "excluded"}

get_new_ip ==
    Found({i \in Reusable : \A j \in Reusable : expire[i] <= expire[j]})

----------------------------------------------------------------------------
(* Statements.                                                              *)

\* UPDATE ... WHERE ip = ?
do_update_lease(m, i, a) ==
    /\ mac' = [mac EXCEPT ![i] = m]
    /\ expire' = [expire EXCEPT ![i] = lease_end]
    /\ auth' = IF a = Keep THEN auth ELSE [auth EXCEPT ![i] = a]
    /\ rows' = rows

\* An UPDATE that matches no row is logged and changes nothing.
record_lease(m, i, a) ==
    \/ i \in rows /\ do_update_lease(m, i, a)
    \/ i \notin rows /\ UNCHANGED lease_db

do_create_lease(m, i, a) ==
    /\ rows' = rows \cup {i}
    /\ mac' = [mac EXCEPT ![i] = m]
    /\ expire' = [expire EXCEPT ![i] = lease_end]
    /\ auth' = [auth EXCEPT ![i] = a]

record_static_lease(m, i, a) ==
    \/ i \in rows /\ do_update_lease(m, i, a)
    \/ i \notin rows /\ do_create_lease(m, i, a)

pf_add(i) == pf' = IF PfEnabled THEN pf \cup {i} ELSE pf
pf_del(i) == pf' = IF PfEnabled THEN pf \ {i} ELSE pf

send_acct_message(m, i, status) ==
    acct' = IF RadEnabled THEN [acct EXCEPT ![<<m, i>>] = status] ELSE acct

----------------------------------------------------------------------------
(* Operations.  In ip_alloc the effects come in the order lease table, pf,  *)
(* RADIUS; cut is the number of them that happened before the process died, *)
(* Done when the call returned.                                             *)

Done == 3
Cuts == IF MidOpCrash THEN 0..Done ELSE {Done}

\* IF the process got as far as effect n THEN the effect ELSE nothing.
Upto(n, cut, effect, nothing) == (cut >= n /\ effect) \/ (cut < n /\ nothing)

AllocStatic(m, i, cut) ==
    \E e \in get_static_ip(m) \ {NoEntry} :
        /\ i = e.ip
        /\ Upto(1, cut, record_static_lease(m, i, IF e.inet THEN "static" ELSE "internal"),
                UNCHANGED lease_db)
        /\ Upto(2, cut, IF e.inet THEN pf_add(i) ELSE UNCHANGED pf, UNCHANGED pf)
        /\ Upto(3, cut, send_acct_message(m, i, "start"), UNCHANGED acct)

AllocLeased(m, i, cut) ==
    /\ NoEntry \in get_static_ip(m)
    /\ i \in get_leased_ip(m) \ {NoIp}
    /\ Upto(1, cut, record_lease(m, i, "leased"), UNCHANGED lease_db)
    /\ UNCHANGED <<pf, acct>>

\* Mutant: a new address without a look at the lease the client has.
AllocNew_again(m, i, cut) ==
    /\ NoEntry \in get_static_ip(m)
    /\ i \in get_new_ip \ {NoIp}
    /\ Upto(1, cut, record_lease(m, i, "new"), UNCHANGED lease_db)
    /\ Upto(2, cut, pf_del(i), UNCHANGED pf)
    /\ Upto(3, cut, send_acct_message(m, i, "start"), UNCHANGED acct)
\* Mutant: the address stays admitted.
AllocNew_admitted(m, i, cut) ==
    /\ NoEntry \in get_static_ip(m)
    /\ NoIp \in get_leased_ip(m)
    /\ i \in get_new_ip \ {NoIp}
    /\ Upto(1, cut, record_lease(m, i, "new"), UNCHANGED lease_db)
    /\ UNCHANGED pf
    /\ Upto(3, cut, send_acct_message(m, i, "start"), UNCHANGED acct)
\* Mutant: the session of the new owner is not announced.
AllocNew_silent(m, i, cut) ==
    /\ NoEntry \in get_static_ip(m)
    /\ NoIp \in get_leased_ip(m)
    /\ i \in get_new_ip \ {NoIp}
    /\ Upto(1, cut, record_lease(m, i, "new"), UNCHANGED lease_db)
    /\ Upto(2, cut, pf_del(i), UNCHANGED pf)
    /\ UNCHANGED acct
\* Mutant: the address is answered and not recorded.
AllocNew_unrecorded(m, i, cut) ==
    /\ NoEntry \in get_static_ip(m)
    /\ NoIp \in get_leased_ip(m)
    /\ i \in get_new_ip \ {NoIp}
    /\ UNCHANGED lease_db
    /\ Upto(2, cut, pf_del(i), UNCHANGED pf)
    /\ Upto(3, cut, send_acct_message(m, i, "start"), UNCHANGED acct)

AllocNew(m, i, cut) ==
    /\ NoEntry \in get_static_ip(m)
    /\ NoIp \in get_leased_ip(m)
    /\ i \in get_new_ip \ {NoIp}
    /\ Upto(1, cut, record_lease(m, i, "new"), UNCHANGED lease_db)
    /\ Upto(2, cut, pf_del(i), UNCHANGED pf)
    /\ Upto(3, cut, send_acct_message(m, i, "start"), UNCHANGED acct)

AllocNone(m, i) ==
    /\ i = NoIp
    /\ NoEntry \in get_static_ip(m)
    /\ NoIp \in get_leased_ip(m)
    /\ NoIp \in get_new_ip
    /\ UNCHANGED <<rows, mac, expire, auth, pf, acct>>

\* Allocates i to m, or answers NoIp.
ip_alloc(m, i, cut) ==
    /\ \/ AllocStatic(m, i, cut)
       \/ AllocLeased(m, i, cut)
       \/ AllocNew(m, i, cut)
       \/ AllocNone(m, i)
    /\ UNCHANGED outside

\* Mutant: the answer is right and the row is not touched.
CheckStatic_unrecorded(m, i, ok) ==
    /\ i \in cfg.net
    /\ \E e \in get_static_ip(m) \ {NoEntry} : ok = (i = e.ip)
    /\ UNCHANGED lease_db

CheckStatic(m, i, ok) ==
    /\ i \in cfg.net
    /\ \E e \in get_static_ip(m) \ {NoEntry} :
         /\ ok = (i = e.ip)
         /\ IF ok THEN record_static_lease(m, i, "static") ELSE UNCHANGED lease_db

\* Mutant: the answer is right and the lease is not extended.
CheckLeased_unrecorded(m, i, ok) ==
    /\ i \in cfg.dyn
    /\ NoEntry \in get_static_ip(m)
    /\ \E own \in get_leased_ip(m) : ok = (i = own)
    /\ UNCHANGED lease_db
\* Mutant: a client that has no lease gets the address it asks for.
CheckLeased_trusting(m, i, ok) ==
    /\ i \in cfg.dyn
    /\ NoEntry \in get_static_ip(m)
    /\ \E own \in get_leased_ip(m) :
         /\ ok = (own \in {i, NoIp})
         /\ IF ok THEN record_lease(m, i, Keep) ELSE UNCHANGED lease_db

CheckLeased(m, i, ok) ==
    /\ i \in cfg.dyn
    /\ NoEntry \in get_static_ip(m)
    /\ \E own \in get_leased_ip(m) :
         /\ ok = (i = own)
         /\ IF ok THEN record_lease(m, i, Keep) ELSE UNCHANGED lease_db

CheckRefused(m, i, ok) ==
    /\ i \notin cfg.net \/ (i \notin cfg.dyn /\ NoEntry \in get_static_ip(m))
    /\ ok = FALSE
    /\ UNCHANGED lease_db

\* Is i the address of m?  ok is the answer; a yes extends the lease.
ip_check(m, i, ok) ==
    /\ \/ CheckStatic(m, i, ok)
       \/ CheckLeased(m, i, ok)
       \/ CheckRefused(m, i, ok)
    /\ UNCHANGED <<now, cfg, static_db, pf, acct>>

ip_free(m, i) ==
    /\ send_acct_message(m, i, "end")
    /\ UNCHANGED <<rows, mac, expire, auth, now, cfg, static_db, pf>>

ip_invalidate(i) ==
    /\ record_lease(BadMac, i, "invalidated")
    /\ UNCHANGED <<now, cfg, static_db, pf, acct>>

\* Mutant: INSERT OR REPLACE.
populate_replace(new) ==
    /\ rows' = rows \cup new
    /\ mac' = [i \in Ip |-> IF i \in new THEN NoMac ELSE mac[i]]
    /\ expire' = [i \in Ip |-> IF i \in new THEN 0 ELSE expire[i]]
    /\ auth' = [i \in Ip |-> IF i \in new THEN "-" ELSE auth[i]]

\* INSERT a row for each address of new; the unique index refuses it where there
\* is one already, and that error is ignored.
populate(new) ==
    /\ rows' = rows \cup new
    /\ mac' = [i \in Ip |-> IF i \in new \ rows THEN NoMac ELSE mac[i]]
    /\ expire' = [i \in Ip |-> IF i \in new \ rows THEN 0 ELSE expire[i]]
    /\ auth' = [i \in Ip |-> IF i \in new \ rows THEN "-" ELSE auth[i]]

StaticRows == {i \in rows : auth[i] = "static"}

\* prepare_databases with configuration c: a row for every address of the ranges,
\* one INSERT each, then the addresses recorded as static are admitted.  A failed
\* SELECT ends the second loop early; the process may die in either.
prepare_databases(c) ==
    /\ \E new \in SUBSET c.pool, adm \in SUBSET StaticRows :
         /\ populate(new)
         /\ pf' = IF PfEnabled THEN pf \cup adm ELSE pf
         /\ \/ /\ new = c.pool /\ (adm = StaticRows \/ SelectMayFail)
               /\ up' = TRUE
            \/ /\ MidOpCrash /\ (new = c.pool \/ adm = {})
               /\ up' = FALSE
    /\ cfg' = c
    /\ UNCHANGED <<now, static_db, acct>>

----------------------------------------------------------------------------
(* The daemon's life and its surroundings.                                  *)

Start == ~up /\ \E c \in Configs : prepare_databases(c)

\* A signal, or an exception that reaches main().
Die ==
    /\ up /\ up' = FALSE
    /\ UNCHANGED <<rows, mac, expire, auth, now, cfg, static_db, pf, acct>>

\* The host goes down: the lease table is on disk, the pf table is not.
Reboot ==
    /\ up' = FALSE /\ pf' = {}
    /\ UNCHANGED <<rows, mac, expire, auth, now, cfg, static_db, acct>>

Tick ==
    /\ now < Horizon /\ now' = now + 1
    /\ UNCHANGED <<rows, mac, expire, auth, cfg, static_db, pf, acct, up>>

EditStatic(m, e) ==
    /\ static_db' = [static_db EXCEPT ![m] = e]
    /\ UNCHANGED <<rows, mac, expire, auth, now, cfg, pf, acct, up>>

Exclude(i) ==
    /\ i \in rows \cap Excludable /\ auth' = [auth EXCEPT ![i] = "excluded"]
    /\ UNCHANGED <<rows, mac, expire, now, cfg, static_db, pf, acct, up>>

\* The landing page admits a client that holds a lease and has logged in.
Authorise(i) ==
    /\ PfEnabled /\ i \in rows /\ mac[i] \in Mac /\ now <= expire[i] /\ auth[i] \in {"new", "leased"}
    /\ auth' = [auth EXCEPT ![i] = "granted"]
    /\ pf' = pf \cup {i}
    /\ UNCHANGED <<rows, mac, expire, now, cfg, static_db, acct, up>>

Surroundings ==
    \/ Start
    \/ Die
    \/ Reboot
    \/ Tick
    \/ \E m \in Editable, e \in StaticEntries \cup {NoEntry} : EditStatic(m, e)
    \/ \E i \in Ip : Exclude(i)
    \/ \E i \in Ip : Authorise(i)

----------------------------------------------------------------------------
(* The allocator under any sequence of calls.                               *)

\* The caller may also die on the answer of ip_alloc (create_dhcp_offer throws).
Request(m, i) ==
    /\ up
    /\ \/ \E cut \in Cuts : ip_alloc(m, i, cut) /\ up' \in {cut = Done, FALSE}
       \/ \E ok \in BOOLEAN : ip_check(m, i, ok) /\ UNCHANGED up
       \/ ip_free(m, i) /\ UNCHANGED up
       \/ ip_invalidate(i) /\ UNCHANGED up

\* The first start: no lease database, nothing admitted, nothing announced.
AllocInit ==
    /\ rows = {}
    /\ mac = [i \in Ip |-> NoMac]
    /\ expire = [i \in Ip |-> 0]
    /\ auth = [i \in Ip |-> "-"]
    /\ now \in 1..Horizon
    /\ cfg \in Configs
    /\ static_db = [m \in Mac |-> NoEntry]
    /\ pf = {}
    /\ acct = [p \in Mac \X (Ip \cup {NoIp}) |-> "none"]
    /\ up = FALSE

AllocNext == Surroundings \/ \E m \in Mac, i \in Ip \cup {NoIp} : Request(m, i)

AllocSpec == AllocInit /\ [][AllocNext]_alloc_vars

----------------------------------------------------------------------------
(* Properties.                                                              *)

\* The type of the state: in particular an expiry time is a C int, and only
\* addresses (never INADDR_NONE) get a row or a place in the pf table.
TypeOK ==
    /\ rows \subseteq Ip
    /\ mac \in [Ip -> Owner]
    /\ expire \in [Ip -> (-IntMax - 1)..IntMax]
    /\ auth \in [Ip -> AuthInfo]
    /\ now \in 0..Horizon
    /\ cfg \in Configs
    /\ static_db \in [Mac -> StaticEntries \cup {NoEntry}]
    /\ pf \subseteq Ip
    /\ acct \in [Mac \X (Ip \cup {NoIp}) -> {"none", "start", "end"}]
    /\ up \in BOOLEAN

StaticFor(m, i) ==
    \E e \in {cfg.hosts[m], static_db[m]} \ {NoEntry} : e.ip = i

\* Whatever is requested, edited, restarted or cut short, a row that is
\* excluded or whose lease has not run out changes its owner only when the
\* client declined it (ip_invalidate) or when it is the static address of its
\* new owner (record_static_lease updates the row without looking at it).
LeaseNotStolen ==
    [][\A i \in rows :
          mac'[i] # mac[i] =>
             \/ expire[i] < now /\ auth[i] # "excluded"
             \/ mac'[i] = BadMac /\ auth'[i] = "invalidated"
             \/ mac'[i] \in Mac /\ StaticFor(mac'[i], i)]_alloc_vars

\* "We have to keep current leases across a server restart": while the daemon
\* is down and when it starts, with whatever configuration, no row is lost and
\* none changes its owner or its term.
LeasesSurviveRestart ==
    [][~up => /\ rows \subseteq rows'
              /\ \A i \in rows : mac'[i] = mac[i] /\ expire'[i] = expire[i]]_alloc_vars

\* Without static assignments a client owns one usable row at most, so that
\* get_leased_ip, which takes any one of them, always answers the same: ip_alloc
\* must look for a lease of the client before it takes a new address.  (A client
\* with the address 00:00:00:00:00:00 owns every row that was declined.)
OneLeasePerMac ==
    \A i, j \in rows :
       (mac[i] = mac[j] /\ mac[i] \in Mac \ {BadMac} /\ "excluded" \notin {auth[i], auth[j]})
          => i = j

\* An address just handed to a new client, who has not logged in yet, is not
\* admitted by pf, whoever was admitted with it before.
NewNotAdmitted == \A i \in rows : auth[i] = "new" => i \notin pf

\* Without static assignments a session start was announced for every client
\* that owns an address.
HolderAnnounced ==
    \A i \in rows : mac[i] \in Mac \ {BadMac} => acct[<<mac[i], i>>] # "none"

\* Internal clients are protected: where no static assignment gives access to
\* the internet, no static address is admitted.
InternalNotAdmitted ==
    \A e \in StaticEntries : ~e.inet => e.ip \notin pf
=============================================================================
