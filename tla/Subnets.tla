------------------------------- MODULE Subnets -------------------------------
(***************************************************************************)
(* Subnets::load (tools/subnets.cxx): the subnets are found by walking the  *)
(* hash table of the rc file, in the order of its slots, and read through   *)
(* the rc file's key stack (push, pop, and keys that start with the         *)
(* delimiter).  An address stays the text it is in the rc file; InNet says  *)
(* which are in which subnet (IpTools has the arithmetic).                  *)
(***************************************************************************)
EXTENDS RcFile

CONSTANTS
    InNet,      \* the triples <<addr, netmask, ip>> with ip in the subnet
    Delim       \* of a name, its parts: a name may hold the delimiter

\* A name has parts of its own, and the keys of a subnet are keys of the table.
ASSUME NamesTyped ==
    /\ "subnet" \in DOMAIN Delim /\ DOMAIN Delim \subseteq STRING
    /\ <<"subnet", "addr">> \in Key => "" \in DOMAIN Delim
    /\ \A n \in DOMAIN Delim : Len(Delim[n]) = 1 => Delim[n] = <<n>>
    /\ \A k \in Key : (Len(k) >= 3 /\ k[1] = "subnet" /\ k[Len(k)] = "addr")
          => \E n \in DOMAIN Delim : Delim[n] = SubSeq(k, 2, Len(k) - 1)
    /\ \A n \in DOMAIN Delim : <<"subnet", n, "addr">> \in Key =>
          /\ <<"subnet", n, "gateway">> \in Key
          /\ <<"subnet", n, "range", "start">> \in Key

VARIABLES
    keyst,      \* the key stack _keyst, as the parts of the prefix
    subnets,    \* the list _subnets
    slot        \* where the walk over the hash table is, from 1; 0 before it

rc_file == <<files, h, recursion_cnt, frames, dict>>
subnet_vars == <<rc_vars, keyst, subnets, slot>>

push(ks, name) == ks \o Delim[name]
pop(ks) == SubSeq(ks, 1, Len(ks) - 1)

\* getstring of a key below the stack; Null stands for "Key not defined".
getstring(ks, part) == Lookup(h, ks \o part)
global(part) == Lookup(h, <<"global">> \o part)
Or(v, default) == IF v # Null THEN v ELSE default

\* The name in a key that starts with "subnet-" and ends with "-addr", Null for other
\* keys.  In subnet-addr the two share a delimiter, and the name is empty.
SubnetName(k) ==
    IF k = <<"subnet", "addr">> THEN ""
    ELSE IF Len(k) >= 3 /\ k[1] = "subnet" /\ k[Len(k)] = "addr"
    THEN CHOOSE n \in DOMAIN Delim : Delim[n] = SubSeq(k, 2, Len(k) - 1)
    ELSE Null

\* One subnet, read with its name on the stack ks.
ReadSubnet(n, ks) ==
    [name |-> n, addr |-> getstring(ks, <<"addr">>), netmask |-> getstring(ks, <<"netmask">>),
     gateway |-> getstring(ks, <<"gateway">>),
     nameserver1 |-> Or(getstring(ks, <<"nameserver1">>), global(<<"nameserver1">>)),
     nameserver2 |-> Or(getstring(ks, <<"nameserver2">>), global(<<"nameserver2">>)),
     first |-> getstring(ks, <<"range", "start">>),
     last |-> IF getstring(ks, <<"range", "start">>) # Null
              THEN getstring(ks, <<"range", "end">>) ELSE Null]

\* global-nameserver1 is an argument of the call, so it is asked for always.
Unreadable(b) ==
    \/ Null \in {b.addr, b.netmask, b.gateway, global(<<"nameserver1">>)}
    \/ b.first # Null /\ b.last = Null
    \/ \E i \in {b.first, b.last} \ {Null} : <<b.addr, b.netmask, i>> \notin InNet

\* Mutant: the name stays on the stack when a subnet has no range.
AfterSubnet_kept(b, ks) == IF b.first = Null THEN ks ELSE pop(ks)

AfterSubnet(b, ks) == pop(ks)

GlobalsMissing ==
    \/ \E p \in {<<"domain", "name">>, <<"server", "addr">>, <<"server", "netmask">>,
                 <<"lease", "time">>, <<"renew", "time">>} : global(p) = Null
    \/ atol(global(<<"renew", "time">>)) > atol(global(<<"lease", "time">>))

Fail == outcome' = "throw" /\ UNCHANGED <<keyst, subnets, slot>>

LoadGlobals ==
    /\ outcome = "loaded" /\ slot = 0
    /\ IF GlobalsMissing THEN Fail
       ELSE slot' = 1 /\ keyst' = push(keyst, "subnet") /\ UNCHANGED <<outcome, subnets>>
    /\ UNCHANGED rc_file

\* The next slot of the walk: a subnet when its key is subnet-name-addr.
LoadSlot ==
    /\ outcome = "loaded" /\ slot \in 1..h.size
    /\ \E name \in {SubnetName(h.slot[slot - 1].key)} :
          IF name = Null THEN slot' = slot + 1 /\ UNCHANGED <<outcome, keyst, subnets>>
          ELSE \E ks \in {push(keyst, name)} : \E b \in {ReadSubnet(name, ks)} :
                 IF Unreadable(b) THEN Fail
                 ELSE /\ keyst' = AfterSubnet(b, ks)
                      /\ subnets' = Append(subnets, b)
                      /\ slot' = slot + 1
                      /\ UNCHANGED outcome
    /\ UNCHANGED rc_file

LoadDone ==
    /\ outcome = "loaded" /\ slot > h.size
    /\ outcome' = "configured"
    /\ keyst' = pop(keyst)
    /\ UNCHANGED <<rc_file, subnets, slot>>

\* The first subnet of the list that has the address, its index.
mysubnet(ip) ==
    LET hits == {i \in DOMAIN subnets : <<subnets[i].addr, subnets[i].netmask, ip>> \in InNet}
    IN IF hits = {} THEN 0 ELSE Min(hits)

SubnetsInit == RcInit /\ keyst = <<>> /\ subnets = <<>> /\ slot = 0

\* After a throw main() ends; "overrun" is undefined behaviour.
Stopped == outcome \in {"configured", "throw", "overrun"} /\ UNCHANGED subnet_vars

SubnetsNext ==
    \/ RcNext /\ UNCHANGED <<keyst, subnets, slot>>
    \/ LoadGlobals
    \/ LoadSlot
    \/ LoadDone
    \/ Stopped

\* Nothing keeps the single thread from reading on: WF_subnet_vars(SubnetsNext), with
\* its ENABLED written out, since a step is possible while Running.
Running == outcome \in {"loading", "loaded"}
KeepsReading == []<>~Running \/ []<><<SubnetsNext>>_subnet_vars

SubnetsSpec == SubnetsInit /\ [][SubnetsNext]_subnet_vars /\ KeepsReading

----------------------------------------------------------------------------
(* Properties.                                                              *)

\* The key subnet-addr is in the table.
Nameless == \E i \in DOMAIN h.slot : h.slot[i].key = <<"subnet", "addr">>

\* The subnets that are read do not depend on where the hash table put their keys:
\* unless a name holds the delimiter, they are those with an addr key in the file,
\* each once and with its own values, and the key stack is empty again.  With the key
\* subnet-addr the subnet of the empty name, subnet--addr, is found a second time.
SubnetsAsWritten ==
    (outcome = "configured" /\ ~h.stray /\ ~Nameless
       /\ \A n \in DOMAIN Delim : Len(Delim[n]) = 1) =>
       LET Named(n) == dict[<<"subnet", n, "addr">>] # Null
           Own(n, p) == dict[<<"subnet", n, p>>]
       IN /\ keyst = <<>>
          /\ \A n \in {x \in DOMAIN Delim : <<"subnet", x, "addr">> \in Key} :
               Cardinality({i \in DOMAIN subnets : subnets[i].name = n})
                  = IF Named(n) THEN 1 ELSE 0
          /\ \A i \in DOMAIN subnets :
               /\ subnets[i].addr = Own(subnets[i].name, "addr")
               /\ subnets[i].gateway = Own(subnets[i].name, "gateway")
               /\ subnets[i].first = dict[<<"subnet", subnets[i].name, "range", "start">>]

\* Reading the configuration comes to an end, whatever the files include.
LoadEnds == <>(outcome # "loading")
=============================================================================
