------------------------------ MODULE MCSubnets ------------------------------
(***************************************************************************)
(* Instances of Subnets for TLC.  Two families of rc files: every text of   *)
(* up to three lines over a small vocabulary of assignments, blocks and     *)
(* includes, and complete configurations with two subnets, in which one     *)
(* line at most is missing, or with one line more.                          *)
(***************************************************************************)
EXTENDS Subnets, SequencesExt

Parts == <<".file", "x", "arr", "count", "00", "01", "02", "03", "global", "domain", "name",
           "server", "addr", "netmask", "lease", "time", "renew", "nameserver1", "nameserver2",
           "subnet", "lan", "gateway", "range", "start", "end", "wlan",
           "04", "05", "06", "07", "08", "09", "", "signed">>
Rank(p) == CHOOSE i \in DOMAIN Parts : Parts[i] = p

\* ---- short texts
x == <<"x">>
arr == <<"arr">>
signed == <<"signed">>      \* its sum is negative
Set(k, v) == [op |-> "set", key |-> k, array |-> FALSE, val |-> v]
Element(v) == [op |-> "set", key |-> arr, array |-> TRUE, val |-> v]
Var(k) == [var |-> k, env |-> FALSE, lit |-> ""]
EnvVar(k) == [var |-> k, env |-> TRUE, lit |-> ""]
If(k, eq, v) ==
    [op |-> "if", cond |-> <<[lh |-> EnvVar(k), eq |-> eq, rh |-> v, join |-> "end"]>>]
If2(join) ==
    [op |-> "if", cond |-> <<[lh |-> Var(x), eq |-> TRUE, rh |-> "v", join |-> join],
                             [lh |-> Literal("w"), eq |-> TRUE, rh |-> "v", join |-> "end"]>>]
Unreadable_If == [op |-> "if", cond |-> <<>>]
Op(o) == [op |-> o]
Include(f) == [op |-> "include", file |-> f]

Vocabulary ==
    {Set(x, Literal("v")), Set(x, Literal("w")), Set(x, Literal("")), Unreadable_If,
     Element(Var(x)), Set(CountKey(arr), Literal("1")),
     If(x, TRUE, "v"), If(x, FALSE, "v"), If2("||"), Op("else"), Op("endif"), Op("end"), Op("#"),
     Include("inc"), Include("nofile")}

Texts(n) == UNION {[1..i -> Vocabulary] : i \in 0..n}

Included == {<<Element(Literal("v")), Op("else"), Set(x, Literal("w"))>>,
             <<Include("inc"), Set(x, Literal("w"))>>}

\* Two blocks, nested or one after the other, well formed or not.
Ifs == {If(x, TRUE, "v"), If(x, FALSE, "v"), If2("||")}
Nested ==
    {<<Set(x, Literal("v")), i, p, Set(x, Literal("w")), q, Element(Literal("v")), r, Op("endif")>> :
        i \in Ifs, p \in Ifs \cup {Op("endif")}, q \in {Op("else"), Op("endif")} \cup Ifs,
        r \in {Op("else"), Op("endif"), Op("#")}}

ShortTexts == {[f \in {"main", "inc"} |-> IF f = "main" THEN t ELSE i] :
                  t \in Texts(3) \cup Nested, i \in Included}

\* ---- configurations
Lan(n, last) ==
    [i \in 1..3 |-> Set(<<"subnet", n, <<"netmask", "gateway", "addr">>[i]>>,
                        Literal(<<"netmask", "gateway", n>>[i]))]
      \o (IF last = "" THEN <<>> ELSE <<Set(<<"subnet", n, "range", "start">>, Literal("00")),
                                       Set(<<"subnet", n, "range", "end">>, Literal(last))>>)
Globals(renew) ==
    [i \in 1..4 |-> Set(<<"global">> \o <<<<"domain", "name">>, <<"server", "addr">>,
                                         <<"server", "netmask">>, <<"nameserver1">>>>[i],
                        Literal("name"))]
      \o <<Set(<<"global", "lease", "time">>, Literal("2")),
           Set(<<"global", "renew", "time">>, Literal(renew))>>

Configurations ==
    {Globals(r) \o Lan("lan", l) \o Lan("wlan", w) :
        r \in {"2", "3"}, l \in {"", "01", "02"}, w \in {"", "01"}}

\* The key subnet-addr, without and with a subnet of the empty name.
NamelessConfigurations ==
    {Globals("2") \o n \o l \o m :
        n \in {<<>>, Lan("", "")}, l \in {<<>>, Lan("lan", "01")},
        m \in {<<>>, <<Set(<<"subnet", "addr">>, Literal("lan"))>>}}

ConfigTexts ==
    {[f \in {"main", "inc"} |-> IF f = "main" THEN t ELSE <<>>] :
        t \in UNION {{RemoveAt(c, i) : i \in DOMAIN c} \cup {c, Reverse(c)}
                     \cup {Append(SubSeq(c, 1, i), Include("inc")) : i \in DOMAIN c}
                     \cup {InsertAt(c, i, Set(signed, Literal("v"))) : i \in DOMAIN c} :
                        c \in Configurations \cup NamelessConfigurations}}

AllTexts == ShortTexts \cup ConfigTexts

TheEnvironment == [k \in {x} |-> "v"]

\* 02 is outside the subnets.
TheNet == {"lan", "wlan"} \X {"netmask"} \X {"00", "01"}
Plain == [n \in {"subnet", "lan", "wlan", ""} |-> <<n>>]

SubnetKeys(names) ==
    {<<"subnet">> \o n \o p : n \in names,
        p \in {<<"addr">>, <<"netmask">>, <<"gateway">>, <<"nameserver1">>,
               <<"nameserver2">>, <<"range", "start">>, <<"range", "end">>}}

AllKeys ==
    {x, signed, <<"subnet", "addr">>} \cup ArrayKeys(arr) \cup ArrayKeys(FileKey)
      \cup SubnetKeys({<<"lan">>, <<"wlan">>, <<"">>})
      \cup {<<"global">> \o p :
                p \in {<<"domain", "name">>, <<"server", "addr">>, <<"server", "netmask">>,
                       <<"lease", "time">>, <<"renew", "time">>, <<"nameserver1">>,
                       <<"nameserver2">>}}

\* Stand-ins for the character sums: different keys collide in the first.  They are
\* defined for the keys below two names, too, which no file assigns to.  The sum of
\* signed is negative, in the array at the sizes 9 and 14 and outside at 4 and 17.
Names == {"lan", "wlan", ""}
Hashed == AllKeys \cup SubnetKeys(Names \X Names)
SumOf == [k \in Hashed |->
             IF k = signed THEN -126 ELSE FoldLeft(LAMBDA s, p : s + Rank(p), 0, k)]
PolyOf == [k \in Hashed |-> FoldLeft(LAMBDA s, p : 3 * s + Rank(p), 0, k) + 2]
MCCharSum(k) == SumOf[k]
MCCharPoly(k) == PolyOf[k]

\* Two conditions joined by "&&", the case of the documentation's example.
AndText ==
    {[f \in {"main", "inc"} |->
        IF f = "main" THEN <<Set(x, Literal(v)), If2("&&"), Set(x, Literal("v")), Op("endif")>>
        ELSE <<>>] : v \in {"v", "w"}}
=============================================================================
