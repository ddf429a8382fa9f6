---------------------------- MODULE MCDhcpSystem ----------------------------
(***************************************************************************)
(* Instances of DhcpSystem for TLC: two clients that compete for one        *)
(* address a, s is an address of a subnet that has no range.                *)
(***************************************************************************)
EXTENDS DhcpSystem

CONSTANTS m1, m2, a, b, s

Config(n, d) == [net |-> n, dyn |-> d, pool |-> d, hosts |-> [m \in Mac |-> NoEntry]]

Range1 == {Config({a}, {a})}

\* As in etc/s3dhcpd-example.rc: a host line for an address of the subnet that
\* is outside its dynamic range.
StaticS == {[ip |-> s, inet |-> TRUE]}
Example ==
    {[net |-> {a, s}, dyn |-> {a, s}, pool |-> {a},
      hosts |-> [m \in Mac |-> IF m = m1 THEN [ip |-> s, inet |-> TRUE] ELSE NoEntry]]}

OneEach == [m \in Mac |-> 1]
TwoAndOne == [m \in Mac |-> IF m = m1 THEN 2 ELSE 1]
=============================================================================
