--------------------------- MODULE MCIPAllocator ---------------------------
(***************************************************************************)
(* Instances of IPAllocator for TLC.  Address a is in the dynamic range of  *)
(* every configuration; s is in a subnet that has no range.                 *)
(***************************************************************************)
EXTENDS IPAllocator, TLC

CONSTANTS m1, m2, a, b, s

Config(n, d) == [net |-> n, dyn |-> d, pool |-> d, hosts |-> [m \in Mac |-> NoEntry]]

Range1AndStatic == {Config({a, s}, {a})}

\* a, in the dynamic range, is also the static address of m1, in the rc file of
\* one configuration or in the static table.
WithHosts ==
    LET c == Config({a, s}, {a})
    IN {c, [c EXCEPT !.hosts[m1] = [ip |-> a, inet |-> TRUE]]}

TwoEntries == {[ip |-> a, inet |-> TRUE], [ip |-> s, inet |-> FALSE]}

Printer == {[ip |-> s, inet |-> FALSE]}
=============================================================================
