---------------------------- MODULE MCDhcpServer ----------------------------
(***************************************************************************)
(* Instances of DhcpServer for TLC.  Address a is in the dynamic range of   *)
(* every configuration, b only in that of the wide ones, and s is in a      *)
(* subnet that has no range.                                                *)
(***************************************************************************)
EXTENDS DhcpServer, TLC

CONSTANTS m1, m2, a, b, s

Config(n, d) == [net |-> n, dyn |-> d, pool |-> d, hosts |-> [m \in Mac |-> NoEntry]]

Range2 == {Config({a, b}, {a, b})}
Range2Shrinks == Range2 \cup {Config({a}, {a})}
Range1AndStatic == {Config({a, s}, {a})}

Printer == {[ip |-> s, inet |-> FALSE]}

=============================================================================
