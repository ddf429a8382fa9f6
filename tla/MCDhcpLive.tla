----------------------------- MODULE MCDhcpLive -----------------------------
(***************************************************************************)
(* Two clients and a range of two addresses.                                *)
(***************************************************************************)
EXTENDS DhcpLive

CONSTANTS m1, m2, a, b

Range2 == {[net |-> {a, b}, dyn |-> {a, b}, pool |-> {a, b}, hosts |-> [m \in Mac |-> NoEntry]]}
=============================================================================
