------------------------------ MODULE MCStartup ------------------------------
(***************************************************************************)
(* Two processes of the daemon at a time, one address, two clients.         *)
(***************************************************************************)
EXTENDS Startup

CONSTANTS p1, p2, e0, m1, m2, a
=============================================================================
