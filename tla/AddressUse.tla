----------------------------- MODULE AddressUse -----------------------------
(***************************************************************************)
(* What a DHCP service promises, with no server, table or message: a client *)
(* starts to use an address only when no other client's term on it is still *)
(* running, never for longer than Term at once, and may stop at any time.   *)
(* (RFC 2131, doc/rfc2131.txt lines 373-374.)                               *)
(***************************************************************************)
EXTENDS Integers

CONSTANTS Client, Addr, None, Term

VARIABLES
    uses,   \* the address each client uses, or None
    until,  \* the end of its term
    clock

use_vars == <<uses, until, clock>>

Live(c, i) == uses[c] = i /\ clock <= until[c]

UseInit ==
    /\ uses = [c \in Client |-> None]
    /\ until = [c \in Client |-> 0]
    /\ clock \in Nat

\* A term that is over when it is taken (a late answer) gives no use.
Take(c, i, t) ==
    /\ clock <= t => \A d \in Client \ {c} : ~Live(d, i)
    /\ t <= clock + Term
    /\ uses' = [uses EXCEPT ![c] = i]
    /\ until' = [until EXCEPT ![c] = t]
    /\ UNCHANGED clock

Stop(c) ==
    /\ uses' = [uses EXCEPT ![c] = None]
    /\ UNCHANGED <<until, clock>>

Pass ==
    /\ clock' = clock + 1
    /\ UNCHANGED <<uses, until>>

UseNext ==
    \/ \E c \in Client : Stop(c) \/ \E i \in Addr : Take(c, i, until'[c])
    \/ Pass

UseSpec == UseInit /\ [][UseNext]_use_vars
=============================================================================
