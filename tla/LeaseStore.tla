----------------------------- MODULE LeaseStore -----------------------------
(***************************************************************************)
(* The lease database as a file that several processes may use              *)
(* (alloc/ipallocator_sql.cxx): it is created statement by statement, each  *)
(* statement is a transaction of its own, and rows are found by one         *)
(* statement and changed by another.  A row is [id, ip, mac, over]; over    *)
(* says that expire lies in the past.                                       *)
(***************************************************************************)
EXTENDS Integers, FiniteSetsExt

CONSTANTS
    Client,     \* hardware addresses
    NoClient,   \* '', the owner of a fresh row
    Address     \* the addresses of the ranges

ASSUME StoreAssumption == NoClient \notin Client /\ Address # {}

VARIABLES
    schema,     \* the file and what was created in it: "file", "table", "unique"
    leases      \* the rows

store_vars == <<schema, leases>>

\* A constraint a new row could break.
Taken(ip) == \E r \in leases : r.ip = ip
OneRowEach == \A r, q \in leases : r.ip = q.ip => r = q

\* The file appears when it is opened with SQLITE_OPEN_CREATE.
CreateFile == schema' = schema \cup {"file"} /\ UNCHANGED leases

CreateTable == "table" \notin schema /\ schema' = schema \cup {"table"} /\ UNCHANGED leases

\* Mutant: the index is there and not unique.
CreateUniqueIndex_plain(busy) == UNCHANGED store_vars

\* Its result is not looked at: it fails when there are two rows for an address,
\* and may fail when somebody else is in the database.
CreateUniqueIndex(busy) ==
    /\ \/ OneRowEach /\ schema' = schema \cup {"unique"}
       \/ (~OneRowEach \/ busy) /\ UNCHANGED schema
    /\ UNCHANGED leases

NewId == Max({r.id : r \in leases} \cup {0}) + 1

\* A fresh row, or SQLITE_CONSTRAINT, which is ignored.
Populate(ip) ==
    /\ leases' = IF "unique" \in schema /\ Taken(ip) THEN leases
                 ELSE leases \cup {[id |-> NewId, ip |-> ip, mac |-> NoClient, over |-> TRUE]}
    /\ UNCHANGED schema

\* Mutant: whose lease is over is not looked at.
Candidates_any(m) ==
    LET own == {r.ip : r \in {q \in leases : q.mac = m}}
    IN IF own # {} THEN own ELSE {r.ip : r \in leases}

\* The address ip_alloc goes on with: one the client has, or else one that is free.
Candidates(m) ==
    LET own == {r.ip : r \in {q \in leases : q.mac = m}}
    IN IF own # {} THEN own ELSE {r.ip : r \in {q \in leases : q.over}}

\* UPDATE ... WHERE ip = ?: every row of the address.
UpdateLease(m, ip) ==
    /\ leases' = {IF r.ip = ip THEN [r EXCEPT !.mac = m, !.over = FALSE] ELSE r : r \in leases}
    /\ UNCHANGED schema

\* Time passes: the lease of an address runs out.
RunOut(ip) ==
    /\ leases' = {IF r.ip = ip THEN [r EXCEPT !.over = TRUE] ELSE r : r \in leases}
    /\ UNCHANGED schema
=============================================================================
