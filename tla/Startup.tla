------------------------------- MODULE Startup -------------------------------
(***************************************************************************)
(* main() and Daemon::daemonize (main.cxx, tools/daemon.cxx): processes     *)
(* started by the administrator, one after the other or at the same time,   *)
(* the pid file that is to keep two of them apart, the creation of the      *)
(* lease database, and the queries of those that serve.                     *)
(*                                                                         *)
(* A step of a process is one system call or one SQL statement.             *)
(***************************************************************************)
EXTENDS LeaseStore

CONSTANTS
    Proc,       \* places for processes
    Iface,      \* network interfaces
    Pid,        \* process numbers, reused after a process ended
    LaunchMax,  \* bound: how often the daemon is started
    ForeignMax  \* bound: how many other processes there are

ASSUME PidsTyped == Pid \subseteq Nat \ {0} /\ LaunchMax \in Nat /\ ForeignMax \in Nat

VARIABLES
    pc,         \* where a process is; "off" when there is none
    opt,        \* its command line: [i, d]
    pid,        \* its number, 0 when there is none
    found,      \* what it read last: a number from the pid file, addresses, a selected row
    pidfile,    \* of each interface: NoFile, 0 when it is empty, or a number
    foreign,    \* the numbers of processes that have nothing to do with this
    launches,   \* how often the daemon was started, up to LaunchMax
    raced,      \* history: two processes were not kept apart by the pid file
    torn,       \* history: a creation of the database was cut short or shared
    stale       \* history: the processes whose selected address was updated meanwhile

process == <<pc, opt, pid, found>>
history == <<raced, torn, stale>>
startup_vars == <<process, pidfile, foreign, launches, history, store_vars>>

NoFile == -1
Command == [i : Iface, d : BOOLEAN]
NoCommand == CHOOSE c \in Command : TRUE

Running(p) == pc[p] # "off"
Numbers == {pid[q] : q \in {r \in Proc : Running(r)}} \cup foreign

\* kill(n, 0) != -1; number 0 is the caller's own process group.
Answers(n) == n = 0 \/ n \in Numbers

Goto(p, l) == pc' = [pc EXCEPT ![p] = l]

Window == {"read", "test", "truncate", "write"}
Creating == {"table", "ip_idx"}
InStore == Creating \cup {"open", "fill", "serve", "update"}

\* exit(), or an exception that reaches main(), which returns.  The pid file stays.
Exit(p) ==
    /\ Goto(p, "off")
    /\ pid' = [pid EXCEPT ![p] = 0] /\ found' = [found EXCEPT ![p] = 0]
    /\ opt' = [opt EXCEPT ![p] = NoCommand]
    /\ torn' = (torn \/ pc[p] \in Creating)
    /\ stale' = stale \ {p}
    /\ UNCHANGED <<pidfile, foreign, launches, raced, store_vars>>

\* A step that changes nothing others see, from a to b.
Internal(p, a, b) ==
    /\ pc[p] = a /\ Goto(p, b)
    /\ UNCHANGED <<opt, pid, found, pidfile, foreign, launches, history, store_vars>>

----------------------------------------------------------------------------
(* main() up to daemonize().                                                *)

\* The pid file keeps apart only processes that are detached (-d) and serve the same
\* interface (-i).
KeptApart(c, q) == c.d /\ opt[q].d /\ c.i = opt[q].i

Launch(p, c) ==
    /\ pc[p] = "off" /\ launches < LaunchMax
    /\ Goto(p, "main") /\ opt' = [opt EXCEPT ![p] = c]
    /\ \E n \in Pid \ Numbers : pid' = [pid EXCEPT ![p] = n]
    /\ launches' = launches + 1
    /\ raced' = (raced \/ \E q \in Proc \ {p} : Running(q) /\ ~KeptApart(c, q))
    /\ UNCHANGED <<found, pidfile, foreign, torn, stale, store_vars>>

\* The rc file, and on, without -d.
Load(p) == ~opt[p].d /\ Internal(p, "main", "init")

\* With -d: the child goes on with a number of its own while its parent is still there; fork
\* fails when there is none.
daemonize(p) ==
    /\ opt[p].d /\ pc[p] = "main"
    /\ \/ /\ Goto(p, "access")
          /\ \E n \in Pid \ Numbers : pid' = [pid EXCEPT ![p] = n]
          /\ UNCHANGED <<opt, found, pidfile, foreign, launches, history, store_vars>>
       \/ Pid \subseteq Numbers /\ Exit(p)

\* write_pid_file: is there a file?
PidAccess(p) ==
    /\ pc[p] = "access"
    /\ Goto(p, IF pidfile[opt[p].i] = NoFile THEN "truncate" ELSE "read")
    /\ raced' = (raced \/ \E q \in Proc \ {p} : pc[q] \in Window /\ opt[q].i = opt[p].i)
    /\ UNCHANGED <<opt, pid, found, pidfile, foreign, launches, torn, stale, store_vars>>

\* From an empty file fscanf reads nothing, and pid has never been written.
PidRead(p) ==
    /\ pc[p] = "read" /\ Goto(p, "test")
    /\ \E n \in IF pidfile[opt[p].i] = 0 THEN Pid \cup {0} ELSE {pidfile[opt[p].i]} :
          found' = [found EXCEPT ![p] = n]
    /\ UNCHANGED <<opt, pid, pidfile, foreign, launches, history, store_vars>>

\* Mutant: it waits until the other one is gone.
PidTest_waits(p) ==
    /\ pc[p] = "test" /\ ~Answers(found[p])
    /\ Internal(p, "test", "truncate")

PidTest(p) ==
    /\ pc[p] = "test"
    /\ IF Answers(found[p]) THEN Exit(p)
       ELSE /\ Goto(p, "truncate") /\ found' = [found EXCEPT ![p] = 0]
            /\ UNCHANGED <<opt, pid, pidfile, foreign, launches, history, store_vars>>

\* fopen(pidname, "w"), and the number when the file is closed.
PidTruncate(p) ==
    /\ pc[p] = "truncate" /\ Goto(p, "write")
    /\ pidfile' = [pidfile EXCEPT ![opt[p].i] = 0]
    /\ UNCHANGED <<opt, pid, found, foreign, launches, history, store_vars>>

\* Mutant: the number of the parent is written.
PidWrite_parent(p) ==
    /\ pc[p] = "write" /\ Goto(p, "init")
    /\ pidfile' = [pidfile EXCEPT ![opt[p].i] = CHOOSE n \in Pid : n # pid[p]]
    /\ UNCHANGED <<opt, pid, found, foreign, launches, history, store_vars>>

PidWrite(p) ==
    /\ pc[p] = "write" /\ Goto(p, "init")
    /\ pidfile' = [pidfile EXCEPT ![opt[p].i] = pid[p]]
    /\ UNCHANGED <<opt, pid, found, foreign, launches, history, store_vars>>

----------------------------------------------------------------------------
(* The rest of main().                                                      *)

\* The log and the subnets.
Initialize(p) == Internal(p, "init", "net")

\* DHCP_Net::initialize, then RADIUS and pf.  Nothing here keeps two processes from
\* opening the same interface: pcap shares it, and the socket has SO_REUSEADDR.
NetInitialize(p) == Internal(p, "net", "db")

\* prepare_databases: access(), and open to create when there is no file.
DbAccess(p) ==
    /\ pc[p] = "db" /\ Goto(p, IF "file" \in schema THEN "open" ELSE "create")
    /\ torn' = (torn \/ \E q \in Proc \ {p} : pc[q] \in Creating)
    /\ UNCHANGED <<opt, pid, found, pidfile, foreign, launches, raced, stale, store_vars>>

DbCreate(p) ==
    /\ pc[p] = "create" /\ Goto(p, "table")
    /\ CreateFile
    /\ torn' = (torn \/ \E q \in Proc \ {p} : pc[q] \in InStore)
    /\ UNCHANGED <<opt, pid, found, pidfile, foreign, launches, raced, stale>>

DbTable(p) ==
    /\ pc[p] = "table"
    /\ IF "table" \in schema THEN Exit(p)
       ELSE /\ CreateTable /\ Goto(p, "ip_idx")
            /\ UNCHANGED <<opt, pid, found, pidfile, foreign, launches, history>>

\* The indices; nothing depends on the first two.
DbUnique(p) ==
    /\ pc[p] = "ip_idx" /\ Goto(p, "open")
    /\ CreateUniqueIndex(\E q \in Proc \ {p} : pc[q] \in InStore)
    /\ UNCHANGED <<opt, pid, found, pidfile, foreign, launches, history>>

\* Without a table the INSERT cannot be compiled.  found is now what is left of the ranges.
DbOpen(p) ==
    /\ pc[p] = "open"
    /\ IF "table" \in schema
       THEN /\ Goto(p, "fill") /\ found' = [found EXCEPT ![p] = Address]
            /\ UNCHANGED <<opt, pid, pidfile, foreign, launches, history, store_vars>>
       ELSE Exit(p)

\* One INSERT for each address of the ranges; after the last the loop is entered.
DbFill(p) ==
    /\ pc[p] = "fill"
    /\ \E ip \in found[p] :
          LET left == found[p] \ {ip}
          IN /\ Populate(ip)
             /\ Goto(p, IF left = {} THEN "serve" ELSE "fill")
             /\ found' = [found EXCEPT ![p] = IF left = {} THEN 0 ELSE left]
    /\ UNCHANGED <<opt, pid, pidfile, foreign, launches, history>>

----------------------------------------------------------------------------
(* Serving, and what happens to processes.                                  *)

\* A request of client m: the SELECT, with the address for found.
Select(p, m) ==
    /\ pc[p] = "serve" /\ Goto(p, "update")
    /\ \E ip \in Candidates(m) : found' = [found EXCEPT ![p] = [mac |-> m, ip |-> ip]]
    /\ UNCHANGED <<opt, pid, pidfile, foreign, launches, history, store_vars>>

Update(p) ==
    /\ pc[p] = "update" /\ Goto(p, "serve")
    /\ UpdateLease(found[p].mac, found[p].ip)
    /\ found' = [found EXCEPT ![p] = 0]
    /\ stale' = (stale \ {p}) \cup {q \in Proc \ {p} : pc[q] = "update" /\ found[q].ip = found[p].ip}
    /\ UNCHANGED <<opt, pid, pidfile, foreign, launches, raced, torn>>

Step(p) ==
    \/ Load(p)
    \/ daemonize(p)
    \/ PidAccess(p)
    \/ PidRead(p)
    \/ PidTest(p)
    \/ PidTruncate(p)
    \/ PidWrite(p)
    \/ Initialize(p)
    \/ NetInitialize(p)
    \/ DbAccess(p)
    \/ DbCreate(p)
    \/ DbTable(p)
    \/ DbUnique(p)
    \/ DbOpen(p)
    \/ DbFill(p)

\* SIGINT_hdl: a hangup is survived by a process that has set its handlers.
Signal(p, sig) ==
    /\ Running(p)
    /\ IF sig = "HUP" /\ opt[p].d /\ pc[p] # "main" THEN UNCHANGED startup_vars ELSE Exit(p)

\* A signal that CRASH_hdl or nobody handles, a bad option or rc file, a device that
\* cannot be opened, a statement that fails.
Crash(p) == Running(p) /\ Exit(p)

\* Other processes come and go, and time passes.  Only the numbers in the pid files are
\* of interest: no others are asked for.
Surroundings ==
    /\ \/ /\ Cardinality(foreign) < ForeignMax
          /\ \E n \in (Pid \cap {pidfile[i] : i \in Iface}) \ Numbers : foreign' = foreign \cup {n} /\ UNCHANGED store_vars
       \/ \E n \in foreign : foreign' = foreign \ {n} /\ UNCHANGED store_vars
       \/ \E ip \in Address : RunOut(ip) /\ UNCHANGED foreign
    /\ UNCHANGED <<process, pidfile, launches, history>>

StartupInit ==
    /\ pc = [p \in Proc |-> "off"]
    /\ opt = [p \in Proc |-> NoCommand]
    /\ pid = [p \in Proc |-> 0]
    /\ found = [p \in Proc |-> 0]
    /\ pidfile = [i \in Iface |-> NoFile]
    /\ foreign = {}
    /\ launches = 0
    /\ raced = FALSE /\ torn = FALSE /\ stale = {}
    /\ schema = {} /\ leases = {}

StartupNext ==
    \/ \E p \in Proc : Step(p) \/ Update(p) \/ Crash(p)
    \/ \E p \in Proc, c \in Command : Launch(p, c)
    \/ \E p \in Proc, m \in Client : Select(p, m)
    \/ \E p \in Proc, sig \in {"HUP", "TERM"} : Signal(p, sig)
    \/ Surroundings

\* A process does its next step: nothing before main_loop blocks.
StartupSpec ==
    StartupInit /\ [][StartupNext]_startup_vars /\ \A p \in Proc : WF_startup_vars(Step(p))

----------------------------------------------------------------------------
(* Properties.                                                              *)

\* The pid file does its work: unless two processes were between its check and its
\* rewriting at the same time, or were started in the foreground or on different
\* interfaces, at most one is beyond it; also when a start was cut short with the file
\* empty and when numbers are used again.
OneDaemon ==
    ~raced => \A p, q \in Proc : (pc[p] \in InStore /\ pc[q] \in InStore) => p = q

\* "The only lease record per IP allowed": so it is, over any number of starts, unless
\* the creation of the database was cut short or another process was there.
OneRecordPerIp == ~torn => OneRowEach

\* A lease that has not run out is not given to another client, be there one process
\* or several: unless the database was left without its index, or the row was updated
\* between the SELECT and the UPDATE of this process.
LeaseKept ==
    [][\A r \in leases : \A r1 \in leases' :
          (r1.id = r.id /\ ~r.over /\ r1.mac # r.mac) =>
             \/ torn
             \/ \E p \in stale : pc[p] = "update" /\ pc'[p] = "serve"]_startup_vars

\* A start comes to an end: the process serves or is gone.
StartEnds == \A p \in Proc : Running(p) ~> (pc[p] \in {"off", "serve", "update"})
=============================================================================
