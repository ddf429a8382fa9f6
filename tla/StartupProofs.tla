---------------------------- MODULE StartupProofs ----------------------------
(***************************************************************************)
(* Theorems about processes that are started, killed and started again, for *)
(* any number of processes, interfaces, process numbers, clients and        *)
(* addresses: the pid file keeps two daemons apart wherever they are not    *)
(* started at the same moment, the lease table holds one record for each    *)
(* address, and processes that share it do not give away running leases.    *)
(***************************************************************************)
EXTENDS Startup, TLAPS

----------------------------------------------------------------------------
(* The invariants.                                                          *)

\* Beyond the pid file.
Beyond == {"init", "net", "db", "create"} \cup InStore
Label == {"off", "main", "access"} \cup Window \cup Beyond

Row == [id : Nat, ip : Address, mac : Client \cup {NoClient}, over : BOOLEAN]
Selected == [mac : Client, ip : Address]
FoundType == Pid \cup {NoFile, 0} \cup (SUBSET Address) \cup Selected

\* The type of the processes and of the pid files.
ProcTyped ==
    /\ pc \in [Proc -> Label]
    /\ opt \in [Proc -> Command \cup {NoCommand}]
    /\ pid \in [Proc -> Pid \cup {0}]
    /\ found \in [Proc -> FoundType]
    /\ pidfile \in [Iface -> Pid \cup {NoFile, 0}]
    /\ raced \in BOOLEAN /\ torn \in BOOLEAN
    /\ \A p \in Proc : Running(p) => opt[p] \in Command /\ pid[p] \in Pid
    /\ \A p \in Proc : pc[p] = "fill" => found[p] \subseteq Address
    /\ \A p \in Proc : pc[p] = "update" => found[p] \in Selected

\* Unless raced: whoever runs with another is detached and on the same interface.
Alike ==
    \A p, q \in Proc : (p # q /\ Running(p) /\ Running(q)) =>
       opt[p].d /\ opt[q].d /\ opt[p].i = opt[q].i

\* One process at a time is between the check of the pid file and its rewriting.
OneInWindow == \A p, q \in Proc : (pc[p] \in Window /\ pc[q] \in Window) => p = q

\* Who is beyond the pid file is alone there, and nobody is about to rewrite it;
OneBeyond ==
    \A p, q \in Proc :
       (pc[p] \in Beyond /\ pc[q] \in Beyond \cup {"truncate", "write"}) => p = q

\* the file has its number;
FileNames ==
    \A p \in Proc : (pc[p] \in Beyond /\ opt[p].d) => pidfile[opt[p].i] = pid[p]

\* and whoever has read the file since then has read that number.
ReadNames ==
    \A p, q \in Proc : (p # q /\ pc[p] \in Beyond /\ pc[q] = "test") => found[q] = pid[p]

PidFacts == Alike /\ OneInWindow /\ OneBeyond /\ FileNames /\ ReadNames

PidInv == ~raced => PidFacts

\* A process that has the database open has a file to open.
FileThere == \A p \in Proc : pc[p] \in InStore => "file" \in schema

\* Who creates the database is alone with it.
CreatorAlone ==
    \A p, q \in Proc : (pc[p] \in Creating /\ pc[q] \in InStore) => p = q

\* Once created, the database has its index.
IndexThere ==
    ("file" \in schema /\ \A p \in Proc : pc[p] \notin Creating) => "unique" \in schema

StoreInv ==
    /\ leases \subseteq Row
    /\ FileThere
    /\ ~torn => CreatorAlone /\ IndexThere /\ OneRowEach

\* The ids differ, and one of them is the largest: what Max needs to be one more
\* than all of them.
Ids == {r.id : r \in leases} \cup {0}
IdsDiffer == \A r, q \in leases : r.id = q.id => r = q
IdsBounded == \E x \in Ids : \A y \in Ids : x >= y

\* What a process has selected and nobody has updated since is its client's or free.
SelectionHolds ==
    \A p \in Proc : (pc[p] = "update" /\ p \notin stale) =>
       \A r \in leases : r.ip = found[p].ip => (r.mac = found[p].mac \/ r.over)

RowInv == IdsDiffer /\ IdsBounded /\ (~torn => SelectionHolds)

----------------------------------------------------------------------------
(* The type of the processes.                                               *)

\* A process that moves and keeps its command line and its number.
LEMMA MoveTyped ==
  ASSUME ProcTyped, NEW p \in Proc, Running(p), NEW l \in Label, Goto(p, l),
         UNCHANGED <<opt, pid>>,
         pidfile' \in [Iface -> Pid \cup {NoFile, 0}],
         raced' \in BOOLEAN, torn' \in BOOLEAN,
         NEW x \in FoundType, found' = [found EXCEPT ![p] = x],
         l = "fill" => x \subseteq Address, l = "update" => x \in Selected
  PROVE  ProcTyped'
<1>1. pc' \in [Proc -> Label] /\ found' \in [Proc -> FoundType]
  BY DEF ProcTyped, Goto
<1>2. \A q \in Proc : Running(q)' => Running(q)
  BY DEF ProcTyped, Goto, Running
<1>3. \A q \in Proc : pc'[q] = "fill" => found'[q] \subseteq Address
  BY DEF ProcTyped, Goto
<1>4. \A q \in Proc : pc'[q] = "update" => found'[q] \in Selected
  BY DEF ProcTyped, Goto
<1> QED
  BY <1>1, <1>2, <1>3, <1>4 DEF ProcTyped

\* The same, when found is left alone.
LEMMA MoveOnTyped ==
  ASSUME ProcTyped, NEW p \in Proc, Running(p), NEW l \in Label \ {"fill", "update"}, Goto(p, l),
         UNCHANGED <<opt, pid, found>>,
         pidfile' \in [Iface -> Pid \cup {NoFile, 0}],
         raced' \in BOOLEAN, torn' \in BOOLEAN
  PROVE  ProcTyped'
<1>1. found[p] \in FoundType /\ found' = [found EXCEPT ![p] = found[p]]
  BY DEF ProcTyped
<1> QED
  BY <1>1, MoveTyped

\* A process that ends.
LEMMA ExitTyped ==
  ASSUME ProcTyped, NEW p \in Proc, Exit(p)
  PROVE  ProcTyped'
<1>1. pc' \in [Proc -> Label] /\ pid' \in [Proc -> Pid \cup {0}]
  BY DEF ProcTyped, Exit, Goto, Label
<1>2. found' \in [Proc -> FoundType] /\ opt' \in [Proc -> Command \cup {NoCommand}]
  BY DEF ProcTyped, Exit, FoundType
<1>3. \A q \in Proc : pc'[q] # "off" => /\ q # p /\ pc'[q] = pc[q] /\ opt'[q] = opt[q]
                                      /\ pid'[q] = pid[q] /\ found'[q] = found[q]
  BY DEF ProcTyped, Exit, Goto
<1>4. pidfile' = pidfile /\ raced' = raced /\ torn' \in BOOLEAN
  BY DEF Exit, ProcTyped
<1> QED
  BY <1>1, <1>2, <1>3, <1>4 DEF ProcTyped, Running

\* A process that gets its command line or its number.
LEMMA NumberTyped ==
  ASSUME ProcTyped, NEW p \in Proc, NEW l \in {"main", "access"}, Goto(p, l),
         NEW c \in Command, opt' = [opt EXCEPT ![p] = c],
         NEW n \in Pid, pid' = [pid EXCEPT ![p] = n],
         UNCHANGED <<found, pidfile, torn>>, raced' \in BOOLEAN
  PROVE  ProcTyped'
<1>1. /\ pc' \in [Proc -> Label] /\ pid' \in [Proc -> Pid \cup {0}]
      /\ opt' \in [Proc -> Command \cup {NoCommand}]
  BY DEF ProcTyped, Goto, Label
<1>2. \A q \in Proc : q = p \/ (pc'[q] = pc[q] /\ opt'[q] = opt[q] /\ pid'[q] = pid[q])
  BY DEF ProcTyped, Goto
<1>3. pc'[p] = l /\ opt'[p] = c /\ pid'[p] = n
  BY DEF ProcTyped, Goto
<1> QED
  BY <1>1, <1>2, <1>3 DEF ProcTyped, Running

\* Every label a process goes to is one.
LEMMA Labels ==
  /\ Label = {"off", "main", "access", "read", "test", "truncate", "write", "init", "net", "db",
              "create", "table", "ip_idx", "open", "fill", "serve", "update"}
  /\ Window = {"read", "test", "truncate", "write"}
  /\ Beyond = {"init", "net", "db", "create", "table", "ip_idx", "open", "fill", "serve", "update"}
  /\ InStore = {"table", "ip_idx", "open", "fill", "serve", "update"}
BY DEF Label, Window, Beyond, InStore, Creating

\* Every step keeps the processes typed.
LEMMA ProcStepTyped ==
  ASSUME ProcTyped, leases \subseteq Row, StartupNext
  PROVE  ProcTyped'
<1>1. ASSUME NEW p \in Proc, Exit(p) PROVE ProcTyped'
  BY <1>1, ExitTyped
<1>2. pidfile \in [Iface -> Pid \cup {NoFile, 0}] /\ raced \in BOOLEAN /\ torn \in BOOLEAN
  BY DEF ProcTyped
<1>3. ASSUME NEW p \in Proc, NEW l \in Label \ {"fill", "update"}, Running(p), Goto(p, l),
             UNCHANGED <<opt, pid, found, pidfile>>, raced' \in BOOLEAN, torn' \in BOOLEAN
      PROVE  ProcTyped'
  BY <1>2, <1>3, MoveOnTyped
<1>4. ASSUME NEW p \in Proc, Load(p) \/ Initialize(p) \/ NetInitialize(p) PROVE ProcTyped'
  BY <1>2, <1>3, <1>4, Labels DEF Load, Initialize, NetInitialize, Internal, history, Running
<1>5. ASSUME NEW p \in Proc, daemonize(p) PROVE ProcTyped'
  <2>1. opt[p] \in Command /\ opt \in [Proc -> Command \cup {NoCommand}]
    BY <1>5 DEF ProcTyped, daemonize, Running
  <2>2. CASE Goto(p, "access") /\ (\E n \in Pid \ Numbers : pid' = [pid EXCEPT ![p] = n])
             /\ UNCHANGED <<opt, found, pidfile, history>>
    <3>1. opt' = [opt EXCEPT ![p] = opt[p]]
      BY <2>1, <2>2
    <3> QED
      BY <1>2, <2>1, <2>2, <3>1, NumberTyped DEF history
  <2> QED
    BY <1>1, <1>5, <2>2 DEF daemonize
<1>6. ASSUME NEW p \in Proc, PidAccess(p) PROVE ProcTyped'
  BY <1>2, <1>3, <1>6, Labels DEF PidAccess, Running
<1>7. ASSUME NEW p \in Proc, PidRead(p) PROVE ProcTyped'
  <2>1. opt[p].i \in Iface
    BY <1>7 DEF ProcTyped, PidRead, Running, Command
  <2>2. PICK n \in FoundType : found' = [found EXCEPT ![p] = n]
    BY <1>2, <1>7, <2>1 DEF PidRead, FoundType
  <2> QED
    BY <1>2, <1>7, <2>2, MoveTyped, Labels DEF PidRead, Running, history
<1>8. ASSUME NEW p \in Proc, PidTest(p) PROVE ProcTyped'
  <2>1. 0 \in FoundType
    BY DEF FoundType
  <2> QED
    BY <1>1, <1>2, <1>8, <2>1, MoveTyped, Labels DEF PidTest, Running, history
<1>9. ASSUME NEW p \in Proc, PidTruncate(p) \/ PidWrite(p) PROVE ProcTyped'
  <2>1. pid[p] \in Pid
    BY <1>9 DEF ProcTyped, PidTruncate, PidWrite, Running
  <2>2. pidfile' \in [Iface -> Pid \cup {NoFile, 0}]
    BY <1>2, <1>9, <2>1 DEF PidTruncate, PidWrite
  <2> QED
    BY <1>2, <1>9, <2>2, MoveOnTyped, Labels DEF PidTruncate, PidWrite, Running, history
<1>10. ASSUME NEW p \in Proc, DbAccess(p) \/ DbCreate(p) \/ DbTable(p) \/ DbUnique(p)
       PROVE ProcTyped'
  BY <1>1, <1>2, <1>3, <1>10, Labels DEF DbAccess, DbCreate, DbTable, DbUnique, Running, history
<1>11. ASSUME NEW p \in Proc, DbOpen(p) PROVE ProcTyped'
  <2>1. Address \in FoundType
    BY DEF FoundType
  <2> QED
    BY <1>1, <1>2, <1>11, <2>1, MoveTyped, Labels DEF DbOpen, Running, history
<1>12. ASSUME NEW p \in Proc, DbFill(p) PROVE ProcTyped'
  <2>1. found[p] \subseteq Address
    BY <1>12 DEF ProcTyped, DbFill
  <2>2. PICK left \in SUBSET Address :
           /\ Goto(p, IF left = {} THEN "serve" ELSE "fill")
           /\ found' = [found EXCEPT ![p] = IF left = {} THEN 0 ELSE left]
    BY <1>12, <2>1 DEF DbFill
  <2>3. left \in FoundType /\ 0 \in FoundType
    BY DEF FoundType
  <2> QED
    BY <1>2, <1>12, <2>2, <2>3, MoveTyped, Labels DEF DbFill, Running, history
<1>13. ASSUME NEW p \in Proc, NEW m \in Client, Select(p, m) PROVE ProcTyped'
  <2>1. Candidates(m) \subseteq Address
    BY DEF Candidates, Row
  <2>2. PICK ip \in Candidates(m) : found' = [found EXCEPT ![p] = [mac |-> m, ip |-> ip]]
    BY <1>13 DEF Select
  <2> DEFINE x == [mac |-> m, ip |-> ip]
  <2>3. x \in Selected
    BY <2>1 DEF Selected
  <2>4. x \in FoundType /\ found' = [found EXCEPT ![p] = x]
    BY <2>2, <2>3 DEF FoundType
  <2> HIDE DEF x
  <2> QED
    BY <1>2, <1>13, <2>3, <2>4, MoveTyped, Labels DEF Select, Running, history
<1>14. ASSUME NEW p \in Proc, Update(p) PROVE ProcTyped'
  <2>1. 0 \in FoundType
    BY DEF FoundType
  <2> QED
    BY <1>2, <1>14, <2>1, MoveTyped, Labels DEF Update, Running
<1>15. ASSUME NEW p \in Proc, NEW c \in Command, Launch(p, c) PROVE ProcTyped'
  BY <1>2, <1>15, NumberTyped DEF Launch
<1>16. ASSUME UNCHANGED <<process, pidfile, history>> PROVE ProcTyped'
  BY <1>16 DEF ProcTyped, process, history, Running
<1>17. ASSUME NEW p \in Proc, NEW sig, Signal(p, sig) PROVE ProcTyped'
  BY <1>1, <1>16, <1>17 DEF Signal, startup_vars
<1>18. ASSUME NEW p \in Proc, Step(p) PROVE ProcTyped'
  BY <1>4, <1>5, <1>6, <1>7, <1>8, <1>9, <1>10, <1>11, <1>12, <1>18 DEF Step
<1> QED
  BY <1>1, <1>13, <1>14, <1>15, <1>16, <1>17, <1>18 DEF StartupNext, Crash, Surroundings

----------------------------------------------------------------------------
(* The pid file.                                                            *)

\* A step of p leaves the other processes where they are.
Others(p) ==
    \A q \in Proc \ {p} : /\ pc'[q] = pc[q] /\ opt'[q] = opt[q]
                          /\ pid'[q] = pid[q] /\ found'[q] = found[q]

\* A process that ends takes nothing with it.
LEMMA ExitPid ==
  ASSUME ProcTyped, PidFacts, NEW p \in Proc, Exit(p)
  PROVE  PidFacts'
<1>1. Others(p) /\ pc'[p] = "off" /\ pidfile' = pidfile
  BY DEF Exit, Goto, ProcTyped, Others
<1>2. Alike' /\ OneInWindow'
  BY <1>1, Labels DEF PidFacts, Others, Alike, OneInWindow, Running
<1>3. OneBeyond'
  BY <1>1, Labels DEF PidFacts, Others, OneBeyond
<1>4. FileNames' /\ ReadNames'
  BY <1>1, Labels DEF PidFacts, Others, FileNames, ReadNames
<1> QED
  BY <1>2, <1>3, <1>4 DEF PidFacts

\* Who is beyond the pid file may go about there.
LEMMA BeyondPid ==
  ASSUME ProcTyped, PidFacts, NEW p \in Proc, pc[p] \in Beyond, pc'[p] \in Beyond, Others(p),
         UNCHANGED <<opt, pid, pidfile>>
  PROVE  PidFacts'
<1>1. Alike' /\ OneInWindow'
  BY Labels DEF PidFacts, Others, Alike, OneInWindow, Running
<1>2. OneBeyond'
  BY Labels DEF PidFacts, Others, OneBeyond
<1>3. FileNames' /\ ReadNames'
  BY Labels DEF PidFacts, Others, FileNames, ReadNames
<1> QED
  BY <1>1, <1>2, <1>3 DEF PidFacts

\* A start, when nobody runs whom the pid file would not keep apart from it.
LEMMA LaunchPid ==
  ASSUME ProcTyped, PidFacts, NEW p \in Proc, NEW c \in Command, Launch(p, c), ~raced'
  PROVE  PidFacts'
<1>1. Others(p) /\ pc'[p] = "main" /\ opt'[p] = c /\ pidfile' = pidfile
  BY DEF Launch, Goto, ProcTyped, Others
<1>2. \A q \in Proc \ {p} : Running(q) => c.d /\ opt[q].d /\ c.i = opt[q].i
  BY DEF Launch, KeptApart
<1>3. Alike'
  BY <1>1, <1>2 DEF PidFacts, Others, Alike, Running
<1>4. OneInWindow' /\ OneBeyond'
  BY <1>1, Labels DEF PidFacts, Others, OneInWindow, OneBeyond
<1>5. FileNames' /\ ReadNames'
  BY <1>1, Labels DEF PidFacts, Others, FileNames, ReadNames
<1> QED
  BY <1>3, <1>4, <1>5 DEF PidFacts

\* A process in the foreground is the only one.
LEMMA LoadPid ==
  ASSUME ProcTyped, PidFacts, NEW p \in Proc, Load(p)
  PROVE  PidFacts'
<1>1. /\ Others(p) /\ pc[p] = "main" /\ pc'[p] = "init" /\ ~opt[p].d
      /\ UNCHANGED <<opt, pid, pidfile>>
  BY DEF Load, Internal, Goto, ProcTyped, Others
<1>2. \A q \in Proc \ {p} : pc[q] = "off"
  BY <1>1 DEF PidFacts, Alike, Running
<1> QED
  BY <1>1, <1>2, Labels
  DEF PidFacts, Others, Alike, OneInWindow, OneBeyond, FileNames, ReadNames, Running

\* The child of daemonize has another number, which nothing has named yet.
LEMMA ForkPid ==
  ASSUME ProcTyped, PidFacts, NEW p \in Proc, daemonize(p)
  PROVE  PidFacts'
<1>1. CASE Exit(p)
  BY <1>1, ExitPid
<1>2. CASE ~Exit(p)
  <2>1. /\ Others(p) /\ pc[p] = "main" /\ pc'[p] = "access"
        /\ UNCHANGED <<opt, pidfile>>
    BY <1>2 DEF daemonize, Goto, ProcTyped, Others
  <2>2. Alike' /\ OneInWindow' /\ OneBeyond'
    BY <2>1, Labels DEF PidFacts, Others, Alike, OneInWindow, OneBeyond, Running
  <2>3. FileNames' /\ ReadNames'
    BY <2>1, Labels DEF PidFacts, Others, FileNames, ReadNames
  <2> QED
    BY <2>2, <2>3 DEF PidFacts
<1> QED
  BY <1>1, <1>2

\* Who runs with a process of number n, detached, is on the interface whose pid
\* file has n in it.
LEMMA FileIsOthers ==
  ASSUME ProcTyped, PidFacts, NEW p \in Proc, NEW q \in Proc \ {p}, Running(p), pc[q] \in Beyond
  PROVE  pidfile[opt[p].i] = pid[q] /\ pid[q] \in Pid /\ pid[q] # 0 /\ pid[q] # NoFile
<1>1. Running(q)
  BY Labels DEF Running
<1>2. opt[q].d /\ opt[p].i = opt[q].i
  BY <1>1 DEF PidFacts, Alike
<1>3. pid[q] \in Pid
  BY <1>1 DEF ProcTyped
<1> QED
  BY <1>2, <1>3, PidsTyped DEF PidFacts, FileNames, NoFile

\* Nobody goes on to rewrite the file when there is one and its process is alive.
LEMMA AccessPid ==
  ASSUME ProcTyped, PidFacts, NEW p \in Proc, PidAccess(p), ~raced'
  PROVE  PidFacts'
<1>1. /\ Others(p) /\ pc[p] = "access" /\ UNCHANGED <<opt, pid, found, pidfile>>
      /\ pc'[p] = IF pidfile[opt[p].i] = NoFile THEN "truncate" ELSE "read"
  BY DEF PidAccess, Goto, ProcTyped, Others
<1>2. Running(p)
  BY <1>1 DEF Running
<1>3. \A q \in Proc \ {p} : pc[q] \notin Window
  <2> TAKE q \in Proc \ {p}
  <2>1. Running(q) => opt[q].i = opt[p].i
    BY <1>2 DEF PidFacts, Alike
  <2> QED
    BY <2>1, Labels DEF PidAccess, Running
<1>4. Alike' /\ OneInWindow'
  BY <1>1, <1>3, Labels DEF PidFacts, Others, Alike, OneInWindow, Running
<1>5. pc'[p] = "truncate" => \A q \in Proc \ {p} : pc[q] \notin Beyond
  BY <1>1, <1>2, FileIsOthers
<1>6. OneBeyond'
  BY <1>1, <1>5, Labels DEF PidFacts, Others, OneBeyond
<1>7. FileNames' /\ ReadNames'
  BY <1>1, Labels DEF PidFacts, Others, FileNames, ReadNames
<1> QED
  BY <1>4, <1>6, <1>7 DEF PidFacts

\* A file that names a process is not empty, so that its number is read.
LEMMA ReadPid ==
  ASSUME ProcTyped, PidFacts, NEW p \in Proc, PidRead(p)
  PROVE  PidFacts'
<1>1. /\ Others(p) /\ pc[p] = "read" /\ pc'[p] = "test" /\ UNCHANGED <<opt, pid, pidfile>>
      /\ pidfile[opt[p].i] # 0 => found'[p] = pidfile[opt[p].i]
  BY DEF PidRead, Goto, ProcTyped, Others
<1>2. \A q \in Proc \ {p} : pc[q] \in Beyond => found'[p] = pid[q]
  BY <1>1, FileIsOthers DEF Running
<1>3. Alike' /\ OneInWindow'
  BY <1>1, Labels DEF PidFacts, Others, Alike, OneInWindow, Running
<1>4. OneBeyond'
  BY <1>1, Labels DEF PidFacts, Others, OneBeyond
<1>5. FileNames' /\ ReadNames'
  BY <1>1, <1>2, Labels DEF PidFacts, Others, FileNames, ReadNames
<1> QED
  BY <1>3, <1>4, <1>5 DEF PidFacts

\* The process whose number was read answers, as long as it is there.
LEMMA TestPid ==
  ASSUME ProcTyped, PidFacts, NEW p \in Proc, PidTest(p)
  PROVE  PidFacts'
<1>1. CASE Exit(p)
  BY <1>1, ExitPid
<1>2. CASE ~Answers(found[p])
  <2>1. /\ Others(p) /\ pc[p] = "test" /\ pc'[p] = "truncate" /\ UNCHANGED <<opt, pid, pidfile>>
    BY <1>2 DEF PidTest, Goto, ProcTyped, Others
  <2>2. \A q \in Proc \ {p} : pc[q] \notin Beyond
    <3> SUFFICES ASSUME NEW q \in Proc \ {p}, pc[q] \in Beyond PROVE FALSE
      OBVIOUS
    <3>1. found[p] = pid[q] /\ Running(q)
      BY <2>1, Labels DEF PidFacts, ReadNames, Running
    <3> QED
      BY <1>2, <3>1 DEF Answers, Numbers
  <2>3. Alike' /\ OneInWindow'
    BY <2>1, Labels DEF PidFacts, Others, Alike, OneInWindow, Running
  <2>4. OneBeyond'
    BY <2>1, <2>2, Labels DEF PidFacts, Others, OneBeyond
  <2>5. FileNames' /\ ReadNames'
    BY <2>1, Labels DEF PidFacts, Others, FileNames, ReadNames
  <2> QED
    BY <2>3, <2>4, <2>5 DEF PidFacts
<1> QED
  BY <1>1, <1>2 DEF PidTest

\* Who rewrites the file is the only one about to, and nobody is beyond it.
LEMMA WritePid ==
  ASSUME ProcTyped, PidFacts, NEW p \in Proc, PidTruncate(p) \/ PidWrite(p)
  PROVE  PidFacts'
<1>1. /\ Others(p) /\ pc[p] \in {"truncate", "write"} /\ UNCHANGED <<opt, pid>>
      /\ \/ pc'[p] = "write"
         \/ pc'[p] = "init" /\ pidfile' = [pidfile EXCEPT ![opt[p].i] = pid[p]]
  BY DEF PidTruncate, PidWrite, Goto, ProcTyped, Others
<1>2. \A q \in Proc \ {p} : pc[q] \notin Beyond /\ pc[q] \notin Window
  BY <1>1, Labels DEF PidFacts, OneBeyond, OneInWindow
<1>3. opt[p].i \in Iface /\ pidfile \in [Iface -> Pid \cup {NoFile, 0}]
  BY <1>1 DEF ProcTyped, Running, Command
<1>4. Alike' /\ OneInWindow' /\ OneBeyond'
  BY <1>1, <1>2, Labels DEF PidFacts, Others, Alike, OneInWindow, OneBeyond, Running
<1>5. FileNames'
  BY <1>1, <1>2, <1>3, Labels DEF Others, FileNames
<1>6. ReadNames'
  BY <1>1, <1>2, Labels DEF Others, ReadNames
<1> QED
  BY <1>4, <1>5, <1>6 DEF PidFacts

\* Every step.
LEMMA PidStep ==
  ASSUME ProcTyped, PidInv, StartupNext
  PROVE  PidInv'
<1> SUFFICES ASSUME ~raced' PROVE PidFacts'
  BY DEF PidInv
<1>1. ~raced
  BY DEF StartupNext, Step, Load, daemonize, PidAccess, PidRead, PidTest, PidTruncate, PidWrite,
         Initialize, NetInitialize, DbAccess, DbCreate, DbTable, DbUnique, DbOpen, DbFill,
         Update, Crash, Launch, Select, Signal, Surroundings, Exit, Internal, history,
         startup_vars
<1>2. PidFacts
  BY <1>1 DEF PidInv
<1>3. ASSUME NEW p \in Proc, Exit(p) PROVE PidFacts'
  BY <1>2, <1>3, ExitPid
<1>4. ASSUME NEW p \in Proc, Initialize(p) \/ NetInitialize(p) PROVE PidFacts'
  BY <1>2, <1>4, BeyondPid, Labels
  DEF Initialize, NetInitialize, Internal, Goto, ProcTyped, Others
<1>5. ASSUME NEW p \in Proc, DbAccess(p) \/ DbCreate(p) \/ DbTable(p) \/ DbUnique(p)
      PROVE PidFacts'
  BY <1>2, <1>3, <1>5, BeyondPid, Labels
  DEF DbAccess, DbCreate, DbTable, DbUnique, Goto, ProcTyped, Others
<1>6. ASSUME NEW p \in Proc, DbOpen(p) PROVE PidFacts'
  BY <1>2, <1>3, <1>6, BeyondPid, Labels DEF DbOpen, Goto, ProcTyped, Others
<1>7. ASSUME NEW p \in Proc, DbFill(p) PROVE PidFacts'
  <2>1. /\ pc[p] = "fill" /\ UNCHANGED <<opt, pid, pidfile>>
        /\ \E l \in {"serve", "fill"} : pc' = [pc EXCEPT ![p] = l]
        /\ \E x : found' = [found EXCEPT ![p] = x]
    BY <1>7 DEF DbFill, Goto
  <2> QED
    BY <1>2, <2>1, BeyondPid, Labels DEF ProcTyped, Others
<1>8. ASSUME NEW p \in Proc, Update(p) \/ \E m \in Client : Select(p, m) PROVE PidFacts'
  <2>1. /\ pc[p] \in {"serve", "update"} /\ UNCHANGED <<opt, pid, pidfile>>
        /\ \E l \in {"serve", "update"} : pc' = [pc EXCEPT ![p] = l]
        /\ \E x : found' = [found EXCEPT ![p] = x]
    BY <1>8 DEF Update, Select, Goto
  <2> QED
    BY <1>2, <2>1, BeyondPid, Labels DEF ProcTyped, Others
<1>9. ASSUME UNCHANGED <<process, pidfile>> PROVE PidFacts'
  BY <1>2, <1>9
  DEF PidFacts, Alike, OneInWindow, OneBeyond, FileNames, ReadNames, Running, process
<1>10. ASSUME NEW p \in Proc, NEW sig, Signal(p, sig) PROVE PidFacts'
  BY <1>3, <1>9, <1>10 DEF Signal, startup_vars
<1>11. ASSUME NEW p \in Proc, Step(p) PROVE PidFacts'
  BY <1>2, <1>4, <1>5, <1>6, <1>7, <1>11, LoadPid, ForkPid, AccessPid, ReadPid, TestPid, WritePid
  DEF Step
<1> QED
  BY <1>2, <1>3, <1>8, <1>9, <1>10, <1>11, LaunchPid DEF StartupNext, Crash, Surroundings

----------------------------------------------------------------------------
(* The statements on the lease table.                                       *)

\* g says what becomes of each row: it keeps its id and its address.
Rewrites(g) ==
    /\ g \in [leases -> Row]
    /\ leases' = {g[r] : r \in leases}
    /\ \A r \in leases : g[r].id = r.id /\ g[r].ip = r.ip

\* An UPDATE of one address rewrites the rows.
LEMMA UpdateRewrites ==
  ASSUME leases \subseteq Row, NEW m \in Client, NEW ip \in Address, UpdateLease(m, ip)
  PROVE  \E g : /\ Rewrites(g)
                /\ \A r \in leases : IF r.ip = ip THEN g[r].mac = m ELSE g[r] = r
<1> DEFINE g == [r \in leases |-> IF r.ip = ip THEN [r EXCEPT !.mac = m, !.over = FALSE] ELSE r]
<1>1. ASSUME NEW r \in leases
      PROVE  /\ [r EXCEPT !.mac = m, !.over = FALSE] \in Row
             /\ [r EXCEPT !.mac = m, !.over = FALSE].id = r.id
             /\ [r EXCEPT !.mac = m, !.over = FALSE].ip = r.ip
             /\ [r EXCEPT !.mac = m, !.over = FALSE].mac = m
  BY <1>1 DEF Row
<1>2. g \in [leases -> Row]
  BY <1>1
<1>3. leases' = {g[r] : r \in leases}
  BY DEF UpdateLease
<1>4. \A r \in leases : /\ g[r].id = r.id /\ g[r].ip = r.ip
                        /\ IF r.ip = ip THEN g[r].mac = m ELSE g[r] = r
  BY <1>1
<1> HIDE DEF g
<1> QED
  BY <1>2, <1>3, <1>4 DEF Rewrites

\* So does the passing of time, and it changes no owner.
LEMMA RunOutRewrites ==
  ASSUME leases \subseteq Row, NEW ip \in Address, RunOut(ip)
  PROVE  \E g : /\ Rewrites(g)
                /\ \A r \in leases : g[r].mac = r.mac /\ (r.over => g[r].over)
<1> DEFINE g == [r \in leases |-> IF r.ip = ip THEN [r EXCEPT !.over = TRUE] ELSE r]
<1>1. ASSUME NEW r \in leases
      PROVE  /\ [r EXCEPT !.over = TRUE] \in Row
             /\ [r EXCEPT !.over = TRUE].id = r.id
             /\ [r EXCEPT !.over = TRUE].ip = r.ip
             /\ [r EXCEPT !.over = TRUE].mac = r.mac
             /\ [r EXCEPT !.over = TRUE].over = TRUE
  BY <1>1 DEF Row
<1>2. g \in [leases -> Row]
  BY <1>1
<1>3. leases' = {g[r] : r \in leases}
  BY DEF RunOut
<1>4. \A r \in leases : /\ g[r].id = r.id /\ g[r].ip = r.ip
                        /\ g[r].mac = r.mac /\ (r.over => g[r].over)
  BY <1>1
<1> HIDE DEF g
<1> QED
  BY <1>2, <1>3, <1>4 DEF Rewrites

\* Rewriting makes no two rows of one address and no two of one id.
LEMMA RewriteKeeps ==
  ASSUME NEW g, Rewrites(g)
  PROVE  /\ leases' \subseteq Row
         /\ OneRowEach => OneRowEach'
         /\ IdsDiffer => IdsDiffer'
         /\ IdsBounded => IdsBounded'
<1>1. leases' \subseteq Row
  BY DEF Rewrites
<1>2. OneRowEach => OneRowEach'
  BY DEF Rewrites, OneRowEach
<1>3. IdsDiffer => IdsDiffer'
  BY DEF Rewrites, IdsDiffer
<1>4. Ids' = Ids
  BY DEF Rewrites, Ids
<1>5. IdsBounded => IdsBounded'
  BY <1>4 DEF IdsBounded
<1> QED
  BY <1>1, <1>2, <1>3, <1>5

\* The id of a new row is larger than all others.
LEMMA NewIdFresh ==
  ASSUME leases \subseteq Row, IdsBounded
  PROVE  NewId \in Nat /\ \A y \in Ids : NewId > y
<1>1. Ids \subseteq Nat
  BY DEF Ids, Row
<1>2. Max(Ids) \in Ids /\ \A y \in Ids : Max(Ids) >= y
  BY DEF IdsBounded, Max
<1>3. NewId = Max(Ids) + 1
  BY DEF NewId, Ids
<1>4. PICK x \in Ids : x = Max(Ids) /\ \A y \in Ids : x >= y
  BY <1>2
<1>5. x \in Nat /\ NewId = x + 1
  BY <1>1, <1>3, <1>4
<1>6. \A y \in Ids : y \in Nat /\ x >= y
  BY <1>1, <1>4
<1> QED
  BY <1>5, <1>6

\* An INSERT leaves every row as it is, and a new one is free and has a new id.
LEMMA PopulateAdds ==
  ASSUME leases \subseteq Row, IdsDiffer, IdsBounded, NEW ip \in Address, Populate(ip)
  PROVE  /\ leases \subseteq leases' /\ leases' \subseteq Row
         /\ \A r \in leases' \ leases : r.over /\ \A q \in leases : q.id # r.id
         /\ IdsDiffer' /\ IdsBounded'
         /\ (OneRowEach /\ "unique" \in schema) => OneRowEach'
<1> DEFINE new == [id |-> NewId, ip |-> ip, mac |-> NoClient, over |-> TRUE]
<1>1. NewId \in Nat /\ \A y \in Ids : NewId > y
  BY NewIdFresh
<1>2. new \in Row /\ new.id = NewId /\ new.over /\ new.ip = ip
  BY <1>1 DEF Row
<1>3. leases' = leases \/ leases' = leases \cup {new}
  BY DEF Populate
<1>4. ("unique" \in schema /\ Taken(ip)) => leases' = leases
  BY DEF Populate
<1> HIDE DEF new
<1>5. Ids \subseteq Nat /\ \A q \in leases : q.id \in Ids /\ q.id # NewId
  BY <1>1 DEF Ids, Row
<1>6. leases' \subseteq Row /\ leases \subseteq leases'
  BY <1>2, <1>3
<1>7. \A r \in leases' \ leases : r = new
  BY <1>3
<1>8. \A r \in leases' \ leases : r.over /\ \A q \in leases : q.id # r.id
  BY <1>2, <1>5, <1>7
<1>9. IdsDiffer'
  BY <1>2, <1>3, <1>5 DEF IdsDiffer
<1>10. IdsBounded'
  <2>1. CASE leases' = leases
    BY <2>1 DEF IdsBounded, Ids
  <2>2. CASE leases' = leases \cup {new}
    <3>1. Ids' = Ids \cup {NewId}
      BY <1>2, <2>2 DEF Ids
    <3>2. NewId >= NewId /\ \A y \in Ids : NewId >= y
      BY <1>1, <1>5
    <3> QED
      BY <3>1, <3>2 DEF IdsBounded
  <2> QED
    BY <1>3, <2>1, <2>2
<1>11. (OneRowEach /\ "unique" \in schema) => OneRowEach'
  BY <1>2, <1>3, <1>4 DEF OneRowEach, Taken
<1> QED
  BY <1>6, <1>8, <1>9, <1>10, <1>11

----------------------------------------------------------------------------
(* The lease table, created and filled by processes.                        *)

DataInv == StoreInv /\ RowInv

\* p moves, and the others stay where they are.
Moves(p) ==
    \A q \in Proc \ {p} : pc'[q] = pc[q] /\ found'[q] = found[q]

\* A process that is not and does not come into the database.
LEMMA OutsideData ==
  ASSUME ProcTyped, DataInv, NEW p \in Proc, pc[p] \notin InStore, pc'[p] \notin InStore,
         Moves(p), UNCHANGED <<store_vars, torn, stale>>
  PROVE  DataInv'
<1>1. FileThere' /\ (CreatorAlone => CreatorAlone') /\ (IndexThere => IndexThere')
  BY Labels DEF DataInv, StoreInv, Moves, FileThere, CreatorAlone, IndexThere, store_vars, Creating
<1>2. SelectionHolds => SelectionHolds'
  BY Labels DEF Moves, SelectionHolds, store_vars
<1> QED
  BY <1>1, <1>2
  DEF DataInv, StoreInv, RowInv, store_vars, OneRowEach, IdsDiffer, IdsBounded, Ids

\* Whoever ends in the middle of the creation leaves torn behind.
LEMMA ExitData ==
  ASSUME ProcTyped, DataInv, NEW p \in Proc, Exit(p)
  PROVE  DataInv'
<1>1. /\ Moves(p) /\ pc'[p] = "off" /\ UNCHANGED store_vars
      /\ torn' = (torn \/ pc[p] \in Creating) /\ stale' = stale \ {p}
  BY DEF Exit, Goto, ProcTyped, Moves
<1>2. FileThere' /\ (CreatorAlone => CreatorAlone')
  BY <1>1, Labels DEF DataInv, StoreInv, Moves, FileThere, CreatorAlone, store_vars, Creating
<1>3. (pc[p] \notin Creating /\ IndexThere) => IndexThere'
  BY <1>1 DEF Moves, IndexThere, store_vars
<1>4. SelectionHolds => SelectionHolds'
  BY <1>1 DEF Moves, SelectionHolds, store_vars
<1> QED
  BY <1>1, <1>2, <1>3, <1>4
  DEF DataInv, StoreInv, RowInv, store_vars, OneRowEach, IdsDiffer, IdsBounded, Ids

\* A step that changes no row, where the conditions on the schema are kept.
LEMMA SchemaData ==
  ASSUME ProcTyped, DataInv, NEW p \in Proc, pc[p] # "update", pc'[p] # "update", Moves(p),
         UNCHANGED <<leases, stale>>, ~torn' => ~torn,
         FileThere', ~torn' => CreatorAlone' /\ IndexThere'
  PROVE  DataInv'
<1>1. SelectionHolds => SelectionHolds'
  BY DEF Moves, SelectionHolds
<1> QED
  BY <1>1 DEF DataInv, StoreInv, RowInv, OneRowEach, IdsDiffer, IdsBounded, Ids

\* Whoever comes into a database that is being created is a reason to call it torn.
LEMMA AccessData ==
  ASSUME ProcTyped, DataInv, NEW p \in Proc, DbAccess(p)
  PROVE  DataInv'
<1>1. /\ Moves(p) /\ pc[p] = "db" /\ UNCHANGED <<store_vars, stale>>
      /\ pc'[p] = IF "file" \in schema THEN "open" ELSE "create"
      /\ torn' = (torn \/ \E q \in Proc \ {p} : pc[q] \in Creating)
  BY DEF DbAccess, Goto, ProcTyped, Moves
<1>2. FileThere'
  BY <1>1, Labels DEF DataInv, StoreInv, Moves, FileThere, store_vars
<1>3. ~torn' => CreatorAlone'
  BY <1>1, Labels DEF DataInv, StoreInv, Moves, CreatorAlone, Creating
<1>4. ~torn' => IndexThere'
  BY <1>1 DEF DataInv, StoreInv, Moves, IndexThere, store_vars, Creating
<1> QED
  BY <1>1, <1>2, <1>3, <1>4, SchemaData DEF store_vars

\* The file appears: from now on p is creating.
LEMMA CreateData ==
  ASSUME ProcTyped, DataInv, NEW p \in Proc, DbCreate(p)
  PROVE  DataInv'
<1>1. /\ Moves(p) /\ pc[p] = "create" /\ pc'[p] = "table" /\ UNCHANGED <<leases, stale>>
      /\ schema' = schema \cup {"file"}
      /\ torn' = (torn \/ \E q \in Proc \ {p} : pc[q] \in InStore)
  BY DEF DbCreate, CreateFile, Goto, ProcTyped, Moves
<1>2. FileThere'
  BY <1>1 DEF FileThere
<1>3. ~torn' => CreatorAlone'
  BY <1>1, Labels DEF Moves, CreatorAlone, Creating
<1>4. IndexThere'
  BY <1>1 DEF IndexThere, Creating
<1> QED
  BY <1>1, <1>2, <1>3, <1>4, SchemaData

\* The table; a second creator fails here, in the middle of the creation.
LEMMA TableData ==
  ASSUME ProcTyped, DataInv, NEW p \in Proc, DbTable(p)
  PROVE  DataInv'
<1>1. CASE Exit(p)
  BY <1>1, ExitData
<1>2. CASE ~Exit(p)
  <2>1. /\ Moves(p) /\ pc[p] = "table" /\ pc'[p] = "ip_idx" /\ UNCHANGED <<leases, stale, torn>>
        /\ schema' = schema \cup {"table"}
    BY <1>2 DEF DbTable, CreateTable, Goto, ProcTyped, Moves, history
  <2>2. FileThere'
    BY <2>1, Labels DEF DataInv, StoreInv, Moves, FileThere
  <2>3. CreatorAlone => CreatorAlone'
    BY <2>1, Labels DEF Moves, CreatorAlone, Creating
  <2>4. IndexThere'
    BY <2>1 DEF IndexThere, Creating
  <2> QED
    BY <2>1, <2>2, <2>3, <2>4, SchemaData DEF DataInv, StoreInv
<1> QED
  BY <1>1, <1>2

\* The index: it cannot fail when the creator is alone and no address has two rows.
LEMMA UniqueData ==
  ASSUME ProcTyped, DataInv, NEW p \in Proc, DbUnique(p)
  PROVE  DataInv'
<1> DEFINE busy == \E q \in Proc \ {p} : pc[q] \in InStore
<1>1. /\ Moves(p) /\ pc[p] = "ip_idx" /\ pc'[p] = "open" /\ UNCHANGED <<leases, stale, torn>>
      /\ schema \subseteq schema'
      /\ (OneRowEach /\ ~busy) => "unique" \in schema'
  BY DEF DbUnique, CreateUniqueIndex, Goto, ProcTyped, Moves, history
<1>2. FileThere'
  BY <1>1, Labels DEF DataInv, StoreInv, Moves, FileThere
<1>3. CreatorAlone => CreatorAlone'
  BY <1>1, Labels DEF Moves, CreatorAlone, Creating
<1>4. ~torn => "unique" \in schema'
  <2>1. CreatorAlone => ~busy
    BY <1>1, Labels DEF CreatorAlone, Creating
  <2> QED
    BY <1>1, <2>1 DEF DataInv, StoreInv
<1>5. ~torn => IndexThere'
  BY <1>4 DEF IndexThere
<1> QED
  BY <1>1, <1>2, <1>3, <1>5, SchemaData DEF DataInv, StoreInv

\* A process in the database that changes neither the schema nor who creates.
LEMMA StoreKept ==
  ASSUME ProcTyped, StoreInv, NEW p \in Proc, UNCHANGED <<schema, torn>>,
         pc[p] \in InStore \ Creating, pc'[p] \in InStore \ Creating,
         Moves(p), leases' \subseteq Row, ~torn => OneRowEach'
  PROVE  StoreInv'
<1>1. FileThere' /\ (CreatorAlone => CreatorAlone') /\ (IndexThere => IndexThere')
  BY DEF StoreInv, Moves, FileThere, CreatorAlone, IndexThere
<1> QED
  BY <1>1 DEF StoreInv

\* Whoever is in the database and does not create it finds the index.
LEMMA UserFindsIndex ==
  ASSUME StoreInv, ~torn, NEW p \in Proc, pc[p] \in InStore \ Creating
  PROVE  "unique" \in schema
<1>1. "file" \in schema
  BY DEF StoreInv, FileThere
<1>2. \A q \in Proc : pc[q] \notin Creating
  BY DEF StoreInv, CreatorAlone
<1> QED
  BY <1>1, <1>2 DEF StoreInv, IndexThere

\* The database is opened, or there is no table in it.
LEMMA OpenData ==
  ASSUME ProcTyped, DataInv, NEW p \in Proc, DbOpen(p)
  PROVE  DataInv'
<1>1. CASE Exit(p)
  BY <1>1, ExitData
<1>2. CASE ~Exit(p)
  <2>1. /\ Moves(p) /\ pc[p] = "open" /\ pc'[p] = "fill"
        /\ UNCHANGED <<schema, leases, stale, torn>>
    BY <1>2 DEF DbOpen, Goto, ProcTyped, Moves, history, store_vars
  <2>2. StoreInv'
    BY <2>1, StoreKept, Labels DEF DataInv, StoreInv, OneRowEach, Creating
  <2>3. SelectionHolds => SelectionHolds'
    BY <2>1 DEF Moves, SelectionHolds
  <2> QED
    BY <2>1, <2>2, <2>3 DEF DataInv, RowInv, IdsDiffer, IdsBounded, Ids
<1> QED
  BY <1>1, <1>2

\* A range is populated: the index refuses a second row of an address.
LEMMA FillData ==
  ASSUME ProcTyped, DataInv, NEW p \in Proc, DbFill(p)
  PROVE  DataInv'
<1>1. pc[p] = "fill" /\ found[p] \subseteq Address
  BY DEF DbFill, ProcTyped
<1>2. PICK ip \in Address : Populate(ip)
  BY <1>1 DEF DbFill
<1>3. /\ Moves(p) /\ pc'[p] \in {"serve", "fill"} /\ UNCHANGED <<schema, stale, torn>>
  <2>1. /\ \E l \in {"serve", "fill"} : pc' = [pc EXCEPT ![p] = l]
        /\ \E x : found' = [found EXCEPT ![p] = x]
        /\ UNCHANGED <<stale, torn>>
    BY DEF DbFill, Goto, history
  <2> QED
    BY <1>2, <2>1 DEF ProcTyped, Moves, Populate
<1>4. /\ leases \subseteq leases' /\ leases' \subseteq Row
      /\ \A r \in leases' \ leases : r.over
      /\ IdsDiffer' /\ IdsBounded'
      /\ (OneRowEach /\ "unique" \in schema) => OneRowEach'
  BY <1>2, PopulateAdds DEF DataInv, StoreInv, RowInv
<1>5. ~torn => OneRowEach'
  BY <1>1, <1>4, UserFindsIndex, Labels DEF DataInv, StoreInv, Creating
<1>6. StoreInv'
  BY <1>1, <1>3, <1>4, <1>5, StoreKept, Labels DEF DataInv, Creating
<1>7. SelectionHolds => SelectionHolds'
  BY <1>1, <1>3, <1>4 DEF Moves, SelectionHolds
<1> QED
  BY <1>3, <1>4, <1>6, <1>7 DEF DataInv, RowInv

\* What is selected is the client's or free, in every row of the address.
LEMMA SelectData ==
  ASSUME ProcTyped, DataInv, NEW p \in Proc, NEW m \in Client, Select(p, m)
  PROVE  DataInv'
<1>1. PICK ip \in Candidates(m) : found' = [found EXCEPT ![p] = [mac |-> m, ip |-> ip]]
  BY DEF Select
<1>2. /\ Moves(p) /\ pc[p] = "serve" /\ pc'[p] = "update"
      /\ found'[p].mac = m /\ found'[p].ip = ip
      /\ UNCHANGED <<schema, leases, stale, torn>>
  BY <1>1 DEF Select, Goto, ProcTyped, Moves, history, store_vars
<1>3. StoreInv'
  BY <1>2, StoreKept, Labels DEF DataInv, StoreInv, OneRowEach, Creating
<1>4. PICK q \in leases : q.ip = ip /\ (q.mac = m \/ q.over)
  BY DEF Candidates
<1>5. OneRowEach => \A r \in leases : r.ip = ip => (r.mac = m \/ r.over)
  BY <1>4 DEF OneRowEach
<1>6. (OneRowEach /\ SelectionHolds) => SelectionHolds'
  BY <1>2, <1>5 DEF Moves, SelectionHolds
<1> QED
  BY <1>2, <1>3, <1>6 DEF DataInv, StoreInv, RowInv, IdsDiffer, IdsBounded, Ids

\* An UPDATE makes the selections of the same address stale.
LEMMA UpdateData ==
  ASSUME ProcTyped, DataInv, NEW p \in Proc, Update(p)
  PROVE  DataInv'
<1> DEFINE m == found[p].mac
           ip == found[p].ip
<1>1. m \in Client /\ ip \in Address
  BY DEF Update, ProcTyped, Selected
<1>2. /\ Moves(p) /\ pc[p] = "update" /\ pc'[p] = "serve" /\ UNCHANGED <<schema, torn>>
      /\ UpdateLease(m, ip)
      /\ stale' = (stale \ {p}) \cup {q \in Proc \ {p} : pc[q] = "update" /\ found[q].ip = ip}
  BY DEF Update, UpdateLease, Goto, ProcTyped, Moves
<1>3. PICK g : /\ Rewrites(g)
               /\ \A r \in leases : IF r.ip = ip THEN g[r].mac = m ELSE g[r] = r
  <2>1. PICK n \in Client, a \in Address : n = m /\ a = ip
    BY <1>1
  <2>2. UpdateLease(n, a)
    BY <1>2, <2>1 DEF UpdateLease
  <2> QED
    BY <2>1, <2>2, UpdateRewrites DEF DataInv, StoreInv
<1>4. /\ leases' \subseteq Row /\ (OneRowEach => OneRowEach')
      /\ (IdsDiffer => IdsDiffer') /\ (IdsBounded => IdsBounded')
  BY <1>3, RewriteKeeps
<1>5. StoreInv'
  BY <1>2, <1>4, StoreKept, Labels DEF DataInv, StoreInv, Creating
<1>6. SelectionHolds => SelectionHolds'
  <2> SUFFICES ASSUME SelectionHolds, NEW q \in Proc, pc'[q] = "update", q \notin stale',
                      NEW r1 \in leases', r1.ip = found'[q].ip
               PROVE  r1.mac = found'[q].mac \/ r1.over
    BY DEF SelectionHolds
  <2>1. /\ q # p /\ pc[q] = "update" /\ found'[q] = found[q] /\ q \notin stale
        /\ found[q].ip # ip
    BY <1>2 DEF Moves
  <2>2. PICK r \in leases : r1 = g[r] /\ r1.ip = r.ip
    BY <1>3 DEF Rewrites
  <2>3. r1 = r
    BY <1>3, <2>1, <2>2
  <2> QED
    BY <2>1, <2>3 DEF SelectionHolds
<1> QED
  BY <1>2, <1>4, <1>5, <1>6 DEF DataInv, RowInv

\* Time passes, and numbers of other processes come and go.
LEMMA SurroundingsData ==
  ASSUME ProcTyped, DataInv, Surroundings
  PROVE  DataInv'
<1>1. UNCHANGED <<pc, found, stale, torn>>
  BY DEF Surroundings, process, history
<1>2. CASE UNCHANGED store_vars
  BY <1>1, <1>2
  DEF DataInv, StoreInv, RowInv, store_vars, FileThere, CreatorAlone, IndexThere, OneRowEach,
      IdsDiffer, IdsBounded, Ids, SelectionHolds
<1>3. ASSUME NEW ip \in Address, RunOut(ip) PROVE DataInv'
  <2>1. PICK g : /\ Rewrites(g)
                 /\ \A r \in leases : g[r].mac = r.mac /\ (r.over => g[r].over)
    BY <1>3, RunOutRewrites DEF DataInv, StoreInv
  <2>2. /\ leases' \subseteq Row /\ (OneRowEach => OneRowEach')
        /\ (IdsDiffer => IdsDiffer') /\ (IdsBounded => IdsBounded')
    BY <2>1, RewriteKeeps
  <2>3. schema' = schema
    BY <1>3 DEF RunOut
  <2>4. SelectionHolds => SelectionHolds'
    BY <1>1, <2>1 DEF SelectionHolds, Rewrites
  <2> QED
    BY <1>1, <2>2, <2>3, <2>4
    DEF DataInv, StoreInv, RowInv, FileThere, CreatorAlone, IndexThere
<1> QED
  BY <1>2, <1>3 DEF Surroundings

\* Every step.
LEMMA DataStep ==
  ASSUME ProcTyped, DataInv, StartupNext
  PROVE  DataInv'
<1>1. ASSUME NEW p \in Proc, Load(p) \/ Initialize(p) \/ NetInitialize(p) PROVE DataInv'
  BY <1>1, OutsideData, Labels
  DEF Load, Initialize, NetInitialize, Internal, Goto, ProcTyped, Moves, history
<1>2. ASSUME NEW p \in Proc, daemonize(p) PROVE DataInv'
  BY <1>2, OutsideData, ExitData, Labels DEF daemonize, Goto, ProcTyped, Moves, history
<1>3. ASSUME NEW p \in Proc, PidAccess(p) \/ PidTruncate(p) \/ PidWrite(p) PROVE DataInv'
  BY <1>3, OutsideData, Labels
  DEF PidAccess, PidTruncate, PidWrite, Goto, ProcTyped, Moves, history
<1>4. ASSUME NEW p \in Proc, PidRead(p) PROVE DataInv'
  BY <1>4, OutsideData, Labels DEF PidRead, Goto, ProcTyped, Moves, history
<1>5. ASSUME NEW p \in Proc, PidTest(p) PROVE DataInv'
  BY <1>5, OutsideData, ExitData, Labels DEF PidTest, Goto, ProcTyped, Moves, history
<1>6. ASSUME NEW p \in Proc, NEW c \in Command, Launch(p, c) PROVE DataInv'
  BY <1>6, OutsideData, Labels DEF Launch, Goto, ProcTyped, Moves
<1>7. ASSUME NEW p \in Proc, NEW sig, Signal(p, sig) PROVE DataInv'
  <2>1. CASE UNCHANGED startup_vars
    BY <2>1 DEF startup_vars, process, history, store_vars, DataInv, StoreInv, RowInv, FileThere,
                CreatorAlone, IndexThere, OneRowEach, IdsDiffer, IdsBounded, Ids, SelectionHolds
  <2> QED
    BY <1>7, <2>1, ExitData DEF Signal
<1>8. ASSUME NEW p \in Proc, Step(p) PROVE DataInv'
  BY <1>1, <1>2, <1>3, <1>4, <1>5, <1>8, AccessData, CreateData, TableData, UniqueData, OpenData,
     FillData
  DEF Step
<1> QED
  BY <1>6, <1>7, <1>8, ExitData, SelectData, UpdateData, SurroundingsData DEF StartupNext, Crash

----------------------------------------------------------------------------
(* The theorems.  They are about safety: the fairness of StartupSpec is not *)
(* used.                                                                    *)

StartupInv == ProcTyped /\ PidInv /\ DataInv

\* The invariant is inductive: in every order in which processes are started, read
\* and rewrite the pid file, create, fill and use the database, and die.
THEOREM StartupInvariant == StartupSpec => []StartupInv
<1>1. StartupInit => StartupInv
  <2> SUFFICES ASSUME StartupInit PROVE StartupInv
    OBVIOUS
  <2>1. ProcTyped
    <3>1. 0 \in FoundType
      BY DEF FoundType
    <3> QED
      BY <3>1, Labels DEF StartupInit, ProcTyped, Running
  <2>2. PidInv
    BY Labels DEF StartupInit, PidInv, PidFacts, Alike, OneInWindow, OneBeyond, FileNames,
                  ReadNames, Running
  <2>3. StoreInv
    BY Labels DEF StartupInit, StoreInv, FileThere, CreatorAlone, IndexThere, OneRowEach
  <2>4. IdsBounded
    <3>1. Ids = {0}
      BY DEF StartupInit, Ids
    <3> QED
      BY <3>1 DEF IdsBounded
  <2>5. RowInv
    BY <2>4 DEF StartupInit, RowInv, IdsDiffer, SelectionHolds
  <2> QED
    BY <2>1, <2>2, <2>3, <2>5 DEF StartupInv, DataInv
<1>2. StartupInv /\ StartupNext => StartupInv'
  BY ProcStepTyped, PidStep, DataStep DEF StartupInv, DataInv, StoreInv
<1>3. StartupInv /\ UNCHANGED startup_vars => StartupInv'
  <2> SUFFICES ASSUME StartupInv, UNCHANGED startup_vars PROVE StartupInv'
    OBVIOUS
  <2>1. UNCHANGED <<pc, opt, pid, found, pidfile, raced, torn, stale, schema, leases>>
    BY DEF startup_vars, process, history, store_vars
  <2>2. ProcTyped'
    BY <2>1 DEF StartupInv, ProcTyped, Running
  <2>3. PidInv'
    BY <2>1 DEF StartupInv, PidInv, PidFacts, Alike, OneInWindow, OneBeyond, FileNames,
                ReadNames, Running
  <2>4. DataInv'
    BY <2>1 DEF StartupInv, DataInv, StoreInv, RowInv, FileThere, CreatorAlone, IndexThere,
                OneRowEach, IdsDiffer, IdsBounded, Ids, SelectionHolds
  <2> QED
    BY <2>2, <2>3, <2>4 DEF StartupInv
<1>4. StartupInv /\ [StartupNext]_startup_vars => StartupInv'
  BY <1>2, <1>3
<1> QED
  BY <1>1, <1>4, PTL DEF StartupSpec

\* At most one process is in the lease database, unless two were started in the
\* foreground, on different interfaces, or passed the pid file at the same moment:
\* for any number of starts, deaths and reused process numbers, and with the file
\* left empty by a start that was cut short.
THEOREM PidFileWorks == StartupSpec => []OneDaemon
<1>1. StartupInv => OneDaemon
  BY Labels DEF StartupInv, PidInv, PidFacts, OneBeyond, OneDaemon
<1> QED
  BY <1>1, StartupInvariant, PTL

\* However often it is started, the table holds one record for each address, unless
\* its creation was cut short or shared.
THEOREM OneRecord == StartupSpec => []OneRecordPerIp
<1>1. StartupInv => OneRecordPerIp
  BY DEF StartupInv, DataInv, StoreInv, OneRecordPerIp
<1> QED
  BY <1>1, StartupInvariant, PTL

\* Processes that share the table do not give away a running lease, unless the
\* database has no index or the row changed between SELECT and UPDATE.
THEOREM LeasesKept == StartupSpec => LeaseKept
<1> DEFINE Kept == \A r \in leases : \A r1 \in leases' :
                      (r1.id = r.id /\ ~r.over /\ r1.mac # r.mac) =>
                         \/ torn
                         \/ \E p \in stale : pc[p] = "update" /\ pc'[p] = "serve"
<1>1. ASSUME StartupInv, leases' = leases PROVE Kept
  BY <1>1 DEF StartupInv, DataInv, RowInv, IdsDiffer
<1>2. ASSUME StartupInv, NEW p \in Proc, Update(p) PROVE Kept
  <2> SUFFICES ASSUME NEW r \in leases, NEW r1 \in leases', r1.id = r.id, ~r.over,
                      r1.mac # r.mac, ~torn, p \notin stale
               PROVE  FALSE
    BY <1>2 DEF Update, Goto, StartupInv, ProcTyped
  <2>1. PICK n \in Client, a \in Address : n = found[p].mac /\ a = found[p].ip
    BY <1>2 DEF Update, StartupInv, ProcTyped, Selected
  <2>2. UpdateLease(n, a)
    BY <1>2, <2>1 DEF Update, UpdateLease
  <2>3. PICK g : Rewrites(g) /\ \A q \in leases : IF q.ip = a THEN g[q].mac = n ELSE g[q] = q
    BY <1>2, <2>2, UpdateRewrites DEF StartupInv, DataInv, StoreInv
  <2>4. PICK q \in leases : r1 = g[q] /\ r1.id = q.id
    BY <2>3 DEF Rewrites
  <2>5. q = r
    BY <1>2, <2>4 DEF StartupInv, DataInv, RowInv, IdsDiffer
  <2>6. r.ip = a /\ r1.mac = n
    BY <2>3, <2>4, <2>5
  <2>7. r.mac = n \/ r.over
    BY <1>2, <2>1, <2>6 DEF StartupInv, DataInv, RowInv, SelectionHolds, Update
  <2> QED
    BY <2>6, <2>7
<1>3. ASSUME StartupInv, NEW p \in Proc, DbFill(p) PROVE Kept
  <2>1. PICK ip \in Address : Populate(ip)
    BY <1>3 DEF DbFill, StartupInv, ProcTyped
  <2>2. \A r1 \in leases' \ leases : \A q \in leases : q.id # r1.id
    BY <1>3, <2>1, PopulateAdds DEF StartupInv, DataInv, StoreInv, RowInv
  <2> QED
    BY <1>3, <2>2 DEF StartupInv, DataInv, RowInv, IdsDiffer
<1>4. ASSUME StartupInv, NEW ip \in Address, RunOut(ip) PROVE Kept
  <2>1. PICK g : Rewrites(g) /\ \A q \in leases : g[q].mac = q.mac
    BY <1>4, RunOutRewrites DEF StartupInv, DataInv, StoreInv
  <2> QED
    BY <1>4, <2>1 DEF Rewrites, StartupInv, DataInv, RowInv, IdsDiffer
<1>5. StartupInv /\ StartupNext => Kept
  <2> SUFFICES ASSUME StartupInv, StartupNext PROVE Kept
    OBVIOUS
  <2>1. \/ leases' = leases
        \/ \E p \in Proc : Update(p) \/ DbFill(p)
        \/ \E ip \in Address : RunOut(ip)
    BY DEF StartupNext, Step, Load, daemonize, PidAccess, PidRead, PidTest, PidTruncate, PidWrite,
           Initialize, NetInitialize, DbAccess, DbCreate, DbTable, DbUnique, DbOpen,
           CreateFile, CreateTable, CreateUniqueIndex, Crash, Launch, Select, Signal,
           Surroundings, Exit, Internal, store_vars, startup_vars
  <2> HIDE DEF Kept
  <2> QED
    BY <1>1, <1>2, <1>3, <1>4, <2>1
<1>6. StartupInv /\ [StartupNext]_startup_vars => [Kept]_startup_vars
  BY <1>5
<1> QED
  BY <1>6, StartupInvariant, PTL DEF StartupSpec, LeaseKept
=============================================================================
