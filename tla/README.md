# A TLA+ model of s3dhcpd

s3dhcpd is a DHCP server for mobile clients: one process, one thread, a SQLite
table of leases, an optional pf table of admitted addresses and optional RADIUS
accounting. This directory holds TLA+ modules translated from its source, TLC
configurations that check them on small instances, and TLAPS proofs of the main
results for every instance. Paths below are relative to the repository's `src/`
directory unless they start with `doc/` or `etc/`.

## 1. Inventory

| Component | State | Operations | Interacts with | Module |
|---|---|---|---|---|
| IP allocator (`alloc/ipallocator.cxx`) | none of its own | `ip_alloc`, `ip_check`, `ip_free`, `ip_invalidate` | lease store, pf, RADIUS, rc file | IPAllocator |
| SQL lease store (`alloc/ipallocator_sql.cxx`) | table `dhcp_leases` (ip unique; mac, expire, auth_info), read-only static database | `get_static_ip`, `get_leased_ip`, `get_new_ip`, `record_lease`, `record_static_lease`, `prepare_databases` | landing page and administrator write the same table; the static database is somebody else's | IPAllocator, LeaseStore |
| Server loop (`dhcp/dhcp_net.cxx`) | sockets, `message_buf` | `main_loop`: one packet in, at most one out | packets, allocator | DhcpServer, DhcpWire |
| Packets (`dhcp/dhcp_packet.cxx`) | header and up to 32 options | `marshall`, `unmarshall`, four `create_dhcp_*`, option lookups | loop, subnets | DhcpServer, DhcpWire |
| Framing (`dhcp/dhcp_netinet.h`) | pure | Ethernet, IP and UDP headers, checksum | loop | NetFrame |
| Subnets (`tools/subnets.*`) | list of subnets, each with or without a range | `load`, `mysubnet` | rc file, hash table walk | Subnets |
| Conversions (`tools/tools.h`) | pure | `ip_s2u`, `ip_u2s`, `ip_in_subnet`, `ip_isolate_addr`, `ip_compose_ip`, `mac_*` | everything | IpTools |
| pf (`pf/pf.h`) | kernel table of addresses | `add`, `del` | allocator; lost at a reboot | IPAllocator |
| RADIUS (`radius/`) | none; messages sent blindly | `send_acct_message`, packet codec | allocator, MD5 | IPAllocator, RadiusPacket |
| MD5 (`tools/md5.c`) | running digest | `md5_init`, `md5_append`, `md5_finish` | RADIUS packets | Md5, Md5Process |
| Daemon and `main` (`tools/daemon.cxx`, `main.cxx`) | pid file | `daemonize`, `write_pid_file`, signal handlers, the order of the start | other instances, lease database | Startup |
| Command line (`share/dsGetopt.cxx`) | scanner | `next`, the loop of `main` | main | Getopt |
| rc file (`share/dsApprc.cxx`) | hash table of keys, key stack | `load` with `.include`, `.if`, array keys; `push`, `pop`, `seek` | everything | RcFile, RcLine, Subnets |
| Hash table (`share/dsHashTable.cxx`) | open-addressed slots | `insert`, `seek`, `GrowUp` | rc file | HashTable |
| Log (`share/dsLog.*`) | stack of 10 components, open line | `push_component`, `pop_component`, `print` | everything | LogStack |
| Encodings (`share/dsSlightFunctions.cxx`) | pure | base64, hexadecimal, quoted-printable | library only | SlightFunctions |

What is hard here is not threads inside the daemon (there is one) but what
happens around it: packets are lost, repeated and late; the process may die
between two effects of one call and is restarted with another configuration; two
processes may start at the same time, or share the lease database and interleave
a SELECT of one with an UPDATE of the other; the static table and the lease table
are edited by others while it runs; a SELECT that fails reads as "no row"; rows
age, also those of static addresses; the clock plus the lease time must fit a C
int; one buffer serves all requests and responses; the subnets come out in the
order of a hash table. `PROJECT.json` lists each hazard with its line and the
properties about it.

What makes the components correct:

* allocator and store: a running lease is not taken from its owner, a client has
  one lease, leases survive restarts, a new client is not admitted by its
  predecessor's authorisation, every holder was announced;
* server: what is offered or acknowledged is on disk, an offer is honoured, and a
  client that keeps asking gets an address;
* the system: no address is used by two clients at a time;
* start: one daemon per pid file, one row per address, a start ends;
* configuration: the table is the dictionary the rc file describes, the subnets
  are those written in it, the rows of a range are its addresses, the options of
  the command line are those meant;
* codecs: requests and responses are read as they were written, whatever was in
  the buffer before; digests, checksums, texts and encodings are right.

## 2. Modules

The service:

* **IPAllocator** – allocator, lease store, pf and RADIUS effects, start and death
  of the process, and its surroundings.
  A call is one action. Where it makes several effects it takes a *cut*, the
  number of effects that happened before the process died (`Done` when it
  returned). `rows`, `mac`, `expire`, `auth` are the lease table; the queries are
  sets of possible answers, since `LIMIT 1` picks any matching row and a failed
  SELECT (`SelectMayFail`) looks like no row. `prepare_databases` may be cut short
  at any INSERT or pf insertion. A configuration is a record of address sets:
  those in a subnet (`net`), in a subnet with a range (`dyn`), in the ranges
  (`pool`), and the `host-` lines.
* **DhcpServer** – `main_loop` over IPAllocator: one action per case of the
  switch, with the whole response construction. `create_dhcp_offer` throws for an
  address outside all subnets; nothing catches that before `main()`: `Fatal`.
* **AddressUse** – the abstract promise of a DHCP service: a client takes an
  address only when no other client's term on it is running.
* **DhcpSystem** – DhcpServer among RFC 2131 clients (external, from
  `doc/rfc2131.txt`), with a network that is two growing sets of packets: any
  packet may be received never, late, twice and in any order.
* **DhcpLive** – DhcpServer and clients that keep asking, with losses, departures
  and restarts, for the question whether they get an address in the end.

The process and its database:

* **LeaseStore** – the database as a file that several processes use: `schema`
  is the set of what was created in it so far, `leases` the rows; every statement
  is a transaction of its own. A SELECT returns an address, which a later UPDATE
  names. The ids of the rows, the primary key, tell rows of one address apart.
* **Startup** – processes, each with a program counter whose steps are the system
  calls and SQL statements of `main`: options, the rc file, the pid file opened,
  read, checked with `kill`, truncated and rewritten, the opening of the database,
  CREATE TABLE, CREATE UNIQUE INDEX, one INSERT per address, the network, then the
  SELECT and UPDATE of a served client. Signals and crashes come at any step, pids
  are reused, also by processes that are not the daemon. The history variables
  `raced`, `torn` and `stale` record the three conditions under which the
  properties are known not to hold (section 5).

The configuration:

* **HashTable** – a table is a value; `insert`, `seek` and `GrowUp` are operators
  on it. `At(t, k, n)` is where the walk for a key is after n steps (`hmul` in the
  code), `Walk` the number of steps it takes. What the two hash functions make of a
  key are constants, so that collisions can be arranged. The sum of a key's characters
  may be negative, since characters are signed, and with it the remainder that is the
  start of the walk (`Before`). What the code finds before the array is undefined; the
  model stores such a key outside it (`stray`) and finds nothing under it.
* **RcFile** – `dsApprc::load`, one action per kind of line; `frames` are the
  activations of the recursive `load`, each with its `ignore[]` array. `dict` is
  the reference: what the assignments in force mean. Whether a line is in force is
  defined without `ignore[]`, by counting the `.if`, `.else` and `.endif` above it;
  `truth` in a frame is the set of the `.if` lines whose condition held. Elements of
  an array key are numbered with one digit. The empty text is a value like any other
  and not the `Null` that `seek` answers for a key that is not there. The right-hand
  side of a comparison is what the code takes for it, which lacks its first character
  when no blank is behind the `==`; a condition that cannot be read is an exception.
* **RcLine** – the characters of an assignment: escapes, braces, `=`, and `dump`.
* **Subnets** – `Subnets::load` over RcFile: the walk over the slots, the key
  stack, and `mysubnet`.
* **Getopt** – `dsGetopt::next` and the option loop of `main`.

Bytes and pure functions:

* **DhcpWire** – frames that arrive, the shared `message_buf`, `marshall`,
  `unmarshall`, and the response that is sent. Only the part behind the magic
  cookie is bytes.
* **IpTools**, **NetFrame**, **RadiusPacket**, **Md5**, **LogStack**,
  **SlightFunctions** – as the table says, as operators. Md5 is `md5_append` and
  `md5_finish` down to the blocks they process; **Md5Process** is `md5_process`, the
  digest of those blocks.
* **Codecs** – calls the pure functions one at a time, beside the actions of
  DhcpWire, and states what each is to compute. **CodecsDigest** adds what the digest
  is to be; it and Md5Process stand apart because they need `Bitwise`, which the
  prover cannot read, so that theorems can be stated about Codecs.

Proofs: **DhcpServerProofs** (with the allocator), **DhcpSystemProofs** (with
DhcpLive), **StartupProofs**, **SubnetsProofs** (with what it needs of HashTable and
RcFile), **DhcpWireProofs**, **CodecsProofs** and **MessageProofs** (Codecs), and
**Induction**, which holds the induction principles the last four use.
Instances: **MCIPAllocator**, **MCDhcpServer**, **MCDhcpSystem**, **MCDhcpLive**,
**MCStartup**, **MCSubnets**, **MCCodecs**.

Definitions keep the source's names; `PROJECT.json` maps each to its lines.
Definitions marked *Mutant* are changed versions of a definition, used to see
that each property can fail. Integer width: an expiry time is stored through
`ToInt`, the wrap-around of a signed int of maximum `IntMax`; MD5 words are pairs
of 16-bit halves; a byte of an attribute length wraps at `RadByteMax`.

Abstractions: the column `ts` is written and never read; in DhcpServer a packet is
its type, hardware address, xid, ciaddr and requested address, and one that is too
short, has no magic cookie or an unknown type is the type "?". INADDR_NONE and
0.0.0.0 are one value `NoIp`, in no subnet and in no row. `BadMac`, the address
00:00:00:00:00:00 that owns declined rows, may be a client's own. The clock does not step
back. In RcFile lines fit the 1023 characters of the buffer and end with a newline.
The digest in RadiusPacket is the sequence of bytes it is computed from.

## 3. Runs

| Run | Checks | Shows |
|---|---|---|
| `alloc_static` | TypeOK, LeaseNotStolen, LeasesSurviveRestart | static and dynamic assignments that collide, edits, exclusion, failing SELECTs, crashes; one of the two clients has the address of `BadMac`; `IntMax` = 3 so that the expiry time wraps |
| `alloc_pf` | NewNotAdmitted | pf on, landing page, reboots, an internal static entry |
| `server_static` | ReplyBacked | any packets; a range and a static subnet, entries edited at run time |
| `system_dynamic` | LeaseExclusive, TableCoversUse, KeepsPromise | two clients (two transactions and one) over one address, unreliable network, crashes; the refinement of AddressUse |
| `live` | OneLeasePerMac, HolderAnnounced, OfferHonoured, AskingEndsBound | two clients that keep asking for two addresses, RADIUS on, losses and restarts |
| `startup` | OneDaemon, OneRecordPerIp, LeaseKept, StartEnds | three starts, at most two processes at a time, one process that is not the daemon, signals and crashes |
| `rc` | TableIsDictionary, SubnetsAsWritten, LoadEnds | all short rc texts over a small vocabulary, complete configurations with two subnets in which one line at most is missing, or with one more line: a key with bytes above 127 at any place, or the key `subnet-addr` |
| `codecs` | 13 invariants of Codecs and DhcpWire | the shared buffer over sequences of requests and responses, and the pure functions over their arguments |

Four runs end in a violation; each states what a comment or document says and
shows what the code does instead (`findings` in `PROJECT.json`):

| Run | Violates | Shows |
|---|---|---|
| `v_internal` | InternalNotAdmitted | an internal static address is admitted by pf after a restart |
| `v_stale_rows` | NeverFatal | a row of a removed range makes the daemon exit |
| `v_static_shared` | LeaseExclusive | a `host-` line as in the example rc file, and two clients use one address |
| `v_condition` | AndIsConjunction | an `.if` with `&&` is true when both comparisons are false |

Bounds, and why they are enough:

* two clients and at most two addresses: every property speaks about one
  address, or two rows of one client, and needs one competitor;
* `Horizon` = 3 bounds the clock and `LeaseTime` is 1: there is before, at and
  after the end of a term, and a renewal in it;
* `MaxXid` bounds a client's transactions: two, so that one client can come back
  with packets of an old transaction under way;
* `LaunchMax` = 3 starts in two places: a start that is cut short, and two that
  meet what it left. `Pid` = {1, 2, 3} with `ForeignMax` = 1: a number in the pid
  file can belong to nobody, to the daemon or to somebody else;
* `HashMin` 4, `HashStep` 5, `HashMax` 17: a table grows more than once and fills
  up. `IgnoreSize` 3 and `MaxInclude` 1: blocks nest to the limit and behind it,
  and an include too many is met;
* `Width` 5: every mask, and every range in every subnet. `ByteMax` 15, `BodyMax`
  48, `MaxOptions` 8: an option length that leads out of the buffer, more options
  than there is room for, and responses that need and do not need padding.
  `PacketMax` 3: a long message, a short one over it, and one more;
* MD5 pieces around every boundary of 55, 56, 63, 64, 119, 120 and 128 bytes, and
  four test vectors of RFC 1321; all octets of an address; `MaxStack` 3: scopes
  nested to the limit and beyond it;
* the dynamic runs have no static entries, since with them OneLeasePerMac,
  HolderAnnounced, OfferHonoured and LeaseExclusive do not hold
  (`v_static_shared`); `alloc_pf` has no crash inside a call (section 5).

No deadlock check is switched off.

Fairness:

* `live`: strong fairness of a client's DISCOVER, and of its REQUEST while it has
  an offer, each together with an answer that arrives. A DHCP client retransmits,
  and the daemon answers every packet it can in the order in which they come; that
  not all packets are lost is an assumption about the network. AskingEndsBound also
  assumes that the server stays up at last. Losses, departures and the passing of
  time have no fairness;
* `startup`: weak fairness of each process's own step: nothing before `main_loop`
  waits for anything but a system call. None for signals, crashes and starts;
* `rc`: the one thread that reads keeps reading (`KeepsReading`).

The other runs assume none; their properties are safety.

## 4. Proofs

All theorems are for every value of the constants (any number of clients,
addresses, configurations, processes, keys, files, any sizes and hash functions),
from the named assumptions of the modules; what a theorem assumes beyond those is
said here. No theorem uses fairness.

**The allocator** (`DhcpServerProofs`), with static entries, crashes inside a call
and failing SELECTs unless said otherwise:

* `TypeCorrect`: `AllocSpec => []TypeOK`. The wrap-around of the expiry time is
  the one arithmetic fact (lemma on `ToInt`), from `TimesTyped`.
* `LeaseSafe`: `AllocSpec => LeaseNotStolen`, by cases over the calls, from TypeOK.
  The only ways for a lease that runs to get another owner are a decline and a static
  assignment; a client with the address of `BadMac` gets no other.
* `RestartSafe`: `AllocSpec => LeasesSurviveRestart`.
* `OneLease`: without static entries and failing SELECTs, `[]OneLeasePerMac`; it
  is inductive together with TypeOK. A client with the address of `BadMac` owns every
  declined row: this, `Announced` and `OffersHonoured` are about the others.
* `NewIsNotAdmitted`: without crashes inside a call, `[]NewNotAdmitted`. The
  inductive invariant adds that without pf nothing is ever admitted.
* `Announced`: with accounting on, without static entries and crashes inside a
  call, `[]HolderAnnounced`; inductive together with TypeOK, since a row gets a new
  owner only where the START is sent.

**The server** (`DhcpServerProofs`):

* `ServerUsesAllocator`: `ServerSpec => AllocSpec`. Every case of `main_loop` is one
  call of the allocator, or none; so each theorem above holds of the server.
* `RepliesBacked`: `[]ReplyBacked`, with static entries, crashes and failing SELECTs,
  as long as `Horizon + LeaseTime <= IntMax`. Each call that ends with an address has
  written the row (`Writes`), which then says at least what the packet says
  (`Granted`).
* `OffersHonoured`: without static entries and failing SELECTs, where every subnet
  has a range, `OfferHonoured`. The invariant is `OfferStands` (the offered row is
  its client's, usable and in a subnet) with OneLeasePerMac: with two usable rows
  `get_leased_ip` could find the other one and refuse the offer.
* `NeverExits`: `[]NeverFatal`, where every configuration serves the ranges of the
  others and the static addresses. Rows are never deleted, so that the table must be
  servable under every configuration to come; `v_stale_rows` shows what happens
  otherwise.
* `ClientsUseServer` (`DhcpSystemProofs`): `LiveSpec => ServerSpec`, so that the
  clients that keep asking may rely on all of this. It needs the type of what a
  client remembers (`LeaseTyped`): what it sends then is a packet.

**The system** (`DhcpSystemProofs`), for no static entries and
`Horizon + LeaseTime <= IntMax` (before the wrap-around):

* `SystemInvariant` (`Spec => []SysInv`) and from it `Exclusive` (LeaseExclusive) and
  `TableCovers`. LeaseExclusive is not inductive: two clients could both hold an ACK
  for the address. `SysInv` adds that a row covers not only each use but each ACK its
  client may still accept (`AckCovers`); that needs `NoEarlyAck` (no ACK exists for a
  transaction in which nothing was requested yet) and `XidsPast` (a new transaction
  number is fresh), and that no row outlives a lease granted now (`TermBound`). A row
  changes its owner only after its term, so a covered client's row is its own.
* `ImplementsPromise`: `Spec => KeepsPromise`, the refinement of AddressUse. The
  mapped variable is the address a client uses; accepting an ACK is a `Take`, because
  `AckCovers` makes the row the client's own and `TableCoversUse` makes every other
  running term on that address a row of somebody else; every other step is a
  stutter or a step of AddressUse that gives an address back or lets time pass.
* `SystemUsesAllocator`: `Spec => AllocSpec`, in any configuration.

**The start** (`StartupProofs`): `StartupInvariant`, and from it `PidFileWorks`
(OneDaemon), `OneRecord` (OneRecordPerIp) and `LeasesKept` (LeaseKept).

* OneDaemon is not inductive. Its strengthening, as long as nothing `raced`: at most
  one process is between the check of the pid file and its rewriting; who is beyond
  the file is alone there and nobody is about to rewrite it; the file has its number;
  and whoever has read the file since then has read that number (`ReadNames`), so
  that the `kill` that follows finds it alive.
* OneRecordPerIp needs that, unless `torn`, who creates the database is alone with it
  and that a database that is not being created has its index.
* LeaseKept needs that the ids of rows differ, that a largest one exists (so that
  the next is fresh), and that what a process selected is its client's or over until somebody
  else's UPDATE makes the selection `stale`.

**The shared buffer** (`DhcpWireProofs`). The constants of the theorems are any
frames of bytes, any byte and buffer size with `MaxOptions >= 8` and
`BodyMax >= 33 + ByteMax` (the code has 32 options and 3856 bytes), and responses
that one of the four `create_dhcp_*` functions builds; MCCodecs assumes the same of
its instance, and TLC evaluates it.

* `BufferKept`: nothing is written behind `message_buf`. The longest response is
  bounded by its number of options, of which only the domain name is longer than two
  bytes of this model.
* `RequestsRead` (RequestAsMeant): for frames that spell their options (`SpelledAt`),
  with or without pads and end mark; by induction downwards over the offsets at which
  the options start.
* `ResponsesSent` (ResponseAsBuilt): what `unmarshall` writes spells the options it
  was given, so that reading it back is the case above; the padding is zeros.

A frame as long as the buffer whose last byte is an option code is left out of
`FramesSpelled`: its length would be read behind the buffer.

**The configuration** (`SubnetsProofs`).

* `InsertIsAssignment`. A table is `Sound` when the walk for every stored key ends
  at its own slot. The walk is cyclic, since after `size` steps it is back at its
  start, so that it has a first stop; storing an item at the free slot that ends its
  own walk changes no other walk but those that ended there. `GrowUp` places the items
  of the old array one by one: by induction over them, the new table has the items
  placed so far and nothing else.
* `Dictionary` (TableIsDictionary). The invariant `RcInv` says that the table answers
  as `dict` does unless something was stored outside the array, and of each
  activation of `load` that its `ignore[]` agrees with the reference (`Blocks`): the
  level is the depth of the lines read so far, for each depth exactly the open `.if`
  and the number of `.else` behind it determine `ignore[depth]`. Level 0 is part of
  it: an `.else` outside all blocks flips `ignore[0]`.
* `SubnetsRead` (SubnetsAsWritten). The invariant `WalkInv` says of the slots walked so
  far that they hold the addr keys of exactly the subnets found, each once, with the
  values of `dict`, and that the key stack is at "subnet". That a subnet is found once
  rests on `Sound`: a key has one slot.

**The pure functions** (`CodecsProofs`, `MessageProofs`). One temporal fact serves them
all: whatever is called, its argument is one of those the constants allow (`Arguments`,
the invariant `CallTyped`). What remains is that the function is right on every such
argument; it is shown by induction over the loop of the code, with what the loop has
read and written so far as the invariant. Arguments have any length; the theorems assume
of them what the daemon sees to:

* `RowsAreTheRange` (RangeIsInterval): words of every width, masks of every length, any
  two hosts of the subnet. The order of words as sets of bits is that of the numbers.
* `AddressesSurviveTheirTexts` (AddressTextRoundTrip): all addresses of four octets and
  all hardware addresses of six.
* `DigestOfTheWhole` (AppendInPieces): messages of less than 2^61 bytes, cut anywhere,
  whatever is left in the buffer of the context. The blocks are those of the padded
  message, and the last eight bytes are its length in bits.
* `LinesReadAsMeant` (LineAccepted): lines over any alphabet with a newline in it. The
  braces, the backslashes and the `=` are counted in the text, without `lit` and `inval`.
* `DumpsReadBack` (DumpReadBack): entries without braces and backslashes, which `dump`
  does not escape, and with an `=` only in the value or in a key that has a space.
* `HeadersVerify` (ChecksumVerifies): data up to a total length of 65535. The header's
  words add up to a multiple of 65535, by carrying the sum modulo 65535 over the words.
* `AccountingAccepted` (AcctAccepted): every secret and identifier, values that fit the
  length byte, room for the five attributes that are written.
* `EncodingsReadBack` (EncodingRoundTrip): all bytes in hexadecimal, those without a zero
  byte in base64, also in lines of one group each, and all quoted texts.
* `MessagesUnderTheirScope` (MessageNamed): any calls in which scopes are left as
  `dsLogScope` objects are, with components not called "sys", and a stack of two or more
  (the code has 10). The invariant compares the stack with the scopes that are open:
  below the innermost one it holds their names as far as they fit, and a scope that did
  not fit changes nothing that is still there when it is left.
* `CommandLinesRead` (OptionsAsMeant): command lines whose words spell the options
  (`SpelledFrom`), each with its argument behind it or in the next word, several letters
  to a word or not. `next` is at the place of the option to come; each option takes a
  character of the command line, so that the bound of the model's loop is enough.

MCCodecs assumes the same of the arguments of its run (`ArgumentsAsProved`), and TLC
evaluates it: the hypotheses hold of all that the run enumerates.

**Induction.** The library's induction theorems take an operator as a parameter, which
the provers cannot instantiate. `Induction` states induction with a set in the place
of the predicate, from the least element of a set of numbers, and the existence of
functions defined by recursion up to a bound; that is enough here, because the
recursive definitions of the model are functions on intervals.

**Only model-checked:**

* AskingEndsBound, StartEnds and LoadEnds: liveness under fairness is out of the
  prover's reach, and so is `ENABLED`;
* DigestIsMD5: `md5_process` is sixty-four rounds of bitwise operations, for which the
  prover has no theory; the run compares it with test vectors. That the blocks it is
  given are the right ones is proved (`DigestOfTheWhole`);
* the four violations, which are about one instance each.

## 5. What the model says about the code

Where a property holds only under a condition, the condition is in the property
and marks a place where the code does something else:

* **raced** (OneDaemon): two processes that are both between the check of the pid
  file and its rewriting both run (`tools/daemon.cxx`); so does one started in the
  foreground, which writes no pid file. The file is empty between `fopen` and
  `fclose`: a process that reads it then finds no pid. A stale pid that now
  belongs to another process keeps the daemon from starting.
* **torn** (OneRecordPerIp): a crash between the creation of the file and CREATE
  UNIQUE INDEX is never repaired, since both statements are executed only when the
  file does not exist; the result of CREATE UNIQUE INDEX is not looked at.
* **stale** (LeaseKept): two processes on one lease database may both select a row
  and both update it; the UPDATE names the address only (`where ip = ?`), not the
  owner or the term that were selected.
* **stray** (TableIsDictionary): when GrowUp finds no slot it stores at
  `_Table[-1]`; and `HFuncAddition` adds signed characters, so that a key with bytes
  above 127 may have a negative index, at which it is looked for and stored.
* a subnet's name that holds the delimiter `-` leaves the key stack unbalanced
  (SubnetsAsWritten).
* **Nameless** (SubnetsAsWritten): the key `subnet-addr` starts and ends like a
  subnet's addr key, since the two share a delimiter, and is taken for that of the
  subnet with the empty name.
* **BadMac** (OneLeasePerMac, HolderAnnounced, OfferHonoured): a declined row belongs to
  00:00:00:00:00:00. A client that has this address owns what others declined.

Divergences that were seen while modelling and have no run of their own: RELEASE
frees nothing (`alloc/ipallocator.h:48` says it does); a repeated DISCOVER erases
`auth_info` (`alloc/ipallocator.h:31`); a crash between the lease record and the pf
deletion leaves a new client admitted (`alloc/ipallocator.cxx:138` and `141`).

Smaller facts, each in a definition's comment or left out with its data: an rc line
of 1023 characters or more makes `load` loop for ever, and a last line without a
newline is dropped; `.include` is obeyed inside a block that is ignored, and
`_recursion_cnt` counts all includes rather than their depth;
`global-nameserver1` is always required (`tools/subnets.cxx:63`, against the
comment in line 62); without `nameserver2` the second half of the DNS option is not
initialised; with exactly 32 options the end mark is written behind the array; the
RADIUS identifier is never set; a comma is missing in `radius_attr_names`
(`radius/radius_packet.cxx:262`), so that the names behind it are shifted; unknown
escapes in the rc file are dropped because of a misspelt `default` label
(`share/dsApprc.cxx:375`); `dsLogScope("radius");` is a temporary and opens no
scope; the dump at `dhcp/dhcp_net.cxx:340` tests the verbosity of another component
than it names; the verbosity of "sys" is 99 until the first `pop` reads it from the
rc file; `set_prefix` allocates with `new[]` what `clear_prefix` gives to `free()`;
the base64 encoder stops at a zero byte; `dsDecodeHex` takes an odd last character
together with the end of the text for one more byte, and characters above 127, which
are signed, for digits; `.if` drops the first character of the right-hand side when
there is no blank behind `==`.

## 6. Not modelled

* Vendored pf kernel headers (`pf/xnu`): declarations of a kernel interface.
* Streams, formatting and exceptions (`share/dsStrstream`, `dsForm`, ...): text
  buffers, without state of the service. An exception is modelled by where it ends.
* `kill_running` and `DAEMON_KILLPREV`, `dsHashTable::remove`, `dsGetoptMore`,
  `getdouble`, pf `flush`: no caller in the daemon. The `char *` variants of the
  encoders: the stream variants are modelled.
* Failing ioctls of pf (logged only), lost RADIUS messages (nothing depends on an
  answer), a clock that steps back, the dump functions (they print).

## 7. Plan

Done: the service, its surroundings, the start, the configuration and the bytes, each
with its runs; the safety properties of all of them proved, but for DigestIsMD5. Left:

1. That the activations of `load` stay within `MaxInclude` + 2, so that the recursion
   of `load` is bounded for every configuration.
2. A second DHCP server on the network: the daemon does not look at the server
   identifier of a REQUEST that selects another server's offer.
3. `md5_process` against a definition of the digest that does not have its shape.
