------------------------------- MODULE Codecs -------------------------------
(***************************************************************************)
(* The pure functions of the daemon, called one at a time with arguments    *)
(* from given sets, beside the buffer of DhcpWire.                          *)
(***************************************************************************)
EXTENDS IpTools, Md5, NetFrame, RcLine, Getopt, LogStack,
        SlightFunctions, DhcpWire

CONSTANTS
    SubnetArgs,     \* subnets [addr, netmask, first, last]
    AddressArgs,    \* addresses, as four octets
    MacArgs,        \* hardware addresses, as six octets
    MessageArgs,    \* what is digested, in one piece or two: <<data, cut>>
    VectorArgs,     \* pairs of a message and its MD5 digest
    FrameArgs,      \* [hw, my_ip, data]
    AcctArgs,       \* [status, auth_info, ipaddr, ident, salt]
    LineArgs,       \* lines of an rc file
    EntryArgs,      \* entries [key, val] of an rc file
    CommandArgs,    \* command lines [argv, opts]: words, and the options they are to be
    LogArgs,        \* [rc, calls]: verbosities and calls of the log
    DataArgs,       \* data to be encoded
    QuotedArgs,     \* sequences of <<byte, way to write it>>
    MaxAttributes, RadByteMax

R == INSTANCE RadiusPacket

VARIABLE call       \* the function that was called and its argument, or Idle

codec_vars == <<wire_vars, call>>

Idle == [fn |-> "none", arg |-> <<>>]
Calls(fn, args) == {[fn |-> fn, arg |-> x] : x \in args}

CodecsInit == WireInit /\ call = Idle

Call ==
    /\ call = Idle /\ WireInit
    /\ \/ call' \in Calls("populate", SubnetArgs)
       \/ call' \in Calls("ip", AddressArgs)
       \/ call' \in Calls("mac", MacArgs)
       \/ call' \in Calls("append", MessageArgs)
       \/ call' \in Calls("digest", VectorArgs)
       \/ call' \in Calls("send", FrameArgs)
       \/ call' \in Calls("acct", AcctArgs)
       \/ call' \in Calls("line", LineArgs)
       \/ call' \in Calls("dump", EntryArgs)
       \/ call' \in Calls("getopt", CommandArgs)
       \/ call' \in Calls("log", LogArgs)
       \/ call' \in Calls("encode", DataArgs)
       \/ call' \in Calls("quoted", QuotedArgs)
    /\ UNCHANGED wire_vars

CodecsNext ==
    \/ call = Idle /\ WireNext /\ UNCHANGED call
    \/ Call
    \/ call # Idle /\ call' = Idle /\ UNCHANGED wire_vars

CodecsSpec == CodecsInit /\ [][CodecsNext]_codec_vars

Called(fn) == call.fn = fn
arg == call.arg

----------------------------------------------------------------------------
(* Properties.                                                              *)

\* The rows made for a range are its addresses from the first up to, and without,
\* the last, in the order of addresses, and all of them are in the subnet; for masks
\* of every length, not only class C as the comment has it.
RangeIsInterval ==
    Called("populate") =>
       /\ PopulatedRange(arg) =
            {Bits(n) : n \in Number(arg.first)..(Number(arg.last) - 1)}
       /\ \A i \in PopulatedRange(arg) : ip_in_subnet(arg.addr, arg.netmask, i)
       /\ get_ip_broadcast(arg.addr, arg.netmask) \notin PopulatedRange(arg)

\* Addresses survive the way into the database and back, where they are texts.
AddressTextRoundTrip ==
    /\ Called("ip") => ip_s2u(ip_u2s(arg)) = arg
    /\ Called("mac") => mac_s2u(mac_u2s(arg)) = arg

\* What is processed does not depend on how the data come in pieces: the data, a one bit,
\* zeros and the length in bits, in whole blocks and in no more of them than needed.
AppendInPieces ==
    Called("append") =>
       LET data == arg[1]
           whole == md5_finish(md5_append(md5_init, data))
           pieces == md5_append(md5_append(md5_init, SubSeq(data, 1, arg[2])),
                                SubSeq(data, arg[2] + 1, Len(data)))
           n == 64 * Len(whole)
           Byte(i) == whole[((i - 1) \div 64) + 1][((i - 1) % 64) + 1]
           Length[i \in 0..8] == IF i = 0 THEN 0 ELSE 256 * Length[i - 1] + Byte(n + 1 - i)
       IN /\ md5_finish(pieces) = whole
          /\ \A k \in DOMAIN whole : Len(whole[k]) = 64
          /\ n - 64 < Len(data) + 9 /\ Len(data) + 9 <= n
          /\ \A i \in 1..(n - 8) :
                Byte(i) = IF i <= Len(data) THEN data[i] ELSE IF i = Len(data) + 1 THEN 128 ELSE 0
          /\ Length[8] = 8 * Len(data)

AllOnes == \hFFFF

\* A receiver finds the header of a broadcast frame intact: its words add up to all
\* ones, and its length is that of the packet.
ChecksumVerifies ==
    Called("send") =>
       LET frame == send_broadcast_packet(arg.hw, arg.my_ip, arg.data)
           header == SubSeq(frame, 15, 34)
           Sum[i \in 0..10] == IF i = 0 THEN 0 ELSE Sum[i - 1] + 256 * header[2 * i - 1] + header[2 * i]
       IN /\ Sum[10] # 0 /\ Sum[10] % AllOnes = 0
          /\ 256 * header[3] + header[4] = Len(frame) - 14
          /\ SubSeq(frame, 43, Len(frame)) = arg.data

\* The accounting server accepts a message, whatever identifier was in the buffer,
\* and reads from it the client and the address that were announced.
AcctAccepted ==
    Called("acct") =>
       LET m == R!unmarshall(R!create_acct_request(arg.status, arg.auth_info, arg.ipaddr), arg.ident, arg.salt)
           p == R!marshall(m, arg.salt)
           Value(t) == {x.value : x \in R!attr(p, t)}
       IN /\ p.matches
          /\ Value(R!RAD_ATTR_ACCT_SESSION_ID) = {arg.auth_info}
          /\ Value(R!RAD_ATTR_CALLING_STATION_ID) = {arg.ipaddr}
          /\ Value(R!RAD_ATTR_ACCT_STATUS_TYPE) = {<<0, 0, 0, arg.status>>}
          /\ Len(p.attributes) = 5

\* A line is an assignment exactly when its braces are balanced and an '=' is
\* outside of them, escaped characters not counting.
LineAccepted ==
    Called("line") =>
       LET l == TrimRight(arg)
           Escaped(i) == \E j \in 1..(i - 1) :
                            /\ (i - j) % 2 = 1
                            /\ \A k \in j..(i - 1) : l[k] = Backslash
                            /\ j = 1 \/ l[j - 1] # Backslash
           Plain(c, i) == {j \in 1..i : l[j] = c /\ ~Escaped(j)}
           Depth(i) == Cardinality(Plain("{", i)) - Cardinality(Plain("}", i))
       IN _add(arg) # {} <=> /\ \A i \in DOMAIN l : Depth(i) >= 0
                           /\ Depth(Len(l)) = 0
                           /\ \E i \in Plain("=", Len(l)) : Depth(i) = 0

\* An entry that is dumped is read back as it was.
DumpReadBack == Called("dump") => _add(dump(arg.key, arg.val)) = {arg}

\* The daemon starts with the options that were meant, however they are put into words:
\* letters in one word or several, an argument behind its letter or in the next word;
\* a later option replaces an earlier one and one that is not known stops it.
OptionsAsMeant ==
    Called("getopt") =>
       LET m == main_options(arg.argv)
           At(c) == {i \in DOMAIN arg.opts : arg.opts[i].letter = c}
           Value(c) == {arg.opts[i].arg : i \in {j \in At(c) : \A k \in At(c) : k <= j}}
       IN IF \E i \in DOMAIN arg.opts : arg.opts[i].letter \notin {"c", "i", "d"} THEN m.run = "usage"
          ELSE /\ m.config = Value("c") /\ m.interface = Value("i") /\ (m.daemonise <=> At("d") # {})
               /\ m.run = IF {} \in {Value("c"), Value("i")} THEN "exit" ELSE "start"

\* A message is written under the name of the innermost scope that is open, when its
\* priority is within the verbosity of that component, and as one line: as long as scopes
\* are not nested deeper than the stack, and again when they have all been left.
MessageNamed ==
    Called("log") =>
       LET before == LogAfter(arg.rc, Front(arg.calls))
           after == LogAfter(arg.rc, arg.calls)
           msg == Last(arg.calls)
           n == Len(arg.calls) - 1
           Is(w, i) == arg.calls[i][1] = w
           Depth(i) == Cardinality({j \in 1..i : Is("push", j)}) - Cardinality({j \in 1..i : Is("pop", j)})
           scopes == {j \in 1..n : Is("push", j) /\ \A i \in j..n : Depth(i) >= Depth(j)}
           name == IF scopes = {} THEN "sys" ELSE arg.calls[Max(scopes)][2]
           outermost == Max({i \in 0..n : Depth(i) = 0})
           fits == \A i \in outermost..n : Depth(i) < MaxStack
           level == IF name = "sys" /\ ~\E j \in 1..n : Is("pop", j) THEN 99 ELSE verbosity(arg.rc, name)
           shown == IF msg[1] = "values" THEN {[name |-> name, parts |-> msg[3] + 2]}
                    ELSE {[name |-> name, parts |-> 1] : x \in {y \in {msg[3]} : y <= level}}
       IN fits => after.lines = before.lines \o SetToSeq(shown) /\ ~after.open

\* What is encoded is read back: as base64 when there is no zero byte in it, also from
\* lines of one group each, and in hexadecimal; bytes that are quoted or not, with soft
\* line breaks between them, are what was quoted.
EncodingRoundTrip ==
    /\ Called("encode") =>
         /\ dsDecodeHex(dsEncodeHex(arg)) = arg
         /\ (\A i \in DOMAIN arg : arg[i] # 0) =>
              LET text == dsEncodeBase64(arg)
                  lines == [i \in 1..(Len(text) + Len(text) \div 4) |->
                              IF i % 5 = 1 THEN LF ELSE text[i - (i + 4) \div 5]]
              IN dsDecodeBase64(text) = {arg} /\ dsDecodeBase64(lines) = {arg}
    /\ Called("quoted") =>
         LET Quoted(x) == <<Pad>> \o dsEncodeHex(<<x[1]>>)
             Writing(x) == CASE x[2] = "quoted" -> Quoted(x)
                             [] x[2] = "plain" -> IF x[1] \in {Pad, 95} THEN Quoted(x) ELSE <<x[1]>>
                             [] x[2] = "break" -> <<Pad, LF>> \o Quoted(x)
             Text[i \in 0..Len(arg)] == IF i = 0 THEN <<>> ELSE Text[i - 1] \o Writing(arg[i])
         IN dsDecodeQ(Text[Len(arg)]) = {[i \in DOMAIN arg |-> arg[i][1]]}
=============================================================================
