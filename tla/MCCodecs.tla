------------------------------ MODULE MCCodecs ------------------------------
(***************************************************************************)
(* The arguments for Codecs and CodecsDigest.                               *)
(***************************************************************************)
EXTENDS CodecsDigest, MessageProofs

\* Every subnet of addresses of five bits, and every range in it.
Prefix(p) == (Width - p)..(Width - 1)
AllSubnets ==
    UNION {{[addr |-> s, netmask |-> Prefix(p), first |-> s \cup f, last |-> s \cup t] :
              s \in SUBSET Prefix(p), f \in SUBSET (0..(4 - p)), t \in SUBSET (0..(4 - p))} :
           p \in 0..5}

AllOctets == {<<o, 255 - o, (7 * o) % 256, 10>> : o \in 0..255}
AllMacs == {<<o, 255 - o, (7 * o) % 256, 10, 240, o>> : o \in 0..255}

Message(n) == [i \in 1..n |-> i]
Pieces == {<<Message(n), c>> : n \in {0, 1, 55, 56, 57, 63, 64, 65, 119, 120, 128, 130},
                               c \in {0, 1, 54, 55, 56, 63, 64, 65, 119, 127, 128}}
CutPieces == {p \in Pieces : p[2] <= Len(p[1])}

\* "", "a", "abc", and 80 digits.
Vectors == {
    <<<<>>, <<212, 29, 140, 217, 143, 0, 178, 4, 233, 128, 9, 152, 236, 248, 66, 126>>>>,
    <<<<97>>, <<12, 193, 117, 185, 192, 241, 182, 168, 49, 195, 153, 226, 105, 119, 38, 97>>>>,
    <<<<97, 98, 99>>, <<144, 1, 80, 152, 60, 210, 79, 176, 214, 150, 63, 125, 40, 225, 127, 114>>>>,
    <<[i \in 1..80 |-> 48 + (i % 10)],
      <<87, 237, 244, 162, 43, 227, 201, 85, 172, 73, 218, 46, 33, 7, 182, 122>>>>}

Interface == [i \in 1..6 |-> 16 * i]
SendArgs == {[hw |-> Interface, my_ip |-> <<x, y, 255 - x, y>>, data |-> Message(n)] :
                x \in {0, 10, 127, 192, 255}, y \in {0, 1, 168, 255}, n \in {0, 1, 60, 201}}

Text(n) == [i \in 1..n |-> 65 + (i % 3)]
AcctCalls == {[status |-> s, auth_info |-> Text(n), ipaddr |-> Text(k), ident |-> i, salt |-> Text(2)] :
                s \in {1, 2}, n \in {0, 17, 250, 253}, k \in {7, 15}, i \in {0, 79, 255}}

Strings(S, n) == UNION {[1..i -> S] : i \in 0..n}
Lines == Strings({"k", " ", "=", "{", "}", Backslash}, 4)
           \cup {<<"k", "=">> \o l : l \in Strings({" ", "{", "}", Backslash}, 3)}
KeysAndValues == [key : Strings({"k", " "}, 2) \ {<<>>}, val : Strings({"k", " ", "="}, 3)]

\* ---- command lines: up to three options, each in a word of its own or joined to the one
\* before it, arguments attached or not, and what stands behind the options
Opts == {[letter |-> "d", arg |-> <<>>], [letter |-> "x", arg |-> <<>>], [letter |-> "i", arg |-> <<"e">>],
         [letter |-> "c", arg |-> <<"f">>], [letter |-> "c", arg |-> <<"-", "d">>]}
OptSeqs == UNION {[1..n -> Opts] : n \in 0..3}
Written(s, o, joined, attached) ==
    LET words == IF joined /\ s.open THEN Front(s.words) \o <<Last(s.words) \o <<o.letter>>>>
                 ELSE Append(s.words, <<"-", o.letter>>)
    IN IF o.arg = <<>> THEN [words |-> words, open |-> TRUE]
       ELSE [words |-> IF attached THEN Front(words) \o <<Last(words) \o o.arg>> ELSE Append(words, o.arg),
             open |-> FALSE]
InWords(opts, joined, attached) ==
    FoldLeft(LAMBDA s, i : Written(s, opts[i], joined[i], attached), [words |-> <<>>, open |-> FALSE],
             [i \in DOMAIN opts |-> i]).words
Behind == {<<>>, <<<<"e">>, <<"-", "x">>>>, <<<<"-", "-">>, <<"-", "x">>>>, <<<<"-">>, <<"-", "x">>>>}
CommandLines ==
    UNION {{[argv |-> InWords(o, j, at) \o b, opts |-> o] :
              j \in [DOMAIN o -> BOOLEAN], at \in BOOLEAN, b \in Behind} : o \in OptSeqs}

\* ---- scopes, opened and left, and then a message
Scopes(n) == {s \in [1..n -> {<<"push", "net", 0>>, <<"push", "alloc", 0>>, <<"pop", "", 0>>}] :
                \A k \in 1..n : Cardinality({i \in 1..k : s[i][1] = "pop"}) * 2 <= k}
LogCalls ==
    [rc : {[net |-> 2], [alloc |-> 3, sys |-> 1]},
     calls : {Append(s, msg) : s \in UNION {Scopes(n) : n \in 0..6},
                               msg \in {<<"print", "", 0>>, <<"print", "", 3>>, <<"values", "", 2>>}}]

\* ---- data for the encodings
DataSeqs == UNION {[1..n -> {0, 1, 62, 63, 127, 128, 255}] : n \in 0..4} \cup {<<o>> : o \in 0..255}
QuotedSeqs == UNION {[1..n -> {10, 32, 61, 95, 171} \X {"plain", "quoted", "break"}] : n \in 0..2}

\* ---- frames: the options a client sends, with pads or not, with an end mark or not
ClientOptions ==
    {<<>>, <<Option(1, <<1>>)>>, <<Option(1, <<3>>), Option(9, <<0, 4>>)>>,
     <<Option(9, <<>>), Option(1, <<1>>)>>, <<Option(9, <<15>>), Option(9, <<>>), Option(1, <<3>>)>>,
     [i \in 1..8 |-> Option(i, <<>>)], [i \in 1..9 |-> Option(i, <<>>)]}
Bytes(opts, pads) ==
    FoldLeft(LAMBDA s, o : s \o Zeros(pads) \o <<o.code, Len(o.value)>> \o o.value, <<>>, opts)

Wrapped(ihl, payload) == [i \in 1..(EthLen + ihl + UdpLen) |-> 3] \o payload
Sent(ihl, kind, payload, m) ==
    [ihl |-> ihl, kind |-> kind, bytes |-> Wrapped(ihl, payload), meant |-> m]

MCFrames ==
    {Sent(ihl, "dhcp", Bytes(o, pads) \o end, o) :
        ihl \in {5, 6}, o \in ClientOptions, pads \in {1}, end \in {<<>>, <<0, DHO_END, 1, 1>>}}
      \cup {Sent(5, "dhcp", Bytes(o, 0) \o <<DHO_END>>, o) : o \in ClientOptions}
      \cup {Sent(5, "dhcp", <<9>>, Malformed), Sent(5, "dhcp", <<1>>, Malformed),
            Sent(5, "short", <<>>, Malformed), Sent(5, "nocookie", <<1, 1, 2, 9, 9, 9>>, Malformed),
            Sent(5, "dhcp", [i \in 1..(BodyMax + 1) |-> 1], Malformed),
            [ihl |-> 9, kind |-> "dhcp", bytes |-> Wrapped(5, <<>>), meant |-> Malformed]}

\* ---- responses
Net(second, domain) ==
    [server |-> 1, lease_time |-> 2, renew_time |-> 1, domain_name |-> domain, netmask |-> 6,
     gateway |-> 7, nameserver1 |-> 8, nameserver2 |-> second]
Domains == {[i \in 1..n |-> 14] : n \in {0, 2}}
MCResponses ==
    UNION {{offer_options(Net(s, d), r), ack_options(Net(s, d), r), ack2_options(Net(s, d), r),
            nak_options(Net(s, d))} : s \in {0, 9}, d \in Domains, r \in {0, 15}}

\* What the theorems of DhcpWireProofs assume of frames and sizes holds here.
ASSUME SpelledFrames ==
    \A f \in MCFrames : \A d \in recv_packet(f) : f.meant # Malformed =>
       \E pads, end \in {0, 1} :
          SpelledAt(d, f.meant, [i \in 1..(Len(f.meant) + 1) |->
             Len(Bytes(SubSeq(f.meant, 1, i - 1), pads)) + (IF i <= Len(f.meant) THEN pads ELSE end) + 1])
ASSUME RoomForAll == MaxOptions >= 8 /\ BodyMax >= 33 + ByteMax

\* And what those of CodecsProofs and MessageProofs assume of the arguments (2^16 is far
\* below MaxBytes, which is no integer of TLC).
Characters == {"k", "e", "f", "c", "d", "i", "x", "-", " ", "=", "{", "}", Backslash, "LF"}
PlacesOf(x) ==
    LET ends == {Place(n, k) : n \in 1..(Len(x.argv) + 1), k \in 0..4}
        At[i \in 1..(Len(x.opts) + 1)] ==
            IF i = 1 THEN Place(1, 0) ELSE CHOOSE q \in ends : Spells(x.argv, At[i - 1], x.opts[i - 1], q)
    IN [i \in 1..(Len(x.opts) + 1) |-> At[i]]
ASSUME ArgumentsAsProved ==
    /\ \A p \in MessageArgs : p[1] \in Seq(Octet) /\ p[2] \in 0..Len(p[1]) /\ Len(p[1]) < 2^16
    /\ SubnetArgs \subseteq Ranges
    /\ AddressArgs \subseteq [1..4 -> Octet] /\ MacArgs \subseteq [1..6 -> Octet]
    /\ Alphabet(Characters) /\ LineArgs \subseteq Seq(Characters) /\ EntryArgs \subseteq Entries(Characters)
    /\ FrameArgs \subseteq Packets /\ AcctArgs \subseteq Accounted
    /\ RadiusSizes /\ RadByteMax >= 8 /\ MaxAttributes >= 5 /\ MaxStack \in Nat /\ MaxStack >= 2
    /\ DataArgs \subseteq Seq(Octet) /\ QuotedArgs \subseteq Seq(QuotedBytes)
    /\ \A x \in LogArgs : Logged(x)
    /\ \A x \in CommandArgs : x.argv \in Seq(Seq(Characters)) /\ SpelledFrom(x.argv, x.opts, PlacesOf(x))
=============================================================================
