----------------------------- MODULE RadiusPacket -----------------------------
(***************************************************************************)
(* radius/radius_packet.cxx and send_acct_message of radius_net.cxx: the    *)
(* accounting message as bytes.  The digest is taken to be the bytes it is  *)
(* computed from (Md5 has the function); strings are sequences of bytes.    *)
(***************************************************************************)
EXTENDS Integers, Sequences

CONSTANTS
    MaxAttributes,      \* MAX_RADIUS_ATTRIBUTES
    RadByteMax          \* 255

RAD_ACCT_REQUEST == 4
RAD_ACCT_RESPONSE == 5
RAD_ATTR_ACCT_STATUS_TYPE == 40
RAD_ATTR_ACCT_SESSION_ID == 44
RAD_ATTR_CALLED_STATION_ID == 30
RAD_ATTR_CALLING_STATION_ID == 31
RAD_ATTR_NAS_IP_ADDRESS == 4

NoAuth == [i \in 1..16 |-> 0]
ToByte(n) == n % (RadByteMax + 1)

int_attr(t, v) == [type |-> t, value |-> <<0, 0, 0, v>>]
str_attr(t, s) == [type |-> t, value |-> SubSeq(s, 1, ToByte(Len(s)))]

\* "dhcpd" with the NUL that sizeof counts.
Daemon == <<100, 104, 99, 112, 100, 0>>

create_acct_request(status, auth_info, ipaddr) ==
    [code |-> RAD_ACCT_REQUEST, auth |-> NoAuth,
     attributes |-> <<int_attr(RAD_ATTR_ACCT_STATUS_TYPE, status),
                      str_attr(RAD_ATTR_ACCT_SESSION_ID, auth_info),
                      str_attr(RAD_ATTR_CALLED_STATION_ID, Daemon),
                      str_attr(RAD_ATTR_CALLING_STATION_ID, ipaddr),
                      int_attr(RAD_ATTR_NAS_IP_ADDRESS, 0)>>]

\* A response repeats the authenticator of the request, and has no attributes.
create_acct_response(request) ==
    [code |-> RAD_ACCT_RESPONSE, auth |-> request.auth, attributes |-> <<>>]

\* What the authenticator is the digest of.
Signed(code, ident, length, auth, attrs, salt) ==
    <<code, ident>> \o length \o auth \o attrs \o salt

Length16(n) == <<n \div 256, n % 256>>

\* |type|length|length - 2 bytes of value|
Written(x) == <<x.type, ToByte(Len(x.value) + 2)>> \o x.value

AttributeBytes(attrs) ==
    LET Upto[i \in 0..Len(attrs)] == IF i = 0 THEN <<>> ELSE Upto[i - 1] \o Written(attrs[i])
    IN Upto[Len(attrs)]

\* Mutant: the digest is computed before the length is known.
unmarshall_early(p, ident, salt) ==
    LET attrs == AttributeBytes(p.attributes)
        length == Length16(20 + Len(attrs))
    IN [code |-> p.code, ident |-> ident, length |-> length,
        auth |-> Signed(p.code, ident, <<0, 0>>, p.auth, attrs, salt), attrs |-> attrs]

\* A message [code, ident, length, auth, attrs].  The identifier is not written: it
\* is what was in the buffer.
unmarshall(p, ident, salt) ==
    LET attrs == AttributeBytes(p.attributes)
        length == Length16(20 + Len(attrs))
    IN [code |-> p.code, ident |-> ident, length |-> length,
        auth |-> Signed(p.code, ident, length, p.auth, attrs, salt), attrs |-> attrs]

\* Reading the attribute at an offset, unless the message or its attributes are at an
\* end.  A length byte of 0 or 1 wraps around.
ReadOne(attrs, n, r) ==
    IF r.offset > n \/ attrs[r.offset] = 0 THEN r
    ELSE LET len == ToByte(attrs[r.offset + 1] - 2)
         IN [offset |-> r.offset + 2 + len,
             attributes |-> Append(r.attributes,
                 [type |-> attrs[r.offset], value |-> SubSeq(attrs, r.offset + 2, r.offset + 1 + len)])]

\* Reading a message: its attributes, as far as there is room for them, and whether its
\* authenticator matched, which is logged and not acted on.
marshall(m, salt) ==
    LET n == 256 * m.length[1] + m.length[2] - 20
        Read[idx \in 0..MaxAttributes] ==
            IF idx = 0 THEN [offset |-> 1, attributes |-> <<>>] ELSE ReadOne(m.attrs, n, Read[idx - 1])
    IN [code |-> m.code, attributes |-> Read[MaxAttributes].attributes,
        matches |-> m.auth = Signed(m.code, m.ident, m.length, NoAuth, SubSeq(m.attrs, 1, n), salt)]

\* The first attribute of a type, as a set.
attr(p, type) ==
    LET at == {i \in DOMAIN p.attributes : p.attributes[i].type = type}
    IN {p.attributes[i] : i \in {j \in at : \A k \in at : j <= k}}
=============================================================================
