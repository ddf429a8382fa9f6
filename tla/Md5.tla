--------------------------------- MODULE Md5 ---------------------------------
(***************************************************************************)
(* tools/md5.c, the digest that signs RADIUS messages: how the data come    *)
(* into blocks.  A state is [count, buf, done]: the bytes so far, the       *)
(* 64-byte buffer, and the blocks that were handed to md5_process, from     *)
(* which the code keeps only abcd.                                          *)
(***************************************************************************)
EXTENDS Integers, Sequences

md5_init == [count |-> 0, buf |-> [i \in 1..64 |-> 0], done |-> <<>>]

Blocks(data) == [k \in 1..(Len(data) \div 64) |-> SubSeq(data, 64 * k - 63, 64 * k)]

\* memcpy(buf + offset, data, ...)
CopyTo(buf, offset, data) ==
    [i \in 1..64 |-> IF i > offset /\ i <= offset + Len(data) THEN data[i - offset] ELSE buf[i]]

\* Mutant: a block that is filled exactly is not processed.
md5_append_full(st, data) ==
    LET offset == st.count % 64
        copy == IF offset = 0 THEN 0
                ELSE IF offset + Len(data) > 64 THEN 64 - offset ELSE Len(data)
        filled == CopyTo(st.buf, offset, SubSeq(data, 1, copy))
        left == SubSeq(data, copy + 1, Len(data))
    IN IF offset # 0 /\ offset + copy <= 64 /\ left = <<>>
       THEN [st EXCEPT !.count = @ + Len(data), !.buf = filled]
       ELSE [count |-> st.count + Len(data),
             buf |-> CopyTo(filled, 0, SubSeq(left, (Len(left) - (Len(left) % 64)) + 1, Len(left))),
             done |-> st.done \o (IF offset # 0 THEN <<filled>> ELSE <<>>) \o Blocks(left)]

\* Fill the partial block, process it when it is full, then the full blocks of the
\* data, and keep the rest.
md5_append(st, data) ==
    LET offset == st.count % 64
        copy == IF offset = 0 THEN 0
                ELSE IF offset + Len(data) > 64 THEN 64 - offset ELSE Len(data)
        filled == CopyTo(st.buf, offset, SubSeq(data, 1, copy))
        left == SubSeq(data, copy + 1, Len(data))
    IN IF data = <<>> THEN st
       ELSE IF offset # 0 /\ offset + copy < 64
       THEN [st EXCEPT !.count = @ + Len(data), !.buf = filled]
       ELSE [count |-> st.count + Len(data),
             buf |-> CopyTo(filled, 0, SubSeq(left, (Len(left) - (Len(left) % 64)) + 1, Len(left))),
             done |-> st.done \o (IF offset # 0 THEN <<filled>> ELSE <<>>) \o Blocks(left)]

\* The length in bits, eight bytes, the lowest first.
LengthBytes(n) ==
    LET Shifted[i \in 0..8] == IF i = 0 THEN 8 * n ELSE Shifted[i - 1] \div 256
    IN [i \in 1..8 |-> Shifted[i - 1] % 256]

\* At least one byte, up to 56 modulo 64.
PadLength(n) == ((55 - n) % 64) + 1

\* The blocks that are processed in all.
md5_finish(st) ==
    md5_append(md5_append(st, [i \in 1..PadLength(st.count) |-> IF i = 1 THEN 128 ELSE 0]),
               LengthBytes(st.count)).done
=============================================================================
