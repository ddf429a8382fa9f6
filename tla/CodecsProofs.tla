---------------------------- MODULE CodecsProofs ----------------------------
(***************************************************************************)
(* Theorems about the pure functions, for arguments of every length: MD5,   *)
(* ranges of addresses, lines of the rc file, addresses as texts.  Each     *)
(* rests on the fact that a function is only called with its arguments      *)
(* (Arguments), so that what is left is a lemma about the function.         *)
(***************************************************************************)
EXTENDS Codecs, Induction, FiniteSetTheorems, SequenceTheorems

----------------------------------------------------------------------------
(* The calls.                                                               *)

CallTyped ==
    /\ call.fn = "populate" => call.arg \in SubnetArgs
    /\ call.fn = "ip" => call.arg \in AddressArgs
    /\ call.fn = "mac" => call.arg \in MacArgs
    /\ call.fn = "append" => call.arg \in MessageArgs
    /\ call.fn = "send" => call.arg \in FrameArgs
    /\ call.fn = "acct" => call.arg \in AcctArgs
    /\ call.fn = "line" => call.arg \in LineArgs
    /\ call.fn = "dump" => call.arg \in EntryArgs
    /\ call.fn = "getopt" => call.arg \in CommandArgs
    /\ call.fn = "log" => call.arg \in LogArgs
    /\ call.fn = "encode" => call.arg \in DataArgs
    /\ call.fn = "quoted" => call.arg \in QuotedArgs

\* A function is called with one of its arguments.
LEMMA Arguments == CodecsSpec => []CallTyped
<1>1. CodecsInit => CallTyped
    BY DEF CodecsInit, CallTyped, Idle
<1>2. CallTyped /\ [CodecsNext]_codec_vars => CallTyped'
    <2> SUFFICES ASSUME CallTyped, [CodecsNext]_codec_vars
                 PROVE  CallTyped'
        OBVIOUS
    <2>1. CASE call' = call
        BY <2>1 DEF CallTyped
    <2>2. CASE call' = Idle
        BY <2>2 DEF CallTyped, Idle
    <2>3. CASE Call
        BY <2>3 DEF Call, Calls, CallTyped
    <2> QED
        BY <2>1, <2>2, <2>3 DEF CodecsNext, codec_vars
<1> QED
    BY <1>1, <1>2, PTL DEF CodecsSpec
----------------------------------------------------------------------------
(* MD5: what is in the buffer and what was processed.                       *)

Octet == 0..255
Buffer == [1..64 -> Octet]

\* v is block k of the bytes x.
IsBlock(v, x, k) ==
    v \in Seq(Octet) /\ Len(v) = 64 /\ \A i \in 1..64 : v[i] = x[64 * k - 64 + i]

Block == Seq(Octet)

\* z cuts x into blocks.
Cuts(z, x) ==
    /\ z \in Seq(Block) /\ Len(z) = Len(x) \div 64
    /\ \A k \in 1..(Len(x) \div 64) : IsBlock(z[k], x, k)

LEMMA OneBlock ==
    ASSUME NEW x, NEW k \in Int, NEW u, NEW v, IsBlock(u, x, k), IsBlock(v, x, k)
    PROVE  u = v
<1> DEFINE n == 64
<1>1. u \in Seq(Octet) /\ v \in Seq(Octet) /\ Len(u) = n /\ Len(v) = n
    BY DEF IsBlock
<1>2. ASSUME NEW i \in 1..n
      PROVE  u[i] = v[i]
    <2>1. u[i] = x[64 * k - 64 + i] /\ v[i] = x[64 * k - 64 + i]
        BY DEF IsBlock
    <2> QED BY <2>1
<1> HIDE DEF n
<1> QED BY <1>1, <1>2, SeqEqual

\* A block of a part is a block of the whole.
LEMMA BlockOfPart ==
    ASSUME NEW d, NEW x, NEW k \in Nat \ {0}, NEW q \in Nat, NEW v, IsBlock(v, d, k),
           NEW n \in Nat, 64 * k <= n, \A i \in 1..n : x[64 * q + i] = d[i]
    PROVE  IsBlock(v, x, q + k)
<1>1. ASSUME NEW i \in 1..64
      PROVE  v[i] = x[64 * (q + k) - 64 + i]
    <2>1. 64 * k - 64 + i \in 1..n /\ 64 * q + (64 * k - 64 + i) = 64 * (q + k) - 64 + i
        OBVIOUS
    <2>2. v[i] = d[64 * k - 64 + i]
        BY DEF IsBlock
    <2> QED BY <2>1, <2>2
<1> QED BY <1>1 DEF IsBlock

LEMMA BlocksCut ==
    ASSUME NEW x \in Seq(Octet)
    PROVE  Cuts(Blocks(x), x)
<1> DEFINE n == Len(x) \div 64
           Piece(k) == SubSeq(x, 64 * k - 63, 64 * k)
           b == [k \in 1..n |-> Piece(k)]
<1>1. n \in Nat /\ Len(x) \in Nat /\ 64 * n <= Len(x)
    OBVIOUS
<1>2. b = Blocks(x)
    BY DEF Blocks
<1> HIDE DEF n
<1>3. ASSUME NEW k \in 1..n
      PROVE  IsBlock(Piece(k), x, k)
    <2> DEFINE p == 64 * k - 63
               q == 64 * k
    <2>1. p \in Int /\ q \in Int /\ q - p + 1 = 64 /\ p <= q /\ 1 <= p /\ q <= Len(x)
        BY <1>1
    <2>2. \A i \in p..q : x[i] \in Octet
        BY <2>1, ElementOfSeq
    <2>3. Piece(k) = SubSeq(x, p, q)
        OBVIOUS
    <2>4. \A i \in 1..64 : p + i - 1 = 64 * k - 64 + i
        OBVIOUS
    <2> HIDE DEF p, q, Piece
    <2> DEFINE v == SubSeq(x, p, q)
    <2>5. v \in Seq(Octet) /\ Len(v) = 64 /\ \A i \in 1..64 : v[i] = x[p + i - 1]
        BY <2>1, <2>2, SubSeqProperties
    <2>6. Piece(k) = v
        BY <2>3
    <2> HIDE DEF v
    <2>7. \A i \in 1..64 : v[i] = x[64 * k - 64 + i]
        <3> TAKE i \in 1..64
        <3>1. v[i] = x[p + i - 1] /\ p + i - 1 = 64 * k - 64 + i
            BY <2>4, <2>5
        <3> QED BY <3>1
    <2>8. IsBlock(v, x, k)
        BY <2>5, <2>7 DEF IsBlock
    <2> QED BY <2>6, <2>8
<1> HIDE DEF Piece
<1>4. b \in [1..n -> Block]
    BY <1>3 DEF IsBlock, Block
<1>5. b \in Seq(Block) /\ Len(b) = n
    BY <1>1, <1>4
<1>6. \A k \in 1..n : b[k] = Piece(k)
    OBVIOUS
<1> HIDE DEF b
<1>7. \A k \in 1..n : IsBlock(b[k], x, k)
    BY <1>3, <1>6
<1>8. n = Len(x) \div 64
    BY DEF n
<1> QED BY <1>2, <1>5, <1>7, <1>8 DEF Cuts

LEMMA CutsOnce ==
    ASSUME NEW x \in Seq(Octet), NEW z, Cuts(z, x)
    PROVE  z = Blocks(x)
<1> DEFINE w == Blocks(x)
           n == Len(x) \div 64
<1>1. Cuts(w, x)
    BY BlocksCut
<1> HIDE DEF w
<1>2. /\ z \in Seq(Block) /\ w \in Seq(Block) /\ Len(w) = n /\ Len(z) = n
      /\ \A k \in 1..n : IsBlock(z[k], x, k) /\ IsBlock(w[k], x, k)
    BY <1>1 DEF Cuts
<1> HIDE DEF n
<1>3. \A k \in 1..n : z[k] = w[k]
    BY <1>2, OneBlock
<1>4. z = w
    BY <1>2, <1>3, SeqEqual
<1> QED BY <1>4 DEF w

\* Blocks, a block that may be there or not, and the blocks of the rest.
LEMMA CutsJoined ==
    ASSUME NEW x \in Seq(Octet), NEW bd \in Seq(Block), NEW mid \in Seq(Block), NEW bl \in Seq(Block),
           Len(x) \div 64 = Len(bd) + Len(mid) + Len(bl), Len(mid) <= 1,
           \A k \in 1..Len(bd) : IsBlock(bd[k], x, k),
           Len(mid) = 1 => IsBlock(mid[1], x, Len(bd) + 1),
           \A k \in 1..Len(bl) : IsBlock(bl[k], x, (Len(bd) + Len(mid)) + k)
    PROVE  bd \o mid \o bl = Blocks(x)
<1> DEFINE nb == Len(bd)
           lm == Len(mid)
           nl == Len(bl)
           y == bd \o mid
           z == y \o bl
<1>1. nb \in Nat /\ lm \in Nat /\ nl \in Nat /\ lm <= 1
    OBVIOUS
<1>2. /\ y \in Seq(Block) /\ Len(y) = nb + lm
      /\ \A k \in 1..(nb + lm) : y[k] = IF k <= nb THEN bd[k] ELSE mid[k - nb]
    BY ConcatProperties
<1> HIDE DEF y
<1>3. /\ z \in Seq(Block) /\ Len(z) = Len(y) + nl
      /\ \A k \in 1..(Len(y) + nl) : z[k] = IF k <= Len(y) THEN y[k] ELSE bl[k - Len(y)]
    BY <1>2, ConcatProperties
<1> HIDE DEF z, nb, lm, nl
<1>4. ASSUME NEW k \in 1..(nb + lm + nl)
      PROVE  IsBlock(z[k], x, k)
    <2>1. CASE k <= nb
        <3>1. k \in 1..nb /\ z[k] = bd[k]
            BY <1>1, <1>2, <1>3, <2>1
        <3> QED BY <3>1 DEF nb
    <2>2. CASE k > nb /\ k <= nb + lm
        <3>1. lm = 1 /\ k = nb + 1 /\ k - nb = 1
            BY <1>1, <2>2
        <3>2. z[k] = mid[1]
            BY <1>1, <1>2, <1>3, <2>2, <3>1
        <3> QED BY <3>1, <3>2 DEF nb, lm
    <2>3. CASE k > nb + lm
        <3>1. k - (nb + lm) \in 1..nl /\ z[k] = bl[k - (nb + lm)] /\ (nb + lm) + (k - (nb + lm)) = k
            BY <1>1, <1>2, <1>3, <2>3
        <3> QED BY <3>1 DEF nb, lm, nl
    <2> QED BY <1>1, <2>1, <2>2, <2>3
<1>5. Len(x) \div 64 = nb + lm + nl
    BY DEF nb, lm, nl
<1>6. Cuts(z, x)
    BY <1>2, <1>3, <1>4, <1>5 DEF Cuts
<1>7. z = Blocks(x)
    BY <1>6, CutsOnce
<1> QED BY <1>7 DEF z, y

\* The state after the bytes d: their number, their whole blocks, and the rest of them
\* at the beginning of the buffer.
Holds(st, d) ==
    /\ st = [count |-> Len(d), buf |-> st.buf, done |-> Blocks(d)]
    /\ st.buf \in Buffer
    /\ \A i \in 1..(Len(d) % 64) : st.buf[i] = d[Len(d) - (Len(d) % 64) + i]

LEMMA HoldsInit == Holds(md5_init, <<>>)
<1>1. Len(<<>>) = 0 /\ <<>> \in Seq(Octet)
    OBVIOUS
<1>2. Blocks(<<>>) \in Seq(Block) /\ Len(Blocks(<<>>)) = 0 \div 64
    BY <1>1, BlocksCut DEF Cuts
<1>3. 0 \div 64 = 0 /\ 0 % 64 = 0
    OBVIOUS
<1>4. Blocks(<<>>) = <<>>
    BY <1>2, <1>3, EmptySeq
<1> DEFINE zeros == [i \in 1..64 |-> 0]
<1>5. zeros \in Buffer
    BY DEF Octet, Buffer
<1>6. md5_init = [count |-> 0, buf |-> zeros, done |-> <<>>]
    BY DEF md5_init
<1> HIDE DEF zeros
<1>7. md5_init.buf = zeros
    BY <1>6
<1>8. md5_init = [count |-> Len(<<>>), buf |-> md5_init.buf, done |-> Blocks(<<>>)]
    BY <1>1, <1>4, <1>6, <1>7
<1>9. 1..(Len(<<>>) % 64) = {}
    BY <1>1, <1>3
<1> QED BY <1>5, <1>7, <1>8, <1>9 DEF Holds

\* memcpy into the buffer.
LEMMA Copied ==
    ASSUME NEW buf \in Buffer, NEW offset \in 0..64, NEW d \in Seq(Octet), offset + Len(d) <= 64
    PROVE  /\ CopyTo(buf, offset, d) \in Buffer
           /\ \A i \in 1..offset : CopyTo(buf, offset, d)[i] = buf[i]
           /\ \A i \in 1..Len(d) : CopyTo(buf, offset, d)[offset + i] = d[i]
<1>1. \A i \in 1..Len(d) : d[i] \in Octet
    BY ElementOfSeq
<1>2. \A i \in 1..64 : i > offset /\ i <= offset + Len(d) => i - offset \in 1..Len(d)
    OBVIOUS
<1>3. CopyTo(buf, offset, d) \in Buffer
    BY <1>1, <1>2 DEF CopyTo, Buffer
<1>4. ASSUME NEW i \in 1..offset
      PROVE  CopyTo(buf, offset, d)[i] = buf[i]
    <2>1. i \in 1..64 /\ ~(i > offset)
        OBVIOUS
    <2> QED BY <2>1 DEF CopyTo
<1>5. ASSUME NEW i \in 1..Len(d)
      PROVE  CopyTo(buf, offset, d)[offset + i] = d[i]
    <2>1. offset + i \in 1..64 /\ offset + i > offset /\ offset + i <= offset + Len(d)
          /\ (offset + i) - offset = i
        OBVIOUS
    <2> QED BY <2>1 DEF CopyTo
<1> QED BY <1>3, <1>4, <1>5

LEMMA BufferIsSeq ==
    ASSUME NEW b \in Buffer
    PROVE  b \in Seq(Octet) /\ Len(b) = 64
<1> DEFINE w == 64
<1>1. b \in [1..w -> Octet] /\ w \in Nat /\ w = 64
    BY DEF Buffer
<1> HIDE DEF w
<1>2. b \in Seq(Octet)
    BY <1>1, SeqDef
<1>3. Len(b) = w
    BY <1>1, <1>2
<1> QED BY <1>1, <1>2, <1>3

\* Appending to what is stored stores the concatenation.
LEMMA Appended ==
    ASSUME NEW d \in Seq(Octet), NEW e \in Seq(Octet), NEW st, Holds(st, d)
    PROVE  Holds(md5_append(st, e), d \o e)
<1> DEFINE n == Len(d)
           m == Len(e)
           o == n % 64
           x == d \o e
           c == IF o = 0 THEN 0 ELSE IF o + m > 64 THEN 64 - o ELSE m
           first == SubSeq(e, 1, c)
           filled == CopyTo(st.buf, o, first)
           left == SubSeq(e, c + 1, m)
           rest == SubSeq(left, (Len(left) - (Len(left) % 64)) + 1, Len(left))
           short == [st EXCEPT !.count = @ + m, !.buf = filled]
           long == [count |-> st.count + m, buf |-> CopyTo(filled, 0, rest),
                    done |-> st.done \o (IF o # 0 THEN <<filled>> ELSE <<>>) \o Blocks(left)]
<1>0. n \in Nat /\ m \in Nat /\ o \in 0..63 /\ o <= n
    <2>1. n \in Nat /\ m \in Nat
        OBVIOUS
    <2> HIDE DEF n
    <2> QED BY <2>1
<1>1. /\ n \in Nat /\ m \in Nat /\ o \in 0..63 /\ c \in 0..m /\ o + c <= 64
      /\ (o = 0 => c = 0)
    <2> HIDE DEF n, m, o
    <2> QED BY <1>0
<1>2. /\ x \in Seq(Octet) /\ Len(x) = n + m
      /\ \A i \in 1..n : x[i] = d[i]
      /\ \A i \in 1..m : x[n + i] = e[i]
    BY ConcatProperties
<1>3. st.count = n /\ st.done = Blocks(d) /\ st.buf \in Buffer
    BY DEF Holds
<1>4. \A i \in 1..o : st.buf[i] = d[n - o + i]
    BY DEF Holds
<1>5. \A i \in 1..m : e[i] \in Octet
    BY ElementOfSeq
<1>6. md5_append(st, e) =
        IF e = <<>> THEN st ELSE IF o # 0 /\ o + c < 64 THEN short ELSE long
    BY <1>3 DEF md5_append
<1>7. /\ first \in Seq(Octet) /\ Len(first) = c
      /\ \A i \in 1..c : first[i] = e[i]
    <2> HIDE DEF c
    <2>1. \A i \in 1..c : e[i] \in Octet
        BY <1>1, <1>5
    <2>2. /\ first \in Seq(Octet) /\ Len(first) = (IF 1 <= c THEN c - 1 + 1 ELSE 0)
          /\ \A i \in 1..(c - 1 + 1) : first[i] = e[1 + i - 1]
        BY <1>1, <2>1, SubSeqProperties, 1 \in Int, c \in Int
    <2> HIDE DEF first
    <2> QED BY <1>1, <2>2
<1>8. /\ left \in Seq(Octet) /\ Len(left) = m - c
      /\ \A i \in 1..(m - c) : left[i] = e[c + i]
    <2> HIDE DEF c, m
    <2>1. \A i \in (c + 1)..m : e[i] \in Octet
        BY <1>1, <1>5
    <2>2. /\ left \in Seq(Octet) /\ Len(left) = (IF c + 1 <= m THEN m - (c + 1) + 1 ELSE 0)
          /\ \A i \in 1..(m - (c + 1) + 1) : left[i] = e[(c + 1) + i - 1]
        BY <1>1, <2>1, SubSeqProperties, c + 1 \in Int, m \in Int
    <2> HIDE DEF left
    <2>3. \A i \in 1..(m - c) : (c + 1) + i - 1 = c + i
        BY <1>1
    <2> QED BY <1>1, <2>2, <2>3
<1> HIDE DEF n, m, o, x, c, first, left
<1>9. /\ filled \in Buffer
      /\ \A i \in 1..(o + c) : filled[i] = x[n - o + i]
    <2>0. o \in 0..64
        BY ONLY <1>1
    <2>1. /\ filled \in Buffer
          /\ \A i \in 1..o : filled[i] = st.buf[i]
          /\ \A i \in 1..c : filled[o + i] = first[i]
        BY <1>1, <1>3, <1>7, <2>0, Copied
    <2> HIDE DEF filled
    <2>2. ASSUME NEW i \in 1..(o + c)
          PROVE  filled[i] = x[n - o + i]
        <3>1. CASE i <= o
            <4>1. i \in 1..o /\ n - o + i \in 1..n
                BY <1>1, <3>1 DEF o
            <4> QED BY <4>1, <1>2, <1>4, <2>1
        <3>2. CASE i > o
            <4>1. i - o \in 1..c /\ i - o \in 1..m /\ o + (i - o) = i /\ n + (i - o) = n - o + i
                BY <1>1, <3>2
            <4> QED BY <4>1, <1>2, <1>7, <2>1
        <3> QED BY <1>1, <3>1, <3>2
    <2> QED BY <2>1, <2>2
<1> HIDE DEF filled
<1>10. \A k \in 1..(n \div 64) : IsBlock(Blocks(d)[k], x, k)
    <2>1. \A k \in 1..(n \div 64) : IsBlock(Blocks(d)[k], d, k)
        BY BlocksCut DEF Cuts, n
    <2>2. \A i \in 1..n : x[64 * 0 + i] = d[i]
        BY <1>1, <1>2
    <2> TAKE k \in 1..(n \div 64)
    <2>3. k \in Nat \ {0} /\ 64 * k <= n /\ 0 + k = k
        BY <1>1
    <2>4. IsBlock(Blocks(d)[k], x, 0 + k)
        BY <1>1, <2>1, <2>2, <2>3, BlockOfPart
    <2> QED BY <2>3, <2>4
<1>11. Blocks(d) \in Seq(Block) /\ Len(Blocks(d)) = n \div 64
    BY BlocksCut DEF Cuts, n
<1> HIDE DEF short, long
<1>12. CASE e = <<>>
    <2>1. x = d
        BY <1>12, ConcatEmptySeq DEF x
    <2> QED BY <1>6, <1>12, <2>1 DEF x
<1>13. CASE e # <<>> /\ o # 0 /\ o + c < 64
    <2>1. md5_append(st, e) = short
        BY <1>6, <1>13
    <2>2. c = m /\ o + m < 64
        BY <1>1, <1>13 DEF c
    <2>3. (n + m) \div 64 = n \div 64 /\ (n + m) % 64 = o + m /\ (n + m) - (o + m) = n - o
        BY <1>1, <2>2 DEF o
    <2>4. Blocks(d) = Blocks(x)
        BY <1>2, <1>10, <1>11, <2>3, CutsOnce DEF Cuts
    <2>5. st = [count |-> n, buf |-> st.buf, done |-> Blocks(d)]
        BY DEF Holds, n
    <2>6. short = [count |-> n + m, buf |-> filled, done |-> Blocks(d)]
        <3> DEFINE bd == Blocks(d)
                   sb == st.buf
                   counted == [st EXCEPT !.count = n + m]
        <3>1. st = [count |-> n, buf |-> sb, done |-> bd]
            BY <2>5
        <3>2. st.count = n
            BY <1>3
        <3> HIDE DEF bd, sb
        <3>3. short = [counted EXCEPT !.buf = filled]
            BY <3>2 DEF short
        <3>4. counted = [count |-> n + m, buf |-> sb, done |-> bd]
            BY <3>1
        <3> HIDE DEF counted
        <3>5. [counted EXCEPT !.buf = filled] = [count |-> n + m, buf |-> filled, done |-> bd]
            BY <3>4
        <3> QED BY <3>3, <3>5 DEF bd
    <2>7. short.buf = filled
        BY <2>6
    <2>8. \A i \in 1..((n + m) % 64) : filled[i] = x[(n + m) - ((n + m) % 64) + i]
        BY <1>9, <2>2, <2>3
    <2>9. Holds(short, x)
        BY <1>2, <1>9, <2>4, <2>6, <2>7, <2>8 DEF Holds
    <2> QED BY <2>1, <2>9 DEF x
<1>14. CASE e # <<>> /\ ~(o # 0 /\ o + c < 64)
    <2> DEFINE mid == IF o # 0 THEN <<filled>> ELSE <<>>
               lm == IF o # 0 THEN 1 ELSE 0
               nb == n \div 64
               nl == (m - c) \div 64
               r == (m - c) % 64
    <2>1. md5_append(st, e) = long
        BY <1>6, <1>14
    <2>2. /\ nb \in Nat /\ nl \in Nat /\ lm \in 0..1 /\ n + c = 64 * (nb + lm)
          /\ (o # 0 => o + c = 64 /\ n - o = 64 * nb)
        BY <1>1, <1>14 DEF o
    <2>3. r \in 0..63 /\ m - c = 64 * nl + r /\ m - c \in Nat
        BY <1>1
    <2> HIDE DEF nb, nl, lm, r
    <2>4. (n + m) \div 64 = nb + lm + nl /\ (n + m) % 64 = r
        BY <1>1, <2>2, <2>3
    <2>5. filled \in Block /\ (o # 0 => IsBlock(filled, x, nb + 1))
        <3>1. filled \in Seq(Octet) /\ Len(filled) = 64
            BY <1>9, BufferIsSeq
        <3>2. ASSUME o # 0, NEW i \in 1..64
              PROVE  filled[i] = x[64 * (nb + 1) - 64 + i]
            <4>1. i \in 1..(o + c) /\ 64 * (nb + 1) - 64 + i = n - o + i
                BY <2>2, <3>2
            <4> QED BY <1>9, <4>1
        <3> QED BY <3>1, <3>2 DEF IsBlock, Block
    <2>6. mid \in Seq(Block) /\ Len(mid) = lm /\ (o # 0 => mid[1] = filled)
        <3>1. CASE o # 0
            <4>1. mid = <<filled>> /\ lm = 1
                BY <3>1 DEF lm
            <4> HIDE DEF mid
            <4> QED BY <2>5, <4>1
        <3>2. CASE o = 0
            <4>1. mid = <<>> /\ lm = 0
                BY <3>2 DEF lm
            <4> HIDE DEF mid
            <4> QED BY <3>2, <4>1
        <3> QED BY <3>1, <3>2
    <2>7. Len(mid) = 1 => IsBlock(mid[1], x, nb + 1)
        BY <2>5, <2>6 DEF lm
    <2> HIDE DEF mid
    <2>8. /\ Blocks(left) \in Seq(Block) /\ Len(Blocks(left)) = nl
          /\ \A k \in 1..nl : IsBlock(Blocks(left)[k], x, (nb + lm) + k)
        <3>1. /\ Blocks(left) \in Seq(Block) /\ Len(Blocks(left)) = nl
              /\ \A k \in 1..nl : IsBlock(Blocks(left)[k], left, k)
            BY <1>8, BlocksCut DEF Cuts, nl
        <3>2. ASSUME NEW i \in 1..(m - c)
              PROVE  x[64 * (nb + lm) + i] = left[i]
            <4>1. 64 * (nb + lm) + i = n + (c + i) /\ c + i \in 1..m
                BY <1>1, <2>2, <2>3
            <4> QED BY <1>2, <1>8, <4>1
        <3>3. ASSUME NEW k \in 1..nl
              PROVE  IsBlock(Blocks(left)[k], x, (nb + lm) + k)
            <4>1. k \in Nat \ {0} /\ 64 * k <= m - c /\ nb + lm \in Nat
                BY <2>2, <2>3
            <4> QED BY <2>3, <3>1, <3>2, <4>1, BlockOfPart
        <3> QED BY <3>1, <3>3
    <2>9. Blocks(d) \o mid \o Blocks(left) = Blocks(x)
        <3>1. Len(Blocks(d)) = nb /\ \A k \in 1..nb : IsBlock(Blocks(d)[k], x, k)
            BY <1>10, <1>11 DEF nb
        <3>2. Len(x) \div 64 = Len(Blocks(d)) + Len(mid) + Len(Blocks(left)) /\ Len(mid) <= 1
            BY <1>2, <2>2, <2>4, <2>6, <2>8, <3>1
        <3> QED BY <1>2, <1>11, <2>6, <2>7, <2>8, <3>1, <3>2, CutsJoined
    <2>10. long = [count |-> n + m, buf |-> CopyTo(filled, 0, rest), done |-> Blocks(x)]
        BY <1>3, <2>9 DEF long, mid
    <2>11. rest \in Seq(Octet) /\ Len(rest) = r /\ \A i \in 1..r : rest[i] = left[((m - c) - r) + i]
        <3> DEFINE p == (m - c) - r + 1
        <3>1. rest = SubSeq(left, p, m - c)
            BY <1>8 DEF r
        <3>2. p \in Int /\ m - c \in Int /\ 1 <= p /\ p - 1 = (m - c) - r
            BY <2>2, <2>3
        <3> HIDE DEF p, rest
        <3>3. \A i \in p..(m - c) : left[i] \in Octet
            BY <1>8, <3>2, ElementOfSeq
        <3> DEFINE v == SubSeq(left, p, m - c)
        <3>4. /\ v \in Seq(Octet)
              /\ Len(v) = IF p <= m - c THEN (m - c) - p + 1 ELSE 0
              /\ \A i \in 1..((m - c) - p + 1) : v[i] = left[p + i - 1]
            BY <3>2, <3>3, SubSeqProperties
        <3>5. rest = v
            BY <3>1
        <3> HIDE DEF v
        <3>6. (m - c) - p + 1 = r
            BY <2>3 DEF p
        <3>7. Len(v) = r
            BY <2>3, <3>2, <3>4, <3>6
        <3>8. ASSUME NEW i \in 1..r
              PROVE  v[i] = left[((m - c) - r) + i]
            <4>1. p + i - 1 = ((m - c) - r) + i
                BY <2>3 DEF p
            <4> QED BY <3>4, <3>6, <4>1
        <3> QED BY <3>4, <3>5, <3>7, <3>8
    <2> HIDE DEF rest
    <2> DEFINE buf == CopyTo(filled, 0, rest)
    <2>12. buf \in Buffer /\ \A i \in 1..r : buf[i] = rest[i]
        <3>1. buf \in Buffer /\ \A i \in 1..Len(rest) : buf[0 + i] = rest[i]
            <4>1. 0 \in 0..64 /\ 0 + Len(rest) <= 64 /\ rest \in Seq(Octet) /\ filled \in Buffer
                BY <1>9, <2>3, <2>11
            <4> QED BY <4>1, Copied
        <3> HIDE DEF buf
        <3>2. \A i \in 1..r : 0 + i = i
            OBVIOUS
        <3> QED BY <2>11, <3>1, <3>2
    <2> HIDE DEF buf
    <2>13. ASSUME NEW i \in 1..r
           PROVE  buf[i] = x[((n + m) - r) + i]
        <3> DEFINE j == ((m - c) - r) + i
        <3>1. j \in 1..(m - c) /\ c + j \in 1..m /\ n + (c + j) = ((n + m) - r) + i
            BY <1>1, <2>2, <2>3
        <3>2. buf[i] = left[j]
            BY <2>11, <2>12
        <3> HIDE DEF j
        <3>3. left[j] = e[c + j] /\ x[n + (c + j)] = e[c + j]
            BY <1>2, <1>8, <3>1
        <3> QED BY <3>1, <3>2, <3>3
    <2>14. long = [count |-> n + m, buf |-> buf, done |-> Blocks(x)]
        BY <2>10 DEF buf
    <2>15. long.buf = buf
        BY <2>14
    <2>16. Holds(long, x)
        BY <1>2, <2>4, <2>12, <2>13, <2>14, <2>15 DEF Holds
    <2> QED BY <2>1, <2>16 DEF x
<1> QED BY <1>12, <1>13, <1>14

\* The bytes of the length, and the length that is read from them.
LEMMA LengthBytesTyped ==
    ASSUME NEW m \in Nat
    PROVE  /\ LengthBytes(m) \in [1..8 -> Octet]
           /\ \E sh \in [0..8 -> Nat] :
                 /\ sh[0] = 8 * m
                 /\ \A i \in 1..8 : sh[i] = sh[i - 1] \div 256
                 /\ \A i \in 1..8 : LengthBytes(m)[i] = sh[i - 1] % 256
<1> DEFINE step == [i \in 1..8 |-> [s \in Nat |-> s \div 256]]
           Solves(F) == F = [i \in 0..8 |-> IF i = 0 THEN 8 * m ELSE F[i - 1] \div 256]
<1>1. step \in [1..8 -> [Nat -> Nat]] /\ 8 * m \in Nat
    OBVIOUS
<1>2. PICK f \in [0..8 -> Nat] : f[0] = 8 * m /\ \A i \in 1..8 : f[i] = step[i][f[i - 1]]
    <2> DEFINE k == 8
               a == 8 * m
               S == Nat
    <2>1. a \in S /\ k \in Nat /\ step \in [1..k -> [S -> S]]
        BY <1>1
    <2> HIDE DEF step, k, a, S
    <2>2. \E f \in [0..k -> S] : f[0] = a /\ \A i \in 1..k : f[i] = step[i][f[i - 1]]
        BY ONLY <2>1, PrimitiveRecursion
    <2> QED BY <2>2 DEF k, a, S
<1>3. Solves(f)
    <2>1. \A i \in 0..8 : f[i] = IF i = 0 THEN 8 * m ELSE f[i - 1] \div 256
        <3> TAKE i \in 0..8
        <3>1. i # 0 => i \in 1..8 /\ f[i - 1] \in Nat
            OBVIOUS
        <3>2. f[i] = IF i = 0 THEN 8 * m ELSE step[i][f[i - 1]]
            <4> HIDE DEF step
            <4> QED BY <1>2
        <3> QED BY <3>1, <3>2
    <2>2. f = [i \in 0..8 |-> f[i]]
        OBVIOUS
    <2> HIDE DEF step
    <2> QED BY <2>1, <2>2
<1> HIDE DEF step
<1> DEFINE Sh == CHOOSE F : Solves(F)
<1>4. Solves(Sh)
    <2> HIDE DEF Solves
    <2> QED BY <1>3
<1>5. LengthBytes(m) = [i \in 1..8 |-> Sh[i - 1] % 256]
    BY Zenon DEF LengthBytes
<1> HIDE DEF Sh
<1>6. Sh[0] = 8 * m /\ \A i \in 1..8 : Sh[i] = Sh[i - 1] \div 256
    <2>1. \A i \in 0..8 : Sh[i] = IF i = 0 THEN 8 * m ELSE Sh[i - 1] \div 256
        BY <1>4
    <2> HIDE DEF Solves
    <2>2. Sh[0] = 8 * m
        BY <2>1
    <2>3. ASSUME NEW i \in 1..8 PROVE Sh[i] = Sh[i - 1] \div 256
        BY <2>1
    <2> QED BY <2>2, <2>3
<1>7. Sh \in [0..8 -> Nat]
    <2> DEFINE G == {i \in 0..8 : Sh[i] \in Nat}
    <2>1. 0 \in G
        BY <1>6
    <2>2. \A i \in 1..8 : i - 1 \in G => i \in G
        BY <1>6
    <2>3. 0..8 \subseteq G
        <3> HIDE DEF G
        <3> QED BY <2>1, <2>2, BoundedInduction, 8 \in Nat
    <2>4. Sh = [i \in 0..8 |-> Sh[i]]
        BY <1>4
    <2> HIDE DEF Solves
    <2> QED BY <2>3, <2>4
<1> HIDE DEF Solves
<1>8. \A i \in 1..8 : Sh[i - 1] % 256 \in Octet
    BY <1>7 DEF Octet
<1> QED BY <1>5, <1>6, <1>7, <1>8

\* A length below 2^61 has eight bytes of bits.
MaxBytes == 65536 * 65536 * 65536 * 8192

LEMMA DividedBack ==
    ASSUME NEW x \in Nat
    PROVE  256 * (x \div 256) + (x % 256) = x
OBVIOUS

LEMMA Divided ==
    ASSUME NEW x \in Nat, NEW b \in Nat, x < 256 * b
    PROVE  x \div 256 < b
OBVIOUS

LEMMA ShiftedOut ==
    ASSUME NEW m \in Nat, m < MaxBytes, NEW sh \in [0..8 -> Nat], sh[0] = 8 * m,
           \A i \in 1..8 : sh[i] = sh[i - 1] \div 256
    PROVE  sh[8] = 0
<1> DEFINE c7 == 256 * 1
           c6 == 256 * c7
           c5 == 256 * c6
           c4 == 256 * c5
           c3 == 256 * c4
           c2 == 256 * c3
           c1 == 256 * c2
           c0 == 256 * c1
<1>1. /\ c7 \in Nat /\ c6 \in Nat /\ c5 \in Nat /\ c4 \in Nat /\ c3 \in Nat /\ c2 \in Nat /\ c1 \in Nat
      /\ MaxBytes = 32 * c1
    BY DEF MaxBytes
<1>2. ASSUME NEW i \in 1..8, NEW b \in Nat, sh[i - 1] < 256 * b
      PROVE  sh[i] < b
    <2>1. sh[i - 1] \in Nat /\ sh[i] = sh[i - 1] \div 256
        OBVIOUS
    <2> QED BY <1>2, <2>1, Divided
<1> HIDE DEF c0, c1, c2, c3, c4, c5, c6, c7
<1>3. sh[0] < 256 * c1
    BY <1>1
<1>4. sh[1] < c1
    BY <1>1, <1>2, <1>3, 1 \in 1..8, 1 - 1 = 0
<1>5. sh[2] < c2
    BY <1>1, <1>2, <1>4, 2 \in 1..8, 2 - 1 = 1 DEF c1
<1>6. sh[3] < c3
    BY <1>1, <1>2, <1>5, 3 \in 1..8, 3 - 1 = 2 DEF c2
<1>7. sh[4] < c4
    BY <1>1, <1>2, <1>6, 4 \in 1..8, 4 - 1 = 3 DEF c3
<1>8. sh[5] < c5
    BY <1>1, <1>2, <1>7, 5 \in 1..8, 5 - 1 = 4 DEF c4
<1>9. sh[6] < c6
    BY <1>1, <1>2, <1>8, 6 \in 1..8, 6 - 1 = 5 DEF c5
<1>10. sh[7] < c7
    BY <1>1, <1>2, <1>9, 7 \in 1..8, 7 - 1 = 6 DEF c6
<1>11. sh[8] < 1
    BY <1>2, <1>10, 1 \in Nat, 8 \in 1..8, 8 - 1 = 7 DEF c7
<1>12. sh[8] \in Nat
    OBVIOUS
<1> QED BY <1>11, <1>12

LEMMA LengthRead ==
    ASSUME NEW m \in Nat, m < MaxBytes, NEW L,
           L[0] = 0, \A i \in 1..8 : L[i] = 256 * L[i - 1] + LengthBytes(m)[9 - i]
    PROVE  L[8] = 8 * m
<1>1. PICK sh \in [0..8 -> Nat] :
         /\ sh[0] = 8 * m
         /\ \A i \in 1..8 : sh[i] = sh[i - 1] \div 256
         /\ \A i \in 1..8 : LengthBytes(m)[i] = sh[i - 1] % 256
    BY LengthBytesTyped
<1>2. sh[8] = 0
    BY <1>1, ShiftedOut
<1> DEFINE G == {i \in 0..8 : L[i] = sh[8 - i]}
<1>3. 0 \in G
    BY <1>2
<1>4. ASSUME NEW i \in 1..8, i - 1 \in G
      PROVE  i \in G
    <2> DEFINE u == L[i - 1]
               v == LengthBytes(m)[9 - i]
               w == sh[8 - i]
    <2>1. 9 - i \in 1..8 /\ (9 - i) - 1 = 8 - i /\ 8 - (i - 1) = 9 - i /\ 8 - i \in 0..8
        OBVIOUS
    <2>2. w \in Nat /\ v = w % 256 /\ u = w \div 256
        BY <1>1, <1>4, <2>1
    <2>3. L[i] = 256 * u + v
        OBVIOUS
    <2> HIDE DEF u, v, w
    <2>4. L[i] = w
        BY <2>2, <2>3, DividedBack
    <2> QED BY <2>4 DEF w
<1>5. 0..8 \subseteq G
    <2> HIDE DEF G
    <2> QED BY <1>3, <1>4, BoundedInduction, 8 \in Nat
<1>6. L[8] = sh[0]
    BY <1>5, 8 - 8 = 0
<1> QED BY <1>1, <1>6

\* What is behind the data.
Padding(m) == [i \in 1..PadLength(m) |-> IF i = 1 THEN 128 ELSE 0]

\* The last block ends with the length.
LEMMA Finished ==
    ASSUME NEW d \in Seq(Octet), NEW st, Holds(st, d)
    PROVE  LET x == (d \o Padding(Len(d))) \o LengthBytes(Len(d))
           IN /\ md5_finish(st) = Blocks(x) /\ x \in Seq(Octet)
              /\ Len(x) = Len(d) + PadLength(Len(d)) + 8 /\ Len(x) % 64 = 0
              /\ PadLength(Len(d)) \in 1..64
              /\ \A i \in 1..(Len(x) - 8) :
                    x[i] = IF i <= Len(d) THEN d[i] ELSE IF i = Len(d) + 1 THEN 128 ELSE 0
              /\ \A i \in 1..8 : x[Len(x) - 8 + i] = LengthBytes(Len(d))[i]
<1> DEFINE m == Len(d)
           p == PadLength(m)
           pad == Padding(m)
           lb == LengthBytes(m)
           y == d \o pad
           x == y \o lb
<1>1. m \in Nat
    OBVIOUS
<1>2. st.count = m
    BY DEF Holds
<1>3. p \in 1..64 /\ (m + p + 8) % 64 = 0
    <2> HIDE DEF m
    <2> QED BY <1>1 DEF PadLength
<1>4. pad \in Seq(Octet) /\ Len(pad) = p /\ \A i \in 1..p : pad[i] = IF i = 1 THEN 128 ELSE 0
    <2>1. pad = [i \in 1..p |-> IF i = 1 THEN 128 ELSE 0]
        BY DEF Padding
    <2> HIDE DEF p, pad
    <2>2. pad \in [1..p -> Octet] /\ p \in Nat
        BY <1>3, <2>1 DEF Octet
    <2>3. pad \in Seq(Octet)
        BY <2>2, SeqDef
    <2>4. Len(pad) = p
        BY <2>2, <2>3
    <2> QED BY <2>1, <2>3, <2>4
<1>5. lb \in Seq(Octet) /\ Len(lb) = 8
    <2> DEFINE w == 8
    <2>1. lb \in [1..w -> Octet] /\ w \in Nat
        BY <1>1, LengthBytesTyped
    <2> HIDE DEF w, lb
    <2>2. lb \in Seq(Octet)
        BY <2>1, SeqDef
    <2>3. Len(lb) = w
        BY <2>1, <2>2
    <2> QED BY <2>2, <2>3 DEF w
<1> HIDE DEF lb
<1>6. md5_finish(st) = md5_append(md5_append(st, pad), lb).done
    BY <1>2 DEF md5_finish, Padding, lb
<1> HIDE DEF pad
<1>7. y \in Seq(Octet) /\ Holds(md5_append(st, pad), y)
    BY <1>4, Appended, ConcatProperties
<1>8. Len(y) = m + p /\ \A i \in 1..(m + p) : y[i] = IF i <= m THEN d[i] ELSE pad[i - m]
    BY <1>4, ConcatProperties
<1> HIDE DEF y
<1>9. x \in Seq(Octet) /\ Holds(md5_append(md5_append(st, pad), lb), x)
    BY <1>5, <1>7, Appended, ConcatProperties
<1>10. Len(x) = Len(y) + 8 /\ \A i \in 1..(Len(y) + 8) : x[i] = IF i <= Len(y) THEN y[i] ELSE lb[i - Len(y)]
    <2>1. Len(x) = Len(y) + Len(lb)
          /\ \A i \in 1..(Len(y) + Len(lb)) : x[i] = IF i <= Len(y) THEN y[i] ELSE lb[i - Len(y)]
        BY <1>5, <1>7, ConcatProperties
    <2> HIDE DEF x
    <2> QED BY <1>5, <2>1
<1> HIDE DEF x
<1>11. md5_finish(st) = Blocks(x)
    <2> DEFINE end == md5_append(md5_append(st, pad), lb)
    <2>1. Holds(end, x) /\ md5_finish(st) = end.done
        BY <1>6, <1>9
    <2> HIDE DEF end
    <2> QED BY <2>1 DEF Holds
<1> HIDE DEF m, p
<1>12. ASSUME NEW i \in 1..(m + p)
       PROVE  x[i] = IF i <= m THEN d[i] ELSE IF i = m + 1 THEN 128 ELSE 0
    <2>1. x[i] = y[i]
        BY <1>1, <1>3, <1>8, <1>10
    <2>2. i > m => i - m \in 1..p /\ (i - m = 1 <=> i = m + 1)
        BY <1>1, <1>3
    <2>3. i > m => pad[i - m] = IF i = m + 1 THEN 128 ELSE 0
        BY <1>4, <2>2
    <2> QED BY <1>1, <1>8, <2>1, <2>3
<1>13. ASSUME NEW i \in 1..8
       PROVE  x[(m + p) + i] = lb[i]
    <2>1. (m + p) + i \in 1..(Len(y) + 8) /\ ~((m + p) + i <= Len(y)) /\ ((m + p) + i) - Len(y) = i
        BY <1>1, <1>3, <1>8
    <2> QED BY <1>10, <2>1
<1>14. Len(x) = m + p + 8 /\ Len(x) - 8 = m + p
    BY <1>1, <1>3, <1>8, <1>10
<1> QED BY <1>3, <1>9, <1>11, <1>12, <1>13, <1>14 DEF x, y, m, p, pad, lb

\* The bytes of whole blocks, by their number.
LEMMA ByteOfBlocks ==
    ASSUME NEW x \in Seq(Octet), Len(x) % 64 = 0, NEW i \in 1..Len(x)
    PROVE  Blocks(x)[((i - 1) \div 64) + 1][((i - 1) % 64) + 1] = x[i]
<1> DEFINE k == ((i - 1) \div 64) + 1
           j == ((i - 1) % 64) + 1
           n == Len(x)
           v == Blocks(x)[k]
<1>1. n \in Nat /\ n % 64 = 0 /\ i \in 1..n
    OBVIOUS
<1>2. Cuts(Blocks(x), x)
    BY BlocksCut
<1> HIDE DEF n
<1>3. k \in 1..(n \div 64) /\ j \in 1..64 /\ 64 * k - 64 + j = i
    BY <1>1
<1>4. IsBlock(v, x, k)
    BY <1>2, <1>3 DEF Cuts, n
<1> HIDE DEF k, j, v
<1>5. v[j] = x[i]
    BY <1>3, <1>4 DEF IsBlock
<1> QED BY <1>5 DEF v, k, j

Messages == {p \in Seq(Octet) \X Nat : p[2] <= Len(p[1]) /\ Len(p[1]) < MaxBytes}

LEMMA PiecesJoined ==
    ASSUME NEW data \in Seq(Octet), NEW c \in 0..Len(data)
    PROVE  Holds(md5_append(md5_append(md5_init, SubSeq(data, 1, c)),
                            SubSeq(data, c + 1, Len(data))), data)
<1> DEFINE p == SubSeq(data, 1, c)
           q == SubSeq(data, c + 1, Len(data))
<1>1. Len(data) \in Nat /\ \A i \in 1..Len(data) : data[i] \in Octet
    BY ElementOfSeq
<1>2. p \in Seq(Octet)
    <2>1. 1 \in Int /\ c \in Int /\ \A i \in 1..c : data[i] \in Octet
        BY <1>1
    <2> QED BY <2>1, SubSeqProperties
<1>3. q \in Seq(Octet)
    <2> DEFINE a == c + 1
               b == Len(data)
    <2>1. a \in Int /\ b \in Int /\ \A i \in a..b : data[i] \in Octet
        BY <1>1
    <2> HIDE DEF a, b
    <2>2. SubSeq(data, a, b) \in Seq(Octet)
        BY <2>1, SubSeqProperties
    <2> QED BY <2>2 DEF a, b
<1>4. p \o q = data
    <2>1. 1 \in 1..(Len(data) + 1) /\ c \in (1 - 1)..Len(data) /\ Len(data) \in c..Len(data)
        BY <1>1
    <2>2. p \o q = SubSeq(data, 1, Len(data))
        BY <2>1, ConcatAdjacentSubSeq
    <2> QED BY <2>2, SubSeqFull
<1> HIDE DEF p, q
<1>5. <<>> \in Seq(Octet) /\ <<>> \o p = p
    BY <1>2, ConcatEmptySeq, EmptySeq
<1>6. Holds(md5_append(md5_init, p), <<>> \o p)
    BY <1>2, <1>5, HoldsInit, Appended
<1>7. Holds(md5_append(md5_append(md5_init, p), q), p \o q)
    BY <1>2, <1>3, <1>5, <1>6, Appended
<1> QED BY <1>4, <1>7 DEF p, q

LEMMA AppendedInPieces ==
    ASSUME CallTyped, MessageArgs \subseteq Messages
    PROVE  AppendInPieces
<1> SUFFICES ASSUME Called("append")
             PROVE  AppendInPieces
    BY DEF AppendInPieces
<1> DEFINE data == arg[1]
           c == arg[2]
           m == Len(data)
           st == md5_append(md5_init, data)
           whole == md5_finish(st)
           pieces == md5_append(md5_append(md5_init, SubSeq(data, 1, c)), SubSeq(data, c + 1, m))
           n == 64 * Len(whole)
           Byte(i) == whole[((i - 1) \div 64) + 1][((i - 1) % 64) + 1]
           x == (data \o Padding(m)) \o LengthBytes(m)
<1>1. data \in Seq(Octet) /\ c \in 0..m /\ m < MaxBytes /\ m \in Nat
    <2>1. arg \in Messages
        BY DEF CallTyped, Called, arg
    <2> QED BY <2>1 DEF Messages
<1> HIDE DEF data, c
<1>2. Holds(st, data)
    <2>1. <<>> \in Seq(Octet) /\ <<>> \o data = data
        BY <1>1, ConcatEmptySeq, EmptySeq
    <2> QED BY <1>1, <2>1, HoldsInit, Appended
<1>3. Holds(pieces, data)
    BY <1>1, PiecesJoined
<1> DEFINE p == PadLength(m)
<1>4. /\ whole = Blocks(x) /\ x \in Seq(Octet)
      /\ Len(x) = m + p + 8 /\ Len(x) % 64 = 0 /\ p \in 1..64
      /\ \A i \in 1..(Len(x) - 8) : x[i] = IF i <= m THEN data[i] ELSE IF i = m + 1 THEN 128 ELSE 0
      /\ \A i \in 1..8 : x[Len(x) - 8 + i] = LengthBytes(m)[i]
    <2> HIDE DEF st
    <2> QED BY <1>1, <1>2, Finished
<1>5. md5_finish(pieces) = whole
    <2>1. md5_finish(pieces) = Blocks(x)
        <3> HIDE DEF pieces
        <3> QED BY <1>1, <1>3, Finished
    <2> QED BY <1>4, <2>1
<1>6. Cuts(whole, x)
    <2>1. Cuts(Blocks(x), x)
        <3> HIDE DEF x
        <3> QED BY <1>4, BlocksCut
    <2> QED BY <1>4, <2>1
<1>7. ASSUME NEW i \in 1..Len(x)
      PROVE  Byte(i) = x[i]
    <2>1. Blocks(x)[((i - 1) \div 64) + 1][((i - 1) % 64) + 1] = x[i]
        <3> HIDE DEF x
        <3> QED BY <1>4, ByteOfBlocks
    <2> QED BY <1>4, <2>1
<1> HIDE DEF x, whole, pieces, st, m, p
<1>8. /\ Len(x) = n /\ n \in Nat /\ DOMAIN whole = 1..Len(whole)
      /\ \A k \in DOMAIN whole : Len(whole[k]) = 64
    <2>1. /\ whole \in Seq(Block) /\ Len(whole) = Len(x) \div 64 /\ Len(x) \in Nat
          /\ \A k \in 1..(Len(x) \div 64) : IsBlock(whole[k], x, k)
        BY <1>4, <1>6 DEF Cuts
    <2>2. DOMAIN whole = 1..Len(whole)
        BY <2>1
    <2>3. Len(x) = n
        BY <1>4, <2>1
    <2> HIDE DEF n
    <2> QED BY <2>1, <2>2, <2>3 DEF IsBlock
<1> HIDE DEF n
<1>9. n - 64 < m + 9 /\ m + 9 <= n /\ n = m + p + 8
    <2>1. n = m + p + 8 /\ p \in 1..64 /\ m \in Nat
        BY <1>1, <1>4, <1>8
    <2> QED BY <2>1
<1>10. ASSUME NEW i \in 1..(n - 8)
       PROVE  Byte(i) = IF i <= m THEN data[i] ELSE IF i = m + 1 THEN 128 ELSE 0
    <2>1. i \in 1..Len(x) /\ i \in 1..(Len(x) - 8)
        BY <1>8
    <2> HIDE DEF Byte
    <2> QED BY <1>4, <1>7, <2>1
<1> DEFINE Length[i \in 0..8] == IF i = 0 THEN 0 ELSE 256 * Length[i - 1] + Byte(n + 1 - i)
<1>11. Length[8] = 8 * m
    <2>1. ASSUME NEW i \in 1..8
          PROVE  Byte(n + 1 - i) = LengthBytes(m)[9 - i] /\ Byte(n + 1 - i) \in Nat
        <3> DEFINE j == n + 1 - i
        <3>1. j \in 1..n /\ 9 - i \in 1..8 /\ j = n - 8 + (9 - i)
            <4>1. n \in Nat /\ n >= 8
                BY <1>1, <1>8, <1>9
            <4> QED BY <4>1
        <3> HIDE DEF j, Byte
        <3>2. x[j] = LengthBytes(m)[9 - i]
            BY <1>4, <1>8, <3>1
        <3>3. j \in 1..Len(x)
            BY <1>8, <3>1
        <3>4. x[j] \in Octet
            BY <1>4, <3>3, ElementOfSeq
        <3>5. Byte(j) = LengthBytes(m)[9 - i] /\ Byte(j) \in Nat
            <4>1. Byte(j) = x[j]
                BY <1>7, <3>3
            <4>2. x[j] \in Nat
                BY <3>4 DEF Octet
            <4> QED BY <3>2, <4>1, <4>2
        <3> QED BY <3>5 DEF j
    <2> HIDE DEF Byte
    <2> DEFINE step == [i \in 1..8 |-> [s \in Nat |-> 256 * s + Byte(n + 1 - i)]]
               Solves(F) == F = [i \in 0..8 |-> IF i = 0 THEN 0 ELSE 256 * F[i - 1] + Byte(n + 1 - i)]
    <2>2. step \in [1..8 -> [Nat -> Nat]]
        BY <2>1
    <2>3. PICK f \in [0..8 -> Nat] : f[0] = 0 /\ \A i \in 1..8 : f[i] = step[i][f[i - 1]]
        <3> DEFINE k == 8
                   a == 0
                   S == Nat
        <3>1. a \in S /\ k \in Nat /\ step \in [1..k -> [S -> S]]
            BY <2>2
        <3> HIDE DEF step, k, a, S
        <3>2. \E f \in [0..k -> S] : f[0] = a /\ \A i \in 1..k : f[i] = step[i][f[i - 1]]
            BY ONLY <3>1, PrimitiveRecursion
        <3> QED BY <3>2 DEF k, a, S
    <2>4. Solves(f)
        <3>1. ASSUME NEW i \in 0..8
              PROVE  f[i] = IF i = 0 THEN 0 ELSE 256 * f[i - 1] + Byte(n + 1 - i)
            <4>1. i # 0 => i \in 1..8 /\ f[i - 1] \in Nat
                OBVIOUS
            <4>2. i # 0 => step[i][f[i - 1]] = 256 * f[i - 1] + Byte(n + 1 - i)
                BY <4>1
            <4> HIDE DEF step
            <4> QED BY <2>3, <4>1, <4>2
        <3>2. f = [i \in 0..8 |-> f[i]]
            OBVIOUS
        <3> HIDE DEF step
        <3> QED BY <3>1, <3>2
    <2> HIDE DEF step
    <2>5. Solves(Length)
        <3>1. Length = CHOOSE F : Solves(F)
            BY Zenon
        <3> HIDE DEF Solves, Length
        <3> QED BY <2>4, <3>1
    <2> HIDE DEF Length
    <2>6. \A i \in 0..8 : Length[i] = IF i = 0 THEN 0 ELSE 256 * Length[i - 1] + Byte(n + 1 - i)
        BY <2>5
    <2> HIDE DEF Solves
    <2>7. Length[0] = 0
        BY <2>6
    <2>8. ASSUME NEW i \in 1..8
          PROVE  Length[i] = 256 * Length[i - 1] + LengthBytes(m)[9 - i]
        <3>1. Length[i] = 256 * Length[i - 1] + Byte(n + 1 - i)
            BY <2>6
        <3> QED BY <2>1, <3>1
    <2> QED BY <1>1, <2>7, <2>8, LengthRead
<1>12. arg[1] = data /\ arg[2] = c
    BY DEF data, c
<1> QED BY <1>5, <1>8, <1>9, <1>10, <1>11, <1>12 DEF AppendInPieces, whole, pieces, st, n, m

\* The blocks that md5 processes are those of the data, however they are cut and
\* whatever is left in the buffer.
THEOREM DigestOfTheWhole ==
    ASSUME MessageArgs \subseteq Messages
    PROVE  CodecsSpec => []AppendInPieces
<1>1. CallTyped => AppendInPieces
    BY AppendedInPieces
<1> QED BY <1>1, Arguments, PTL
----------------------------------------------------------------------------
(* Words and numbers.                                                       *)

LEMMA PowerDefined ==
    /\ Power \in [0..Width -> Nat \ {0}] /\ Power[0] = 1
    /\ \A k \in 1..Width : Power[k] = 2 * Power[k - 1]
<1> DEFINE S == Nat \ {0}
           n == Width
           a == 1
           step == [k \in 1..n |-> [s \in S |-> 2 * s]]
           Solves(F) == F = [k \in 0..n |-> IF k = 0 THEN 1 ELSE 2 * F[k - 1]]
<1>1. a \in S /\ n \in Nat /\ step \in [1..n -> [S -> S]]
    BY WidthTyped
<1>2. PICK f \in [0..n -> S] : f[0] = a /\ \A k \in 1..n : f[k] = step[k][f[k - 1]]
    <2> HIDE DEF step, n, a, S
    <2> QED BY ONLY <1>1, PrimitiveRecursion
<1>3. Solves(f)
    <2>1. ASSUME NEW k \in 0..n
          PROVE  f[k] = IF k = 0 THEN 1 ELSE 2 * f[k - 1]
        <3>1. k # 0 => k \in 1..n /\ f[k - 1] \in S
            BY <1>1
        <3>2. k # 0 => step[k][f[k - 1]] = 2 * f[k - 1]
            BY <3>1
        <3> HIDE DEF step
        <3> QED BY <1>2, <3>1, <3>2
    <2>2. f = [k \in 0..n |-> f[k]]
        OBVIOUS
    <2> HIDE DEF step
    <2> QED BY <2>1, <2>2
<1> HIDE DEF step
<1>4. Solves(Power)
    <2>1. Power = CHOOSE F : Solves(F)
        BY Zenon DEF Power
    <2> HIDE DEF Solves
    <2> QED BY <1>3, <2>1
<1>5. \A k \in 0..n : Power[k] = IF k = 0 THEN 1 ELSE 2 * Power[k - 1]
    BY <1>4
<1>6. Power = [k \in 0..n |-> Power[k]]
    BY <1>4
<1> HIDE DEF Solves
<1> DEFINE G == {k \in 0..n : Power[k] \in S}
<1>7. 0 \in G
    BY <1>1, <1>5
<1>8. \A k \in 1..n : k - 1 \in G => k \in G
    BY <1>5
<1>9. 0..n \subseteq G
    <2> HIDE DEF G, n
    <2> QED BY <1>1, <1>7, <1>8, BoundedInduction
<1>10. Power \in [0..n -> S]
    BY <1>6, <1>9
<1>11. Power[0] = 1 /\ \A k \in 1..n : Power[k] = 2 * Power[k - 1]
    BY <1>1, <1>5
<1> QED BY <1>10, <1>11

\* The number of the lowest k bits of a word.
Bit(w, k) == IF k - 1 \in w THEN Power[k - 1] ELSE 0
SumOf(w) == CHOOSE F : F = [k \in 0..Width |-> IF k = 0 THEN 0 ELSE F[k - 1] + Bit(w, k)]

LEMMA BitNat ==
    ASSUME NEW w, NEW k \in 1..Width
    PROVE  Bit(w, k) \in Nat /\ Power[k - 1] \in Nat /\ Power[k - 1] > 0 /\ Power[k] = 2 * Power[k - 1]
<1>1. k - 1 \in 0..Width
    BY WidthTyped
<1> QED BY <1>1, PowerDefined DEF Bit

LEMMA SumDefined ==
    ASSUME NEW w
    PROVE  /\ SumOf(w) \in [0..Width -> Nat] /\ SumOf(w)[0] = 0
           /\ \A k \in 1..Width : SumOf(w)[k] = SumOf(w)[k - 1] + Bit(w, k)
           /\ Number(w) = SumOf(w)[Width]
<1> DEFINE S == Nat
           n == Width
           a == 0
           step == [k \in 1..n |-> [s \in S |-> s + Bit(w, k)]]
           Solves(F) == F = [k \in 0..n |-> IF k = 0 THEN 0 ELSE F[k - 1] + Bit(w, k)]
<1>0. n \in Nat
    BY WidthTyped
<1>1. a \in S /\ n \in Nat /\ step \in [1..n -> [S -> S]]
    BY <1>0, BitNat
<1>2. PICK f \in [0..n -> S] : f[0] = a /\ \A k \in 1..n : f[k] = step[k][f[k - 1]]
    <2> HIDE DEF step, n, a, S
    <2> QED BY ONLY <1>1, PrimitiveRecursion
<1>3. Solves(f)
    <2>1. ASSUME NEW k \in 0..n
          PROVE  f[k] = IF k = 0 THEN 0 ELSE f[k - 1] + Bit(w, k)
        <3>1. k # 0 => k \in 1..n /\ f[k - 1] \in S
            BY <1>0
        <3>2. k # 0 => step[k][f[k - 1]] = f[k - 1] + Bit(w, k)
            BY <3>1
        <3> HIDE DEF step
        <3> QED BY <1>2, <3>1, <3>2
    <2>2. f = [k \in 0..n |-> f[k]]
        OBVIOUS
    <2> HIDE DEF step
    <2> QED BY <2>1, <2>2
<1> HIDE DEF step
<1>4. Solves(SumOf(w))
    <2>1. SumOf(w) = CHOOSE F : Solves(F)
        BY Zenon DEF SumOf
    <2> HIDE DEF Solves
    <2> QED BY <1>3, <2>1
<1>5. Number(w) = SumOf(w)[Width]
    BY Zenon DEF Number, SumOf, Bit
<1> DEFINE T == SumOf(w)
<1> HIDE DEF T
<1>6. T = [k \in 0..n |-> IF k = 0 THEN 0 ELSE T[k - 1] + Bit(w, k)]
    BY <1>4 DEF T
<1> HIDE DEF Solves
<1>7. DOMAIN T = 0..n /\ T = [k \in 0..n |-> T[k]]
    BY <1>6
<1>8. \A k \in 0..n : T[k] = IF k = 0 THEN 0 ELSE T[k - 1] + Bit(w, k)
    BY <1>6
<1>11. T[0] = 0 /\ \A k \in 1..n : T[k] = T[k - 1] + Bit(w, k)
    BY <1>0, <1>8
<1> DEFINE G == {k \in 0..n : T[k] \in Nat}
<1>12. 0 \in G
    BY <1>0, <1>11
<1>13. ASSUME NEW k \in 1..n, k - 1 \in G PROVE k \in G
    <2>1. T[k] = T[k - 1] + Bit(w, k) /\ T[k - 1] \in Nat /\ Bit(w, k) \in Nat
        BY <1>11, <1>13, BitNat
    <2>2. T[k] \in Nat
        BY <2>1
    <2> QED BY <2>2
<1>9. 0..n \subseteq G
    <2> HIDE DEF G, n
    <2> QED BY <1>0, <1>12, <1>13, BoundedInduction
<1>10. T \in [0..n -> Nat]
    BY <1>7, <1>9
<1> QED BY <1>5, <1>10, <1>11 DEF T

\* The lowest k bits make a number below the power of k.
LEMMA SumBelow ==
    ASSUME NEW w, NEW k \in 0..Width
    PROVE  SumOf(w)[k] \in Nat /\ SumOf(w)[k] < Power[k]
<1> DEFINE T == SumOf(w)
           G == {i \in 0..Width : T[i] < Power[i]}
<1>1. /\ T \in [0..Width -> Nat] /\ T[0] = 0
      /\ \A i \in 1..Width : T[i] = T[i - 1] + Bit(w, i)
    BY SumDefined
<1> HIDE DEF T
<1>2. 0 \in G
    BY <1>1, PowerDefined, WidthTyped
<1>3. ASSUME NEW i \in 1..Width, i - 1 \in G
      PROVE  i \in G
    <2>1. T[i] = T[i - 1] + Bit(w, i) /\ T[i - 1] \in Nat /\ T[i - 1] < Power[i - 1]
        BY <1>1, <1>3
    <2>2. Power[i - 1] \in Nat /\ Power[i] = 2 * Power[i - 1]
        BY BitNat
    <2>3. Bit(w, i) \in Nat /\ Bit(w, i) <= Power[i - 1]
        BY <2>2 DEF Bit
    <2>4. T[i] < Power[i]
        BY <2>1, <2>2, <2>3
    <2> QED BY <2>4
<1>4. 0..Width \subseteq G
    <2> HIDE DEF G
    <2> QED BY <1>2, <1>3, BoundedInduction, WidthTyped
<1> QED BY <1>1, <1>4 DEF T

\* It depends on those bits only.
LEMMA SumOfLowBits ==
    ASSUME NEW v, NEW w, NEW k \in 0..Width, \A i \in 0..(k - 1) : i \in v <=> i \in w
    PROVE  SumOf(v)[k] = SumOf(w)[k]
<1> DEFINE G == {i \in 0..k : SumOf(v)[i] = SumOf(w)[i]}
<1>1. 0 \in G
    BY SumDefined
<1>2. ASSUME NEW i \in 1..k, i - 1 \in G
      PROVE  i \in G
    <2>1. i \in 1..Width /\ i - 1 \in 0..(k - 1)
        BY WidthTyped
    <2>2. Bit(v, i) = Bit(w, i)
        BY <2>1 DEF Bit
    <2>3. SumOf(v)[i] = SumOf(v)[i - 1] + Bit(v, i) /\ SumOf(w)[i] = SumOf(w)[i - 1] + Bit(w, i)
        BY <2>1, SumDefined
    <2>4. SumOf(v)[i - 1] = SumOf(w)[i - 1]
        BY <1>2
    <2> QED BY <2>2, <2>3, <2>4
<1>3. k \in Nat
    BY WidthTyped
<1>4. 0..k \subseteq G
    <2> HIDE DEF G
    <2> QED BY <1>1, <1>2, <1>3, BoundedInduction
<1> QED BY <1>3, <1>4

\* Words without a common bit are added.
LEMMA SumOfUnion ==
    ASSUME NEW v, NEW w, v \cap w = {}, NEW k \in 0..Width
    PROVE  SumOf(v \cup w)[k] = SumOf(v)[k] + SumOf(w)[k]
<1> DEFINE u == v \cup w
           G == {i \in 0..Width : SumOf(u)[i] = SumOf(v)[i] + SumOf(w)[i]}
<1>1. 0 \in G
    <2>1. SumOf(u)[0] = 0 /\ SumOf(v)[0] = 0 /\ SumOf(w)[0] = 0
        BY SumDefined
    <2> HIDE DEF u
    <2> QED BY <2>1, WidthTyped
<1>2. ASSUME NEW i \in 1..Width, i - 1 \in G
      PROVE  i \in G
    <2>1. Power[i - 1] \in Nat
        BY BitNat
    <2>2. Bit(u, i) = Bit(v, i) + Bit(w, i)
        BY <2>1 DEF Bit
    <2> HIDE DEF u
    <2>3. /\ SumOf(u)[i] = SumOf(u)[i - 1] + Bit(u, i)
          /\ SumOf(v)[i] = SumOf(v)[i - 1] + Bit(v, i)
          /\ SumOf(w)[i] = SumOf(w)[i - 1] + Bit(w, i)
        BY SumDefined
    <2>4. /\ SumOf(u)[i - 1] = SumOf(v)[i - 1] + SumOf(w)[i - 1]
        BY <1>2
    <2>5. SumOf(v)[i - 1] \in Nat /\ SumOf(w)[i - 1] \in Nat /\ Bit(v, i) \in Nat /\ Bit(w, i) \in Nat
        <3>1. i - 1 \in 0..Width
            BY WidthTyped
        <3> QED BY <3>1, SumBelow, BitNat
    <2>6. SumOf(u)[i] = SumOf(v)[i] + SumOf(w)[i]
        BY <2>2, <2>3, <2>4, <2>5
    <2> QED BY <2>6
<1>3. 0..Width \subseteq G
    <2> HIDE DEF G
    <2> QED BY <1>1, <1>2, BoundedInduction, WidthTyped
<1> QED BY <1>3

LEMMA SumGrows ==
    ASSUME NEW v, NEW w, v \subseteq w, NEW k \in 0..Width
    PROVE  SumOf(v)[k] <= SumOf(w)[k]
<1> DEFINE d == w \ v
<1>1. v \cap d = {} /\ v \cup d = w
    OBVIOUS
<1> HIDE DEF d
<1>2. SumOf(v \cup d)[k] = SumOf(v)[k] + SumOf(d)[k]
    BY <1>1, SumOfUnion
<1>3. SumOf(w)[k] = SumOf(v)[k] + SumOf(d)[k]
    BY <1>1, <1>2
<1>4. SumOf(v)[k] \in Nat /\ SumOf(d)[k] \in Nat
    BY SumBelow
<1> QED BY <1>3, <1>4

\* Without the bits from p on nothing is added after p.
LEMMA SumOfLowWord ==
    ASSUME NEW p \in 0..Width, NEW w, w \subseteq 0..(p - 1)
    PROVE  Number(w) = SumOf(w)[p] /\ Number(w) \in Nat /\ Number(w) < Power[p]
<1> DEFINE G == {i \in Nat : p + i <= Width => SumOf(w)[p + i] = SumOf(w)[p]}
<1>0. p \in Nat /\ Width \in Nat /\ p <= Width
    BY WidthTyped
<1>1. G \subseteq Nat /\ 0 \in G
    BY <1>0
<1>2. ASSUME NEW i \in G
      PROVE  i + 1 \in G
    <2>1. i \in Nat
        OBVIOUS
    <2>2. CASE p + (i + 1) <= Width
        <3> DEFINE j == p + (i + 1)
        <3>1. j \in 1..Width /\ j - 1 = p + i /\ p + i <= Width /\ j - 1 \notin w /\ j - 1 \in 0..Width
            BY <1>0, <2>1, <2>2
        <3>2. SumOf(w)[j - 1] = SumOf(w)[p]
            BY <3>1
        <3> HIDE DEF j
        <3>3. SumOf(w)[j] = SumOf(w)[j - 1] + Bit(w, j)
            BY <3>1, SumDefined
        <3>4. Bit(w, j) = 0
            BY <3>1 DEF Bit
        <3>5. SumOf(w)[j - 1] \in Nat
            BY <3>1, SumBelow
        <3>6. SumOf(w)[j] = SumOf(w)[p]
            BY <3>2, <3>3, <3>4, <3>5
        <3> QED BY <2>1, <3>6 DEF j
    <2>3. CASE ~(p + (i + 1) <= Width)
        BY <2>1, <2>3
    <2> QED BY <2>2, <2>3
<1>3. G = Nat
    <2> HIDE DEF G
    <2> QED BY <1>1, <1>2, SetInduction
<1>4. Width - p \in G /\ p + (Width - p) = Width
    <2>1. Width - p \in Nat /\ p + (Width - p) = Width
        BY <1>0
    <2> HIDE DEF G
    <2> QED BY <1>3, <2>1
<1>5. SumOf(w)[Width] = SumOf(w)[p]
    BY <1>0, <1>4
<1>6. Number(w) = SumOf(w)[Width]
    BY SumDefined
<1>7. SumOf(w)[p] \in Nat /\ SumOf(w)[p] < Power[p]
    BY SumBelow
<1> QED BY <1>5, <1>6, <1>7

\* Different words have different numbers.
LEMMA SumTellsApart ==
    ASSUME NEW v, NEW w, NEW k \in 0..Width, SumOf(v)[k] = SumOf(w)[k]
    PROVE  \A i \in 0..(k - 1) : i \in v <=> i \in w
<1> DEFINE G == {j \in 0..Width : SumOf(v)[j] = SumOf(w)[j] =>
                                     \A i \in 0..(j - 1) : i \in v <=> i \in w}
<1>0. Width \in Nat
    BY WidthTyped
<1>1. 0 \in G
    BY <1>0
<1>2. ASSUME NEW j \in 1..Width, j - 1 \in G
      PROVE  j \in G
    <2>0. j \in 0..Width /\ j - 1 \in 0..Width
        BY <1>0
    <2> SUFFICES ASSUME SumOf(v)[j] = SumOf(w)[j]
                 PROVE  \A i \in 0..(j - 1) : i \in v <=> i \in w
        BY <2>0
    <2> DEFINE q == Power[j - 1]
               a == SumOf(v)[j - 1]
               b == SumOf(w)[j - 1]
    <2>1. a \in Nat /\ b \in Nat /\ a < q /\ b < q
        BY <2>0, SumBelow
    <2>2. SumOf(v)[j] = a + Bit(v, j) /\ SumOf(w)[j] = b + Bit(w, j)
        BY SumDefined
    <2>3. Bit(v, j) = (IF j - 1 \in v THEN q ELSE 0) /\ Bit(w, j) = (IF j - 1 \in w THEN q ELSE 0)
        BY DEF Bit
    <2>4. q \in Nat
        BY BitNat
    <2> HIDE DEF q, a, b
    <2>5. a + Bit(v, j) = b + Bit(w, j)
        BY <2>2
    <2>6. a = b /\ (j - 1 \in v <=> j - 1 \in w)
        BY <2>1, <2>3, <2>4, <2>5
    <2>7. \A i \in 0..((j - 1) - 1) : i \in v <=> i \in w
        BY <1>2, <2>6 DEF a, b
    <2>8. \A i \in 0..(j - 1) : i = j - 1 \/ i \in 0..((j - 1) - 1)
        BY <1>0
    <2> QED BY <2>6, <2>7, <2>8
<1>3. 0..Width \subseteq G
    <2> HIDE DEF G
    <2> QED BY <1>0, <1>1, <1>2, BoundedInduction
<1> QED BY <1>3

\* Every number below the power of k has a word.
LEMMA SumReaches ==
    ASSUME NEW k \in 0..Width, NEW n \in Nat, n < Power[k]
    PROVE  \E w \in SUBSET (0..(k - 1)) : SumOf(w)[k] = n
<1> DEFINE Reached(j) == \A m \in Nat : m < Power[j] => \E w \in SUBSET (0..(j - 1)) : SumOf(w)[j] = m
           G == {j \in 0..Width : Reached(j)}
<1>0. Width \in Nat
    BY WidthTyped
<1>1. 0 \in G
    <2>1. ASSUME NEW m \in Nat, m < Power[0]
          PROVE  \E w \in SUBSET (0..(0 - 1)) : SumOf(w)[0] = m
        <3>1. m = 0
            BY <2>1, PowerDefined
        <3>2. {} \in SUBSET (0..(0 - 1)) /\ SumOf({})[0] = 0
            BY SumDefined
        <3> QED BY <3>1, <3>2
    <2> QED BY <1>0, <2>1
<1>2. ASSUME NEW j \in 1..Width, j - 1 \in G
      PROVE  j \in G
    <2>0. j \in 0..Width /\ j - 1 \in 0..Width
        BY <1>0
    <2> SUFFICES ASSUME NEW m \in Nat, m < Power[j]
                 PROVE  \E w \in SUBSET (0..(j - 1)) : SumOf(w)[j] = m
        BY <2>0
    <2> DEFINE q == Power[j - 1]
    <2>1. q \in Nat /\ Power[j] = 2 * q
        BY BitNat
    <2>2. Reached(j - 1)
        BY <1>2
    <2>3. ASSUME NEW r \in Nat, r < q
          PROVE  \E v \in SUBSET (0..((j - 1) - 1)) : SumOf(v)[j - 1] = r
        BY <2>2, <2>3
    <2> HIDE DEF q, Reached
    <2>4. CASE m < q
        <3>1. PICK v \in SUBSET (0..((j - 1) - 1)) : SumOf(v)[j - 1] = m
            BY <2>3, <2>4
        <3>2. j - 1 \notin v /\ v \in SUBSET (0..(j - 1))
            BY <1>0
        <3>3. SumOf(v)[j] = SumOf(v)[j - 1] + Bit(v, j)
            BY SumDefined
        <3>4. Bit(v, j) = 0
            BY <3>2 DEF Bit
        <3>5. SumOf(v)[j] = m
            BY <3>1, <3>3, <3>4
        <3> QED BY <3>2, <3>5
    <2>5. CASE ~(m < q)
        <3>0. m - q \in Nat /\ m - q < q
            BY <2>1, <2>5
        <3>1. PICK v \in SUBSET (0..((j - 1) - 1)) : SumOf(v)[j - 1] = m - q
            BY <2>3, <3>0
        <3> DEFINE w == v \cup {j - 1}
        <3>2. j - 1 \in w /\ w \in SUBSET (0..(j - 1)) /\ \A i \in 0..((j - 1) - 1) : i \in w <=> i \in v
            BY <1>0
        <3> HIDE DEF w
        <3>3. SumOf(w)[j] = SumOf(w)[j - 1] + Bit(w, j)
            BY SumDefined
        <3>4. Bit(w, j) = q
            BY <3>2 DEF Bit, q
        <3>5. SumOf(w)[j - 1] = SumOf(v)[j - 1]
            BY <2>0, <3>2, SumOfLowBits
        <3>6. SumOf(w)[j] = m
            BY <2>1, <3>1, <3>3, <3>4, <3>5
        <3> QED BY <3>2, <3>6
    <2> QED BY <2>4, <2>5
<1>3. 0..Width \subseteq G
    <2> HIDE DEF G
    <2> QED BY <1>0, <1>1, <1>2, BoundedInduction
<1> QED BY <1>3

LEMMA BitsOfNumber ==
    ASSUME NEW w \in Word
    PROVE  Bits(Number(w)) = w
<1> DEFINE n == Number(w)
           b == Bits(n)
<1>0. Width \in Nat /\ Width \in 0..Width
    BY WidthTyped
<1>1. b \in Word /\ Number(b) = n
    <2>1. \E v \in Word : Number(v) = n
        OBVIOUS
    <2> HIDE DEF n
    <2> QED BY <2>1 DEF Bits
<1> HIDE DEF b
<1>2. SumOf(b)[Width] = SumOf(w)[Width]
    BY <1>1, SumDefined DEF n
<1>3. \A i \in 0..(Width - 1) : i \in b <=> i \in w
    BY <1>0, <1>2, SumTellsApart
<1>4. b = w
    BY <1>1, <1>3 DEF Word
<1> QED BY <1>4 DEF b, n

LEMMA BitsOfLowNumber ==
    ASSUME NEW p \in 0..Width, NEW n \in Nat, n < Power[p]
    PROVE  Bits(n) \subseteq 0..(p - 1) /\ Number(Bits(n)) = n
<1>1. PICK w \in SUBSET (0..(p - 1)) : SumOf(w)[p] = n
    BY SumReaches
<1>2. Number(w) = n
    BY <1>1, SumOfLowWord
<1>3. w \in Word
    BY WidthTyped DEF Word
<1>4. Bits(n) = w
    BY <1>2, <1>3, BitsOfNumber
<1> QED BY <1>2, <1>4

\* The number of a host in a subnet.
LEMMA NumberOfUnion ==
    ASSUME NEW v, NEW w, v \cap w = {}
    PROVE  Number(v \cup w) = Number(v) + Number(w)
<1>1. Width \in 0..Width
    BY WidthTyped
<1> QED BY <1>1, SumOfUnion, SumDefined

\* A mask is the upper bits, the ends of the range are in the subnet.
IsSubnet(s, p) ==
    /\ s.netmask = p..(Width - 1) /\ s.addr \subseteq p..(Width - 1)
    /\ s.first \in Word /\ s.first \cap s.netmask = s.addr
    /\ s.last \in Word /\ s.last \cap s.netmask = s.addr
Ranges == {s \in [addr : Word, netmask : Word, first : Word, last : Word] : \E p \in 0..Width : IsSubnet(s, p)}

LEMMA RangeInterval ==
    ASSUME CallTyped, SubnetArgs \subseteq Ranges
    PROVE  RangeIsInterval
<1> SUFFICES ASSUME Called("populate")
             PROVE  RangeIsInterval
    BY DEF RangeIsInterval
<1>1. PICK p \in 0..Width : IsSubnet(arg, p)
    BY DEF CallTyped, Called, arg, Ranges
<1> DEFINE a == arg.addr
           mask == arg.netmask
           f == ip_isolate_addr(mask, arg.first)
           t == ip_isolate_addr(mask, arg.last)
           range == PopulatedRange(arg)
           wide == {Bits(n) : n \in Number(arg.first)..(Number(arg.last) - 1)}
<1>2. /\ mask = p..(Width - 1) /\ a \subseteq p..(Width - 1)
      /\ f \subseteq 0..(p - 1) /\ t \subseteq 0..(p - 1)
      /\ f \cup a = arg.first /\ t \cup a = arg.last
    BY <1>1, WidthTyped DEF IsSubnet, ip_isolate_addr, Word
<1>3. range = {Bits(n) \cup a : n \in Number(f)..(Number(t) - 1)}
    BY DEF PopulatedRange, ip_compose_ip
<1> HIDE DEF a, mask, f, t, range
<1>4. /\ Number(f) \in Nat /\ Number(t) \in Nat /\ Number(t) < Power[p]
    BY <1>2, SumOfLowWord
<1>5. Number(a) \in Nat
    <2>1. Width \in 0..Width
        BY WidthTyped
    <2> QED BY <2>1, SumDefined, SumBelow
<1>6. f \cap a = {} /\ t \cap a = {}
    BY <1>2, WidthTyped
<1>7. Number(arg.first) = Number(f) + Number(a) /\ Number(arg.last) = Number(t) + Number(a)
    BY <1>2, <1>6, NumberOfUnion
<1>8. ASSUME NEW n \in Number(f)..(Number(t) - 1)
      PROVE  /\ Bits(n) \subseteq 0..(p - 1) /\ Number(Bits(n)) = n
             /\ Bits(n + Number(a)) = Bits(n) \cup a
    <2>1. n \in Nat /\ n < Power[p]
        <3>1. Power[p] \in Nat
            BY PowerDefined
        <3> QED BY <1>4, <3>1
    <2>2. Bits(n) \subseteq 0..(p - 1) /\ Number(Bits(n)) = n
        BY <2>1, BitsOfLowNumber
    <2> DEFINE h == Bits(n)
    <2> HIDE DEF h
    <2>3. h \subseteq 0..(p - 1) /\ Number(h) = n
        BY <2>2 DEF h
    <2>4. h \cap a = {} /\ h \cup a \in Word
        BY <1>2, <2>3, WidthTyped DEF Word
    <2>5. Number(h \cup a) = n + Number(a)
        BY <2>3, <2>4, NumberOfUnion
    <2>6. Bits(n + Number(a)) = h \cup a
        BY <2>4, <2>5, BitsOfNumber
    <2> QED BY <2>2, <2>6 DEF h
<1>9. range = wide
    <2> DEFINE x == Number(a)
               lo == Number(f)
               hi == Number(t)
    <2>1. x \in Nat /\ lo \in Nat /\ hi \in Nat /\ Number(arg.first) = lo + x /\ Number(arg.last) = hi + x
        BY <1>4, <1>5, <1>7
    <2>2. \A n \in lo..(hi - 1) : Bits(n + x) = Bits(n) \cup a
        BY <1>8
    <2>3. range = {Bits(n) \cup a : n \in lo..(hi - 1)}
        BY <1>3
    <2> HIDE DEF x, lo, hi
    <2>4. wide = {Bits(n) : n \in (lo + x)..((hi + x) - 1)}
        BY <2>1
    <2> HIDE DEF wide
    <2>5. ASSUME NEW n \in lo..(hi - 1)
          PROVE  Bits(n) \cup a \in wide
        <3>1. n + x \in (lo + x)..((hi + x) - 1)
            BY <2>1
        <3>2. Bits(n + x) \in wide
            BY <2>4, <3>1
        <3> QED BY <2>2, <3>2
    <2>6. ASSUME NEW n \in (lo + x)..((hi + x) - 1)
          PROVE  Bits(n) \in range
        <3>1. n - x \in lo..(hi - 1) /\ (n - x) + x = n
            BY <2>1
        <3>2. Bits(n) = Bits(n - x) \cup a
            BY <2>2, <3>1
        <3> QED BY <2>3, <3>1, <3>2
    <2>7. range \subseteq wide
        BY <2>3, <2>5
    <2>8. wide \subseteq range
        BY <2>4, <2>6
    <2> QED BY <2>7, <2>8
<1>10. ASSUME NEW i \in range
       PROVE  ip_in_subnet(a, mask, i)
    <2>1. PICK n \in Number(f)..(Number(t) - 1) : i = Bits(n) \cup a
        BY <1>3
    <2>2. Bits(n) \subseteq 0..(p - 1)
        BY <1>8
    <2>3. i \cap mask = a
        <3> DEFINE h == Bits(n)
                   low == 0..(p - 1)
        <3>1. h \subseteq low /\ i = h \cup a /\ a \subseteq mask
            BY <1>2, <2>1, <2>2
        <3>2. low \cap mask = {}
            BY <1>2, WidthTyped
        <3> HIDE DEF h, low
        <3> QED BY <3>1, <3>2
    <2> QED BY <2>3 DEF ip_in_subnet
<1>11. ASSUME get_ip_broadcast(a, mask) \in range
       PROVE  FALSE
    <2> DEFINE low == 0..(p - 1)
    <2>1. get_ip_broadcast(a, mask) = a \cup low
        BY <1>2, WidthTyped DEF get_ip_broadcast
    <2>2. PICK n \in Number(f)..(Number(t) - 1) : a \cup low = Bits(n) \cup a
        BY <1>3, <1>11, <2>1
    <2>3. Bits(n) \subseteq low /\ Number(Bits(n)) = n
        BY <1>8
    <2>4. Bits(n) = low
        <3> DEFINE h == Bits(n)
        <3>1. a \cap low = {}
            BY <1>2, WidthTyped
        <3>2. h \subseteq low /\ a \cup low = h \cup a
            BY <2>2, <2>3
        <3> HIDE DEF h, low
        <3>3. h = low
            BY <3>1, <3>2
        <3> QED BY <3>3 DEF h
    <2>5. Number(low) = n
        BY <2>3, <2>4
    <2>6. Number(t) = SumOf(t)[p] /\ Number(low) = SumOf(low)[p] /\ t \subseteq low
        BY <1>2, SumOfLowWord
    <2> HIDE DEF low
    <2>7. Number(t) <= Number(low)
        BY <2>6, SumGrows
    <2> QED BY <1>4, <2>5, <2>7
<1> QED BY <1>9, <1>10, <1>11 DEF RangeIsInterval, range, a, mask

\* The rows of a range are the addresses from its first to its last, for words of every
\* width and masks of every length.
THEOREM RowsAreTheRange ==
    ASSUME SubnetArgs \subseteq Ranges
    PROVE  CodecsSpec => []RangeIsInterval
<1>1. CallTyped => RangeIsInterval
    BY RangeInterval
<1> QED BY <1>1, Arguments, PTL
----------------------------------------------------------------------------
(* Lines of the rc file.                                                    *)

LineState(C) == [key : Seq(C), val : Seq(C), inval : BOOLEAN, lit : Int, esc : BOOLEAN,
              skip : BOOLEAN, throw : BOOLEAN]

LEMMA SeqOfOne ==
    ASSUME NEW S, NEW c \in S
    PROVE  <<c>> \in Seq(S) /\ Len(<<c>>) = 1 /\ <<c>>[1] = c
OBVIOUS

LEMMA EscapeTyped ==
    ASSUME NEW C, "LF" \in C, NEW c \in C
    PROVE  Escape(c) \in Seq(C) /\ <<c>> \in Seq(C)
<1>1. <<"LF">> \in Seq(C) /\ <<c>> \in Seq(C) /\ <<>> \in Seq(C)
    BY SeqOfOne, EmptySeq
<1>2. Escape(c) \in {<<"LF">>, <<c>>, <<>>}
    BY Zenon DEF Escape
<1> QED BY <1>1, <1>2

LEMMA PutFields ==
    ASSUME NEW C, NEW st \in LineState(C), NEW s \in Seq(C)
    PROVE  LET r == Put(st, s)
           IN /\ r \in LineState(C) /\ r.inval = st.inval /\ r.lit = st.lit /\ r.esc = st.esc /\ r.throw = st.throw
              /\ st.inval => r.key = st.key /\ r.val = st.val \o s /\ r.skip = FALSE
              /\ ~st.inval => r.key = st.key \o s /\ r.val = st.val /\ r.skip = st.skip
<1>1. st.val \o s \in Seq(C) /\ st.key \o s \in Seq(C)
    <2>1. st.val \in Seq(C) /\ st.key \in Seq(C)
        BY DEF LineState
    <2> QED BY <2>1, ConcatProperties
<1> DEFINE kk == st.key \o s
           vv == st.val \o s
<1>2. CASE st.inval
    <2> DEFINE one == [st EXCEPT !.val = vv]
    <2>1. Put(st, s) = [one EXCEPT !.skip = FALSE]
        BY <1>2 DEF Put
    <2>2. vv \in Seq(C)
        BY <1>1
    <2> HIDE DEF vv
    <2>3. /\ one \in LineState(C) /\ one.val = vv /\ one.key = st.key /\ one.inval = st.inval /\ one.lit = st.lit
          /\ one.esc = st.esc /\ one.throw = st.throw
        BY <2>2 DEF LineState
    <2> HIDE DEF one
    <2> DEFINE two == [one EXCEPT !.skip = FALSE]
    <2>4. /\ two \in LineState(C) /\ two.val = vv /\ two.key = st.key /\ two.inval = st.inval /\ two.lit = st.lit
          /\ two.esc = st.esc /\ two.throw = st.throw /\ two.skip = FALSE
        BY <2>3 DEF LineState
    <2>5. Put(st, s) = two
        BY <2>1
    <2> HIDE DEF two
    <2> QED BY <1>2, <2>4, <2>5 DEF vv
<1>3. CASE ~st.inval
    <2> DEFINE one == [st EXCEPT !.key = kk]
    <2>1. Put(st, s) = one
        BY <1>3 DEF Put
    <2>2. kk \in Seq(C)
        BY <1>1
    <2> HIDE DEF kk
    <2>3. /\ one \in LineState(C) /\ one.val = st.val /\ one.key = kk /\ one.inval = st.inval /\ one.lit = st.lit
          /\ one.esc = st.esc /\ one.throw = st.throw /\ one.skip = st.skip
        BY <2>2 DEF LineState
    <2> HIDE DEF one
    <2> QED BY <1>3, <2>1, <2>3 DEF kk
<1> QED BY <1>2, <1>3

\* What a character does, escaped or not.
LEMMA TakeFields ==
    ASSUME NEW C, "LF" \in C, NEW st \in LineState(C), NEW c \in C, ~st.throw
    PROVE  LET r == Take(st, c)
           IN /\ r \in LineState(C)
              /\ r.esc <=> ~st.esc /\ c = Backslash
              /\ r.lit = (IF st.esc THEN st.lit ELSE IF c = "{" THEN st.lit + 1
                          ELSE IF c = "}" THEN st.lit - 1 ELSE st.lit)
              /\ r.throw <=> ~st.esc /\ c = "}" /\ st.lit = 0
              /\ r.inval <=> st.inval \/ (~st.esc /\ c = "=" /\ st.lit = 0)
<1> DEFINE r == Take(st, c)
<1>0. /\ st.inval \in BOOLEAN /\ st.lit \in Int /\ st.esc \in BOOLEAN /\ st.throw = FALSE
    BY DEF LineState
<1>1. CASE st.esc
    <2> DEFINE p == Put(st, Escape(c))
    <2>1. r = [p EXCEPT !.esc = FALSE]
        BY <1>1 DEF Take
    <2>2. p \in LineState(C) /\ p.inval = st.inval /\ p.lit = st.lit /\ p.throw = st.throw
        <3> DEFINE q == Escape(c)
        <3>1. q \in Seq(C) /\ p = Put(st, q)
            BY EscapeTyped
        <3> HIDE DEF q, p
        <3> QED BY <3>1, PutFields
    <2> HIDE DEF p
    <2>3. r \in LineState(C) /\ r.inval = p.inval /\ r.lit = p.lit /\ r.throw = p.throw /\ r.esc = FALSE
        BY <2>1, <2>2 DEF LineState
    <2> HIDE DEF r
    <2>4. r.throw = FALSE /\ r.inval = st.inval /\ r.lit = st.lit /\ r.esc = FALSE
        BY <1>0, <2>2, <2>3
    <2> QED BY <1>1, <2>3, <2>4 DEF r
<1>2. CASE ~st.esc /\ c = Backslash
    <2> DEFINE one == [st EXCEPT !.esc = TRUE]
    <2>1. r = [one EXCEPT !.skip = FALSE]
        BY <1>2 DEF Take
    <2>2. one \in LineState(C) /\ one.esc = TRUE /\ one.lit = st.lit /\ one.inval = st.inval /\ one.throw = st.throw
        BY DEF LineState
    <2> HIDE DEF one
    <2>3. r \in LineState(C) /\ r.inval = one.inval /\ r.lit = one.lit /\ r.throw = one.throw /\ r.esc = one.esc
        BY <2>1, <2>2 DEF LineState
    <2>4. c # "{" /\ c # "}" /\ c # "="
        BY <1>2 DEF Backslash
    <2> HIDE DEF r
    <2>5. r.throw = FALSE /\ r.inval = st.inval /\ r.lit = st.lit /\ r.esc = TRUE
        BY <1>0, <2>2, <2>3
    <2> QED BY <1>2, <2>3, <2>4, <2>5 DEF r
<1>3. CASE ~st.esc /\ c = "{"
    <2> DEFINE one == [st EXCEPT !.lit = st.lit + 1]
    <2>0. c # Backslash /\ c # "}" /\ c # "="
        BY <1>3 DEF Backslash
    <2>1. r = [one EXCEPT !.skip = FALSE]
        BY <1>3, <2>0 DEF Take
    <2>2. /\ one \in LineState(C) /\ one.esc = st.esc /\ one.lit = st.lit + 1 /\ one.inval = st.inval
          /\ one.throw = st.throw
        BY <1>0 DEF LineState
    <2> HIDE DEF one
    <2>3. r \in LineState(C) /\ r.inval = one.inval /\ r.lit = one.lit /\ r.throw = one.throw /\ r.esc = one.esc
        BY <2>1, <2>2 DEF LineState
    <2> HIDE DEF r
    <2>5. r.throw = FALSE /\ r.inval = st.inval /\ r.lit = st.lit + 1 /\ r.esc = st.esc
        BY <1>0, <2>2, <2>3
    <2> QED BY <1>3, <2>0, <2>3, <2>5 DEF r
<1>4. CASE ~st.esc /\ c = "}"
    <2> DEFINE zero == (st.lit = 0)
               one == [st EXCEPT !.lit = st.lit - 1]
               two == [one EXCEPT !.skip = FALSE]
    <2>0. c # Backslash /\ c # "{" /\ c # "=" /\ zero \in BOOLEAN
        BY <1>4 DEF Backslash
    <2>1. r = [two EXCEPT !.throw = zero]
        BY <1>4, <2>0 DEF Take
    <2>6. st.lit = 0 <=> zero
        OBVIOUS
    <2> HIDE DEF zero
    <2>2. /\ one \in LineState(C) /\ one.esc = st.esc /\ one.lit = st.lit - 1 /\ one.inval = st.inval
        BY <1>0 DEF LineState
    <2> HIDE DEF one
    <2>3. two \in LineState(C) /\ two.inval = one.inval /\ two.lit = one.lit /\ two.esc = one.esc
        BY <2>2 DEF LineState
    <2> HIDE DEF two
    <2>4. r \in LineState(C) /\ r.inval = two.inval /\ r.lit = two.lit /\ r.esc = two.esc /\ r.throw = zero
        BY <2>0, <2>1, <2>3 DEF LineState
    <2> HIDE DEF r
    <2>5. r.inval = st.inval /\ r.lit = st.lit - 1 /\ r.esc = st.esc
        BY <2>2, <2>3, <2>4
    <2> QED BY <1>4, <2>0, <2>4, <2>5, <2>6 DEF r
<1>5. CASE ~st.esc /\ c \notin {Backslash, "{", "}"} /\ c \in Blank /\ (st.skip \/ (st.lit = 0 /\ ~st.inval))
    <2>1. r = st
        BY <1>5 DEF Take
    <2>2. c # "="
        BY <1>5 DEF Blank
    <2> QED BY <1>0, <1>5, <2>1, <2>2
<1>6. CASE /\ ~st.esc /\ c \notin {Backslash, "{", "}"}
           /\ ~(c \in Blank /\ (st.skip \/ (st.lit = 0 /\ ~st.inval)))
           /\ c = "=" /\ st.lit = 0 /\ ~st.inval
    <2> DEFINE one == [st EXCEPT !.inval = TRUE]
    <2>1. r = [one EXCEPT !.skip = TRUE]
        BY <1>6 DEF Take
    <2>2. /\ one \in LineState(C) /\ one.esc = st.esc /\ one.lit = st.lit /\ one.inval = TRUE
          /\ one.throw = st.throw
        BY <1>0 DEF LineState
    <2> HIDE DEF one
    <2>3. r \in LineState(C) /\ r.inval = one.inval /\ r.lit = one.lit /\ r.throw = one.throw /\ r.esc = one.esc
        BY <2>1, <2>2 DEF LineState
    <2> HIDE DEF r
    <2>5. r.throw = FALSE /\ r.inval = TRUE /\ r.lit = st.lit /\ r.esc = st.esc
        BY <1>0, <2>2, <2>3
    <2> QED BY <1>6, <2>3, <2>5 DEF r
<1>7. CASE /\ ~st.esc /\ c \notin {Backslash, "{", "}"}
           /\ ~(c \in Blank /\ (st.skip \/ (st.lit = 0 /\ ~st.inval)))
           /\ ~(c = "=" /\ st.lit = 0 /\ ~st.inval)
    <2>1. r = Put(st, <<c>>)
        BY <1>7 DEF Take
    <2>2. r \in LineState(C) /\ r.inval = st.inval /\ r.lit = st.lit /\ r.esc = st.esc /\ r.throw = st.throw
        <3> DEFINE q == <<c>>
        <3>1. q \in Seq(C) /\ r = Put(st, q)
            BY <2>1, SeqOfOne
        <3> HIDE DEF q, r
        <3> QED BY <3>1, PutFields
    <2> HIDE DEF r
    <2>3. r.throw = FALSE /\ r.inval = st.inval /\ r.lit = st.lit /\ r.esc = st.esc
        BY <1>0, <2>2
    <2>4. c # Backslash /\ c # "{" /\ c # "}" /\ (~(c = "=") \/ ~(st.lit = 0) \/ st.inval)
        BY <1>7
    <2> QED BY <1>7, <2>2, <2>3, <2>4 DEF r
<1> QED BY <1>1, <1>2, <1>3, <1>4, <1>5, <1>6, <1>7

\* The definitions of LineAccepted, for a line without its trailing spaces.
EscapedIn(l, i) ==
    \E j \in 1..(i - 1) :
       /\ (i - j) % 2 = 1
       /\ \A k \in j..(i - 1) : l[k] = Backslash
       /\ j = 1 \/ l[j - 1] # Backslash
PlainIn(l, c, i) == {j \in 1..i : l[j] = c /\ ~EscapedIn(l, j)}
DepthIn(l, i) == Cardinality(PlainIn(l, "{", i)) - Cardinality(PlainIn(l, "}", i))

\* A backslash that is not escaped itself escapes what follows.
LEMMA EscapedNext ==
    ASSUME NEW l, NEW i \in Nat \ {0}
    PROVE  EscapedIn(l, i + 1) <=> l[i] = Backslash /\ ~EscapedIn(l, i)
<1>0. (i + 1) - 1 = i
    OBVIOUS
<1>1. CASE l[i] # Backslash
    <2>1. ASSUME EscapedIn(l, i + 1)
          PROVE  FALSE
        <3>1. PICK j \in 1..i : \A k \in j..i : l[k] = Backslash
            BY <1>0, <2>1 DEF EscapedIn
        <3> QED BY <1>1, <3>1
    <2> QED BY <1>1, <2>1
<1>2. CASE l[i] = Backslash
    <2> DEFINE Run(j) == \A k \in j..i : l[k] = Backslash
               T == {j \in 1..i : Run(j)}
    <2>1. T \subseteq Nat /\ i \in T
        BY <1>2
    <2>2. PICK b \in T : \A j \in T : b <= j
        <3> HIDE DEF T
        <3> QED BY <2>1, LeastNatural
    <2>3. b \in 1..i /\ Run(b)
        BY <2>2
    <2>4. b = 1 \/ l[b - 1] # Backslash
        <3> SUFFICES ASSUME b # 1, l[b - 1] = Backslash
                     PROVE  FALSE
            OBVIOUS
        <3>1. b - 1 \in 1..i /\ \A k \in (b - 1)..i : k = b - 1 \/ k \in b..i
            BY <2>3
        <3>2. b - 1 \in T
            BY <2>3, <3>1
        <3> QED BY <2>2, <2>3, <3>2
    <2>5. ASSUME NEW j \in 1..i, \A k \in j..(i - 1) : l[k] = Backslash, j = 1 \/ l[j - 1] # Backslash
          PROVE  j = b
        <3>1. \A k \in j..i : k = i \/ k \in j..(i - 1)
            OBVIOUS
        <3>2. j \in T
            BY <1>2, <2>5, <3>1
        <3>3. b <= j
            BY <2>2, <3>2
        <3>4. CASE b < j
            <4>1. j # 1 /\ j - 1 \in b..i
                BY <2>3, <3>4
            <4> QED BY <2>3, <2>5, <4>1
        <3> QED BY <2>3, <3>3, <3>4
    <2>6. EscapedIn(l, i + 1) <=> ((i + 1) - b) % 2 = 1
        <3>1. ASSUME EscapedIn(l, i + 1)
              PROVE  ((i + 1) - b) % 2 = 1
            <4>1. PICK j \in 1..i : /\ ((i + 1) - j) % 2 = 1 /\ \A k \in j..i : l[k] = Backslash
                                    /\ j = 1 \/ l[j - 1] # Backslash
                BY <1>0, <3>1 DEF EscapedIn
            <4>2. \A k \in j..(i - 1) : k \in j..i
                OBVIOUS
            <4>3. j = b
                BY <2>5, <4>1, <4>2
            <4> QED BY <4>1, <4>3
        <3>2. ASSUME ((i + 1) - b) % 2 = 1
              PROVE  EscapedIn(l, i + 1)
            BY <1>0, <2>3, <2>4, <3>2 DEF EscapedIn
        <3> QED BY <3>1, <3>2
    <2>7. EscapedIn(l, i) <=> (i - b) % 2 = 1
        <3>1. ASSUME EscapedIn(l, i)
              PROVE  (i - b) % 2 = 1
            <4>1. PICK j \in 1..(i - 1) : /\ (i - j) % 2 = 1 /\ \A k \in j..(i - 1) : l[k] = Backslash
                                          /\ j = 1 \/ l[j - 1] # Backslash
                BY <3>1 DEF EscapedIn
            <4>2. j \in 1..i
                OBVIOUS
            <4>3. j = b
                BY <2>5, <4>1, <4>2
            <4> QED BY <4>1, <4>3
        <3>2. ASSUME (i - b) % 2 = 1
              PROVE  EscapedIn(l, i)
            <4>1. b \in 1..(i - 1)
                BY <2>3, <3>2
            <4>2. \A k \in b..(i - 1) : l[k] = Backslash
                BY <2>3
            <4> QED BY <2>4, <3>2, <4>1, <4>2 DEF EscapedIn
        <3> QED BY <3>1, <3>2
    <2>8. ((i + 1) - b) % 2 = 1 <=> ~((i - b) % 2 = 1)
        BY <2>3
    <2> QED BY <1>2, <2>6, <2>7, <2>8
<1> QED BY <1>1, <1>2

LEMMA PlainNext ==
    ASSUME NEW l, NEW c, NEW i \in Nat \ {0}
    PROVE  /\ PlainIn(l, c, i) = PlainIn(l, c, i - 1) \cup (IF l[i] = c /\ ~EscapedIn(l, i) THEN {i} ELSE {})
           /\ i \notin PlainIn(l, c, i - 1)
           /\ IsFiniteSet(PlainIn(l, c, i - 1)) /\ Cardinality(PlainIn(l, c, i - 1)) \in Nat
<1>1. \A j \in 1..i : j = i \/ j \in 1..(i - 1)
    OBVIOUS
<1>2. \A j \in 1..(i - 1) : j \in 1..i /\ j # i
    OBVIOUS
<1>3. i \in 1..i
    OBVIOUS
<1>4. IsFiniteSet(PlainIn(l, c, i - 1))
    <2>1. IsFiniteSet(1..(i - 1))
        BY FS_Interval
    <2>2. PlainIn(l, c, i - 1) \subseteq 1..(i - 1)
        BY DEF PlainIn
    <2> QED BY <2>1, <2>2, FS_Subset
<1>5. PlainIn(l, c, i) = PlainIn(l, c, i - 1) \cup (IF l[i] = c /\ ~EscapedIn(l, i) THEN {i} ELSE {})
    BY <1>1, <1>2, <1>3 DEF PlainIn
<1>6. i \notin PlainIn(l, c, i - 1)
    BY <1>2 DEF PlainIn
<1> QED BY <1>4, <1>5, <1>6, FS_CardinalityType

LEMMA DepthNext ==
    ASSUME NEW l, NEW i \in Nat \ {0}
    PROVE  /\ DepthIn(l, i - 1) \in Int
           /\ DepthIn(l, i) = (IF EscapedIn(l, i) THEN DepthIn(l, i - 1)
                               ELSE IF l[i] = "{" THEN DepthIn(l, i - 1) + 1
                               ELSE IF l[i] = "}" THEN DepthIn(l, i - 1) - 1 ELSE DepthIn(l, i - 1))
<1>1. ASSUME NEW c
      PROVE  /\ Cardinality(PlainIn(l, c, i - 1)) \in Nat
             /\ Cardinality(PlainIn(l, c, i)) = Cardinality(PlainIn(l, c, i - 1))
                                                 + (IF l[i] = c /\ ~EscapedIn(l, i) THEN 1 ELSE 0)
    <2> DEFINE p == PlainIn(l, c, i - 1)
               q == PlainIn(l, c, i)
    <2>1. /\ q = p \cup (IF l[i] = c /\ ~EscapedIn(l, i) THEN {i} ELSE {}) /\ i \notin p
          /\ IsFiniteSet(p) /\ Cardinality(p) \in Nat
        BY PlainNext
    <2> HIDE DEF p, q
    <2>2. CASE l[i] = c /\ ~EscapedIn(l, i)
        <3>1. q = p \cup {i}
            BY <2>1, <2>2
        <3>2. Cardinality(q) = Cardinality(p) + 1
            BY <2>1, <3>1, FS_AddElement
        <3> QED BY <2>1, <2>2, <3>2 DEF p, q
    <2>3. CASE ~(l[i] = c /\ ~EscapedIn(l, i))
        <3>1. q = p
            BY <2>1, <2>3
        <3>2. Cardinality(q) = Cardinality(p) + 0
            BY <2>1, <3>1
        <3> QED BY <2>1, <2>3, <3>2 DEF p, q
    <2> QED BY <2>2, <2>3
<1> DEFINE a == Cardinality(PlainIn(l, "{", i - 1))
           b == Cardinality(PlainIn(l, "}", i - 1))
           x == Cardinality(PlainIn(l, "{", i))
           y == Cardinality(PlainIn(l, "}", i))
<1>2. /\ a \in Nat /\ b \in Nat
      /\ x = a + (IF l[i] = "{" /\ ~EscapedIn(l, i) THEN 1 ELSE 0)
      /\ y = b + (IF l[i] = "}" /\ ~EscapedIn(l, i) THEN 1 ELSE 0)
    BY <1>1
<1>3. DepthIn(l, i - 1) = a - b /\ DepthIn(l, i) = x - y
    BY DEF DepthIn
<1> HIDE DEF a, b, x, y
<1>4. CASE EscapedIn(l, i)
    <2>1. x = a + 0 /\ y = b + 0
        BY <1>2, <1>4
    <2> QED BY <1>2, <1>3, <1>4, <2>1
<1>5. CASE ~EscapedIn(l, i) /\ l[i] = "{"
    <2>1. x = a + 1 /\ y = b + 0
        BY <1>2, <1>5
    <2>2. a \in Nat /\ b \in Nat
        BY <1>2
    <2>3. x - y = (a - b) + 1 /\ a - b \in Int
        BY <2>1, <2>2
    <2>4. DepthIn(l, i) = DepthIn(l, i - 1) + 1 /\ DepthIn(l, i - 1) \in Int
        BY <1>3, <2>3
    <2> QED BY <1>5, <2>1, <2>4
<1>6. CASE ~EscapedIn(l, i) /\ l[i] = "}"
    <2>0. l[i] # "{"
        BY <1>6
    <2>1. x = a + 0 /\ y = b + 1
        BY <1>2, <1>6
    <2>2. a \in Nat /\ b \in Nat
        BY <1>2
    <2>3. x - y = (a - b) - 1 /\ a - b \in Int
        BY <2>1, <2>2
    <2>4. DepthIn(l, i) = DepthIn(l, i - 1) - 1 /\ DepthIn(l, i - 1) \in Int
        <3> DEFINE p == DepthIn(l, i)
                   q == DepthIn(l, i - 1)
        <3>1. p = x - y /\ q = a - b
            BY <1>3
        <3> HIDE DEF p, q
        <3>2. p = q - 1 /\ q \in Int
            BY <2>3, <3>1
        <3> QED BY <3>2 DEF p, q
    <2> QED BY <1>6, <2>0, <2>4
<1>7. CASE ~EscapedIn(l, i) /\ l[i] # "{" /\ l[i] # "}"
    <2>1. x = a + 0 /\ y = b + 0
        BY <1>2, <1>7
    <2>2. a \in Nat /\ b \in Nat
        BY <1>2
    <2>3. x - y = (a - b) + 0 /\ a - b \in Int
        BY <2>1, <2>2
    <2>4. DepthIn(l, i) = DepthIn(l, i - 1) /\ DepthIn(l, i - 1) \in Int
        BY <1>3, <2>3
    <2> QED BY <1>7, <2>1, <2>4
<1> QED BY <1>4, <1>5, <1>6, <1>7

LEMMA DepthFirst ==
    ASSUME NEW l
    PROVE  DepthIn(l, 0) = 0 /\ ~EscapedIn(l, 1) /\ \A c : PlainIn(l, c, 0) = {}
<1>1. \A c : PlainIn(l, c, 0) = {}
    BY DEF PlainIn
<1>2. Cardinality({}) = 0
    BY FS_EmptySet
<1>3. ~EscapedIn(l, 1)
    BY DEF EscapedIn
<1>4. PlainIn(l, "{", 0) = {} /\ PlainIn(l, "}", 0) = {}
    BY <1>1
<1>5. DepthIn(l, 0) = 0 - 0
    BY <1>2, <1>4 DEF DepthIn
<1> QED BY <1>1, <1>3, <1>5

\* The states while a line is read.
LineUpto(l) == CHOOSE F : F = [i \in 0..Len(l) |-> IF i = 0 THEN Start ELSE Take(F[i - 1], l[i])]

LEMMA TakeTyped ==
    ASSUME NEW C, "LF" \in C, NEW st \in LineState(C), NEW c \in C
    PROVE  Take(st, c) \in LineState(C)
<1>1. CASE st.throw
    <2>1. Take(st, c) = st
        BY <1>1, Zenon DEF Take
    <2> QED BY <2>1
<1>2. CASE ~st.throw
    BY <1>2, TakeFields
<1> QED BY <1>1, <1>2

LEMMA StartTyped ==
    ASSUME NEW C
    PROVE  Start \in LineState(C)
BY EmptySeq DEF Start, LineState

StaysIn(S, l) ==
    Start \in S /\ Len(l) \in Nat /\ \A i \in 1..Len(l) : \A s \in S : Take(s, l[i]) \in S

LEMMA LineRecursion ==
    ASSUME NEW S, NEW l, StaysIn(S, l)
    PROVE  /\ LineUpto(l) \in [0..Len(l) -> S] /\ LineUpto(l)[0] = Start
           /\ \A i \in 1..Len(l) : LineUpto(l)[i] = Take(LineUpto(l)[i - 1], l[i])
<1> DEFINE n == Len(l)
           a == Start
           step == [i \in 1..n |-> [s \in S |-> Take(s, l[i])]]
           Solves(F) == F = [i \in 0..n |-> IF i = 0 THEN a ELSE Take(F[i - 1], l[i])]
<1>0. n \in Nat
    BY DEF StaysIn
<1>1. a \in S /\ \A i \in 1..n : \A s \in S : Take(s, l[i]) \in S
    BY DEF StaysIn
<1> HIDE DEF n, a
<1>2. step \in [1..n -> [S -> S]]
    BY <1>1
<1>3. PICK f \in [0..n -> S] : f[0] = a /\ \A i \in 1..n : f[i] = step[i][f[i - 1]]
    <2>1. a \in S /\ n \in Nat
        BY <1>0, <1>1
    <2> HIDE DEF step
    <2>2. \E f \in [0..n -> S] : f[0] = a /\ \A i \in 1..n : f[i] = step[i][f[i - 1]]
        BY ONLY <1>2, <2>1, PrimitiveRecursion
    <2> QED BY <2>2, Zenon
<1>4. Solves(f)
    <2>1. ASSUME NEW i \in 0..n
          PROVE  f[i] = IF i = 0 THEN a ELSE Take(f[i - 1], l[i])
        <3>1. CASE i = 0
            BY <1>3, <3>1
        <3>2. CASE i # 0
            <4>1. i \in 1..n /\ f[i - 1] \in S
                BY <1>0, <3>2
            <4>2. f[i] = step[i][f[i - 1]]
                BY <1>3, <4>1
            <4>3. step[i][f[i - 1]] = Take(f[i - 1], l[i])
                <5> DEFINE y == f[i - 1]
                <5>1. y \in S
                    BY <4>1
                <5> HIDE DEF y
                <5>2. step[i][y] = Take(y, l[i])
                    BY <4>1, <5>1
                <5> QED BY <5>2 DEF y
            <4> QED BY <3>2, <4>2, <4>3
        <3> QED BY <3>1, <3>2
    <2>2. f = [i \in 0..n |-> f[i]]
        OBVIOUS
    <2> HIDE DEF step
    <2> QED BY <2>1, <2>2
<1> HIDE DEF step
<1> DEFINE T == LineUpto(l)
<1>5. Solves(T)
    <2>1. T = CHOOSE F : Solves(F)
        BY Zenon DEF LineUpto, n, a
    <2> HIDE DEF Solves
    <2> QED BY <1>4, <2>1
<1> HIDE DEF T
<1>6. DOMAIN T = 0..n /\ T = [i \in 0..n |-> T[i]]
    BY <1>5
<1>7. \A i \in 0..n : T[i] = IF i = 0 THEN a ELSE Take(T[i - 1], l[i])
    BY <1>5
<1> HIDE DEF Solves
<1>8. T[0] = a /\ \A i \in 1..n : T[i] = Take(T[i - 1], l[i])
    BY <1>0, <1>7
<1> DEFINE G == {i \in 0..n : T[i] \in S}
<1>9. 0 \in G
    BY <1>0, <1>1, <1>8
<1>10. ASSUME NEW i \in 1..n, i - 1 \in G PROVE i \in G
    BY <1>1, <1>8, <1>10
<1>11. 0..n \subseteq G
    <2> HIDE DEF G
    <2> QED BY <1>0, <1>9, <1>10, BoundedInduction
<1>12. T \in [0..n -> S]
    BY <1>6, <1>11
<1> QED BY <1>8, <1>12 DEF T, n, a

LEMMA LineDefined ==
    ASSUME NEW C, "LF" \in C, NEW l \in Seq(C)
    PROVE  /\ LineUpto(l) \in [0..Len(l) -> LineState(C)] /\ LineUpto(l)[0] = Start
           /\ \A i \in 1..Len(l) : LineUpto(l)[i] = Take(LineUpto(l)[i - 1], l[i])
<1> DEFINE S == LineState(C)
<1>1. Len(l) \in Nat /\ \A i \in 1..Len(l) : l[i] \in C
    BY ElementOfSeq
<1>2. StaysIn(S, l)
    BY <1>1, StartTyped, TakeTyped DEF StaysIn
<1> HIDE DEF S
<1>3. /\ LineUpto(l) \in [0..Len(l) -> S] /\ LineUpto(l)[0] = Start
      /\ \A i \in 1..Len(l) : LineUpto(l)[i] = Take(LineUpto(l)[i - 1], l[i])
    BY <1>1, <1>2, LineRecursion, Zenon
<1> QED BY <1>3 DEF S

\* After each character: an unbalanced brace was met, or the depth, the escape and the
\* '=' that ends the key are known.
LineRead(l, i) ==
    LET st == LineUpto(l)[i]
    IN /\ st.throw <=> \E j \in 1..i : DepthIn(l, j) < 0
       /\ ~st.throw =>
            /\ st.esc <=> EscapedIn(l, i + 1)
            /\ st.lit = DepthIn(l, i) /\ DepthIn(l, i) >= 0 /\ DepthIn(l, i) \in Int
            /\ st.inval <=> \E j \in PlainIn(l, "=", i) : DepthIn(l, j) = 0

LEMMA LineReadNext ==
    ASSUME NEW C, "LF" \in C, NEW l \in Seq(C), NEW i \in 1..Len(l), LineRead(l, i - 1)
    PROVE  LineRead(l, i)
<1> DEFINE st == LineUpto(l)[i - 1]
           r == LineUpto(l)[i]
           c == l[i]
           d == DepthIn(l, i - 1)
           e == DepthIn(l, i)
<1>0. Len(l) \in Nat /\ i \in Nat \ {0} /\ c \in C /\ (i - 1) + 1 = i /\ i - 1 \in 0..Len(l)
    BY ElementOfSeq
<1>1. st \in LineState(C) /\ r = Take(st, c)
    BY <1>0, LineDefined
<1>2. /\ d \in Int
      /\ e = (IF EscapedIn(l, i) THEN d ELSE IF c = "{" THEN d + 1 ELSE IF c = "}" THEN d - 1 ELSE d)
    BY <1>0, DepthNext
<1>3. EscapedIn(l, i + 1) <=> c = Backslash /\ ~EscapedIn(l, i)
    BY <1>0, EscapedNext
<1>4. PlainIn(l, "=", i) = PlainIn(l, "=", i - 1) \cup (IF c = "=" /\ ~EscapedIn(l, i) THEN {i} ELSE {})
    BY <1>0, PlainNext
<1>5. /\ st.throw <=> \E j \in 1..(i - 1) : DepthIn(l, j) < 0
      /\ ~st.throw =>
            /\ st.esc <=> EscapedIn(l, i)
            /\ st.lit = d /\ d >= 0
            /\ st.inval <=> \E j \in PlainIn(l, "=", i - 1) : DepthIn(l, j) = 0
    BY <1>0 DEF LineRead
<1>6. \A j \in 1..i : j = i \/ j \in 1..(i - 1)
    BY <1>0
<1>7. i \in 1..i /\ \A j \in 1..(i - 1) : j \in 1..i
    BY <1>0
<1> HIDE DEF st, r, c, d
<1>8. CASE st.throw
    <2>1. r = st
        BY <1>1, <1>8, Zenon DEF Take
    <2>2. \E j \in 1..i : DepthIn(l, j) < 0
        BY <1>5, <1>7, <1>8
    <2> QED BY <1>8, <2>1, <2>2 DEF LineRead, r
<1>9. CASE ~st.throw
    <2>1. /\ r.esc <=> ~st.esc /\ c = Backslash
          /\ r.lit = (IF st.esc THEN st.lit ELSE IF c = "{" THEN st.lit + 1
                      ELSE IF c = "}" THEN st.lit - 1 ELSE st.lit)
          /\ r.throw <=> ~st.esc /\ c = "}" /\ st.lit = 0
          /\ r.inval <=> st.inval \/ (~st.esc /\ c = "=" /\ st.lit = 0)
        BY <1>0, <1>1, <1>9, TakeFields
    <2>2. r.lit = e
        BY <1>2, <1>5, <1>9, <2>1
    <2>3. r.esc <=> EscapedIn(l, i + 1)
        BY <1>3, <1>5, <1>9, <2>1
    <2>4. e < 0 <=> r.throw
        <3>1. CASE ~EscapedIn(l, i) /\ c = "}"
            <4>1. e = d - 1
                BY <1>2, <3>1
            <4>2. r.throw <=> d = 0
                BY <1>5, <1>9, <2>1, <3>1
            <4>3. d >= 0 /\ d \in Int
                BY <1>2, <1>5, <1>9
            <4> HIDE DEF e
            <4> QED BY <4>1, <4>2, <4>3
        <3>2. CASE ~(~EscapedIn(l, i) /\ c = "}")
            <4>1. e \in {d, d + 1}
                BY <1>2, <3>2
            <4>2. ~r.throw
                BY <1>5, <1>9, <2>1, <3>2
            <4>3. d >= 0 /\ d \in Int
                BY <1>2, <1>5, <1>9
            <4> HIDE DEF e
            <4> QED BY <4>1, <4>2, <4>3
        <3> QED BY <3>1, <3>2
    <2>5. e \in Int
        <3>1. e = d \/ e = d + 1 \/ e = d - 1
            BY <1>2, Zenon
        <3>2. d \in Int
            BY <1>2
        <3> HIDE DEF e
        <3> QED BY <3>1, <3>2
    <2>6. r.throw <=> \E j \in 1..i : DepthIn(l, j) < 0
        BY <1>5, <1>6, <1>7, <1>9, <2>4
    <2>7. ~r.throw => (r.inval <=> \E j \in PlainIn(l, "=", i) : DepthIn(l, j) = 0)
        <3>1. CASE c = "=" /\ ~EscapedIn(l, i)
            <4>1. e = d
                BY <1>2, <3>1
            <4>2. r.inval <=> st.inval \/ e = 0
                BY <1>5, <1>9, <2>1, <3>1, <4>1
            <4>3. PlainIn(l, "=", i) = PlainIn(l, "=", i - 1) \cup {i}
                BY <1>4, <3>1
            <4> QED BY <1>5, <1>9, <4>2, <4>3
        <3>2. CASE ~(c = "=" /\ ~EscapedIn(l, i))
            <4>1. r.inval <=> st.inval
                BY <1>5, <1>9, <2>1, <3>2
            <4>2. PlainIn(l, "=", i) = PlainIn(l, "=", i - 1)
                BY <1>4, <3>2
            <4> QED BY <1>5, <1>9, <4>1, <4>2
        <3> QED BY <3>1, <3>2
    <2>8. ~r.throw => e >= 0
        BY <2>4, <2>5
    <2>9. LineUpto(l)[i] = r
        BY DEF r
    <2> QED BY <2>2, <2>3, <2>5, <2>6, <2>7, <2>8, <2>9 DEF LineRead
<1> QED BY <1>8, <1>9

\* The line without its trailing spaces is a beginning of it, all of it when it does not
\* end with a space.
LEMMA Trimmed ==
    ASSUME NEW C, NEW line \in Seq(C)
    PROVE  /\ TrimRight(line) \in Seq(C)
           /\ (line # <<>> => line[Len(line)] \notin Blank) => TrimRight(line) = line
<1> DEFINE keep == {i \in DOMAIN line : line[i] \notin Blank}
           top == CHOOSE i \in keep : \A j \in keep : j <= i
           n == Len(line)
           m == IF keep = {} THEN 0 ELSE top
<1>1. n \in Nat /\ DOMAIN line = 1..n /\ \A i \in 1..n : line[i] \in C
    BY ElementOfSeq
<1>2. TrimRight(line) = SubSeq(line, 1, m)
    BY Zenon DEF TrimRight
<1>3. line[n] \notin Blank => n = 0 \/ (keep # {} /\ top = n)
    <2>1. \A j \in keep : j <= n /\ j \in Nat
        BY <1>1
    <2>2. n # 0 /\ line[n] \notin Blank => n \in keep
        BY <1>1
    <2> HIDE DEF keep
    <2> QED BY <1>1, <2>1, <2>2
<1>4. m \in 0..n
    <2>1. CASE keep = {}
        BY <1>1, <2>1
    <2>2. CASE keep # {}
        <3>1. \A j \in keep : j \in 1..n
            BY <1>1
        <3> HIDE DEF keep
        <3>2. \E i \in keep : \A j \in keep : j <= i
            <4> DEFINE neg == {n - i : i \in keep}
            <4>1. neg \subseteq Nat /\ neg # {}
                BY <1>1, <2>2, <3>1
            <4>2. PICK x \in neg : \A y \in neg : x <= y
                <5> HIDE DEF neg
                <5> QED BY <4>1, LeastNatural
            <4>3. PICK i \in keep : x = n - i
                BY <4>2
            <4>4. ASSUME NEW j \in keep PROVE j <= i
                <5>1. n - j \in neg /\ n - i <= n - j
                    BY <4>2, <4>3
                <5> QED BY <1>1, <3>1, <5>1
            <4> QED BY <4>4
        <3>3. top \in keep
            BY <3>2
        <3> HIDE DEF top
        <3> QED BY <2>2, <3>1, <3>3
    <2> QED BY <2>1, <2>2
<1>5. (line # <<>> => line[n] \notin Blank) => m = n
    <2>1. CASE line = <<>>
        <3>1. n = 0
            BY <2>1
        <3> HIDE DEF m, n
        <3> QED BY <1>4, <3>1
    <2>2. CASE line # <<>>
        <3>1. n # 0
            BY <1>1, <2>2, EmptySeq
        <3> HIDE DEF keep, top, n
        <3> QED BY <1>1, <1>3, <2>2, <3>1
    <2> QED BY <2>1, <2>2
<1> HIDE DEF m
<1>6. SubSeq(line, 1, m) \in Seq(C)
    <2>1. 1 \in Int /\ m \in Int /\ \A i \in 1..m : line[i] \in C
        BY <1>1, <1>4
    <2> QED BY <2>1, SubSeqProperties
<1>7. m = n => SubSeq(line, 1, m) = line
    BY SubSeqFull
<1> QED BY <1>2, <1>5, <1>6, <1>7

\* What a line assigns.
LEMMA AddIs ==
    ASSUME NEW line
    PROVE  LET l == TrimRight(line)
               st == LineUpto(l)[Len(l)]
           IN _add(line) = IF st.throw \/ ~st.inval \/ st.lit # 0 THEN {} ELSE {[key |-> st.key, val |-> st.val]}
BY Zenon DEF _add, LineUpto

LEMMA LineReadAll ==
    ASSUME NEW C, "LF" \in C, NEW l \in Seq(C)
    PROVE  \A i \in 0..Len(l) : LineRead(l, i)
<1> DEFINE G == {i \in 0..Len(l) : LineRead(l, i)}
           n == Len(l)
<1>0. n \in Nat
    OBVIOUS
<1>1. LineRead(l, 0)
    <2>1. LineUpto(l)[0] = Start
        BY LineDefined
    <2>2. Start.throw = FALSE /\ Start.esc = FALSE /\ Start.lit = 0 /\ Start.inval = FALSE
        BY DEF Start
    <2>3. DepthIn(l, 0) = 0 /\ ~EscapedIn(l, 0 + 1) /\ PlainIn(l, "=", 0) = {}
        BY DepthFirst, 0 + 1 = 1
    <2> QED BY <2>1, <2>2, <2>3 DEF LineRead
<1>2. 0 \in G
    BY <1>0, <1>1
<1>3. ASSUME NEW i \in 1..n, i - 1 \in G PROVE i \in G
    <2>1. LineRead(l, i)
        BY <1>3, LineReadNext
    <2> QED BY <1>0, <2>1
<1>4. 0..n \subseteq G
    <2> HIDE DEF G, n
    <2> QED BY <1>0, <1>2, <1>3, BoundedInduction
<1> QED BY <1>4

LEMMA LinesAccepted ==
    ASSUME NEW C, "LF" \in C, LineArgs \subseteq Seq(C), CallTyped
    PROVE  LineAccepted
<1> SUFFICES ASSUME Called("line")
             PROVE  LineAccepted
    BY DEF LineAccepted
<1> DEFINE l == TrimRight(arg)
           n == Len(l)
           st == LineUpto(l)[n]
<1>1. arg \in Seq(C)
    BY DEF CallTyped, Called, arg
<1>2. l \in Seq(C)
    BY <1>1, Trimmed
<1>3. _add(arg) = IF st.throw \/ ~st.inval \/ st.lit # 0 THEN {} ELSE {[key |-> st.key, val |-> st.val]}
    BY AddIs
<1>4. _add(arg) # {} <=> ~st.throw /\ st.inval /\ st.lit = 0
    <2> HIDE DEF st
    <2> QED BY <1>3
<1> HIDE DEF l
<1>5. n \in Nat /\ DOMAIN l = 1..n
    BY <1>2
<1>6. LineRead(l, n)
    BY <1>2, <1>5, LineReadAll
<1>7. \A i \in 1..n : DepthIn(l, i) \in Int
    <2> TAKE i \in 1..n
    <2>1. i \in Nat \ {0} /\ i + 1 \in Nat \ {0} /\ (i + 1) - 1 = i
        BY <1>5
    <2> QED BY <2>1, DepthNext
<1> HIDE DEF st, n
<1>8. /\ st.throw <=> \E j \in 1..n : DepthIn(l, j) < 0
      /\ ~st.throw =>
            /\ st.lit = DepthIn(l, n)
            /\ st.inval <=> \E j \in PlainIn(l, "=", n) : DepthIn(l, j) = 0
    BY <1>6 DEF LineRead, st
<1>9. ~st.throw <=> \A i \in 1..n : DepthIn(l, i) >= 0
    BY <1>7, <1>8
<1>10. _add(arg) # {} <=> /\ \A i \in DOMAIN l : DepthIn(l, i) >= 0
                          /\ DepthIn(l, n) = 0
                          /\ \E i \in PlainIn(l, "=", n) : DepthIn(l, i) = 0
    BY <1>4, <1>5, <1>8, <1>9
<1> QED BY <1>10, Zenon DEF LineAccepted, DepthIn, PlainIn, EscapedIn, l, n

\* Lines of every length are assignments exactly when their braces are balanced and an
\* '=' is outside of them.
THEOREM LinesReadAsMeant ==
    ASSUME NEW C, "LF" \in C, LineArgs \subseteq Seq(C)
    PROVE  CodecsSpec => []LineAccepted
<1>1. CallTyped => LineAccepted
    BY LinesAccepted
<1> QED BY <1>1, Arguments, PTL
----------------------------------------------------------------------------
(* A dump that is read back.                                                *)

\* The states in which nothing is escaped or unbalanced.
Reading(C, st, k, v, iv, lt, sk) ==
    /\ st \in LineState(C) /\ st.key = k /\ st.val = v /\ st.inval = iv /\ st.lit = lt
    /\ st.skip = sk /\ st.esc = FALSE /\ st.throw = FALSE

LEMMA TakeOpen ==
    ASSUME NEW C, NEW st, NEW k, NEW v, NEW iv, NEW lt, NEW sk, Reading(C, st, k, v, iv, lt, sk)
    PROVE  Reading(C, Take(st, "{"), k, v, iv, lt + 1, FALSE)
<1> DEFINE one == [st EXCEPT !.lit = st.lit + 1]
           r == [one EXCEPT !.skip = FALSE]
<1>0. /\ st \in LineState(C) /\ st.key = k /\ st.val = v /\ st.inval = iv /\ st.lit = lt
      /\ st.skip = sk /\ st.esc = FALSE /\ st.throw = FALSE
    BY DEF Reading
<1>1. "{" # Backslash
    BY DEF Backslash
<1>2. Take(st, "{") = r
    BY <1>0, <1>1 DEF Take
<1>3. st.lit + 1 \in Int
    BY <1>0 DEF LineState
<1>4. /\ one \in LineState(C) /\ one.key = st.key /\ one.val = st.val /\ one.inval = st.inval
      /\ one.lit = st.lit + 1 /\ one.esc = st.esc /\ one.throw = st.throw
    BY <1>0, <1>3 DEF LineState
<1> HIDE DEF one
<1>5. /\ r \in LineState(C) /\ r.key = one.key /\ r.val = one.val /\ r.inval = one.inval
      /\ r.lit = one.lit /\ r.esc = one.esc /\ r.throw = one.throw /\ r.skip = FALSE
    BY <1>4 DEF LineState
<1> HIDE DEF r
<1>6. /\ r \in LineState(C) /\ r.key = k /\ r.val = v /\ r.inval = iv /\ r.lit = lt + 1
      /\ r.skip = FALSE /\ r.esc = FALSE /\ r.throw = FALSE
    BY <1>0, <1>4, <1>5
<1>7. Reading(C, r, k, v, iv, lt + 1, FALSE)
    BY <1>6 DEF Reading
<1> QED BY <1>2, <1>7

LEMMA TakeClose ==
    ASSUME NEW C, NEW st, NEW k, NEW v, NEW iv, NEW sk, Reading(C, st, k, v, iv, 1, sk)
    PROVE  Reading(C, Take(st, "}"), k, v, iv, 0, FALSE)
<1> DEFINE zero == (st.lit = 0)
           one == [st EXCEPT !.lit = st.lit - 1]
           two == [one EXCEPT !.skip = FALSE]
           r == [two EXCEPT !.throw = zero]
<1>0. /\ st \in LineState(C) /\ st.key = k /\ st.val = v /\ st.inval = iv /\ st.lit = 1
      /\ st.skip = sk /\ st.esc = FALSE /\ st.throw = FALSE
    BY DEF Reading
<1>1. "}" # Backslash /\ "}" # "{"
    BY DEF Backslash
<1>2. Take(st, "}") = r
    BY <1>0, <1>1 DEF Take
<1>3. zero = FALSE
    BY <1>0
<1> HIDE DEF zero
<1>4. /\ one \in LineState(C) /\ one.key = st.key /\ one.val = st.val /\ one.inval = st.inval
      /\ one.lit = 0 /\ one.esc = st.esc
    BY <1>0 DEF LineState
<1> HIDE DEF one
<1>5. /\ two \in LineState(C) /\ two.key = one.key /\ two.val = one.val /\ two.inval = one.inval
      /\ two.lit = one.lit /\ two.esc = one.esc /\ two.skip = FALSE
    BY <1>4 DEF LineState
<1> HIDE DEF two
<1>6. /\ r \in LineState(C) /\ r.key = two.key /\ r.val = two.val /\ r.inval = two.inval
      /\ r.lit = two.lit /\ r.esc = two.esc /\ r.skip = two.skip /\ r.throw = FALSE
    BY <1>3, <1>5 DEF LineState
<1> HIDE DEF r
<1>7. /\ r \in LineState(C) /\ r.key = k /\ r.val = v /\ r.inval = iv /\ r.lit = 0
      /\ r.skip = FALSE /\ r.esc = FALSE /\ r.throw = FALSE
    BY <1>0, <1>4, <1>5, <1>6
<1>8. Reading(C, r, k, v, iv, 0, FALSE)
    BY <1>7 DEF Reading
<1> QED BY <1>2, <1>8

LEMMA TakeEquals ==
    ASSUME NEW C, NEW st, NEW k, NEW v, NEW sk, Reading(C, st, k, v, FALSE, 0, sk)
    PROVE  Reading(C, Take(st, "="), k, v, TRUE, 0, TRUE)
<1> DEFINE one == [st EXCEPT !.inval = TRUE]
           r == [one EXCEPT !.skip = TRUE]
<1>0. /\ st \in LineState(C) /\ st.key = k /\ st.val = v /\ st.inval = FALSE /\ st.lit = 0
      /\ st.skip = sk /\ st.esc = FALSE /\ st.throw = FALSE
    BY DEF Reading
<1>1. "=" # Backslash /\ "=" # "{" /\ "=" # "}" /\ "=" \notin Blank
    BY DEF Backslash, Blank
<1>2. Take(st, "=") = r
    BY <1>0, <1>1 DEF Take
<1>4. /\ one \in LineState(C) /\ one.key = st.key /\ one.val = st.val /\ one.inval = TRUE
      /\ one.lit = st.lit /\ one.esc = st.esc /\ one.throw = st.throw
    BY <1>0 DEF LineState
<1> HIDE DEF one
<1>5. /\ r \in LineState(C) /\ r.key = one.key /\ r.val = one.val /\ r.inval = one.inval
      /\ r.lit = one.lit /\ r.esc = one.esc /\ r.throw = one.throw /\ r.skip = TRUE
    BY <1>4 DEF LineState
<1> HIDE DEF r
<1>6. /\ r \in LineState(C) /\ r.key = k /\ r.val = v /\ r.inval = TRUE /\ r.lit = 0
      /\ r.skip = TRUE /\ r.esc = FALSE /\ r.throw = FALSE
    BY <1>0, <1>4, <1>5
<1>7. Reading(C, r, k, v, TRUE, 0, TRUE)
    BY <1>6 DEF Reading
<1> QED BY <1>2, <1>7

\* A character that is kept as it is.
Ordinary(c) == c # Backslash /\ c # "{" /\ c # "}"

LEMMA TakeOfKey ==
    ASSUME NEW C, NEW st, NEW k, NEW lt, NEW c \in C, Reading(C, st, k, <<>>, FALSE, lt, FALSE),
           Ordinary(c), c # "=" \/ lt # 0, c \notin Blank \/ lt # 0
    PROVE  Reading(C, Take(st, c), k \o <<c>>, <<>>, FALSE, lt, FALSE)
<1> DEFINE one == <<c>>
           r == Put(st, one)
<1>0. /\ st \in LineState(C) /\ st.key = k /\ st.val = <<>> /\ st.inval = FALSE /\ st.lit = lt
      /\ st.skip = FALSE /\ st.esc = FALSE /\ st.throw = FALSE
    BY DEF Reading
<1>1. Take(st, c) = r
    BY <1>0 DEF Take, Ordinary
<1>2. one \in Seq(C)
    BY SeqOfOne
<1> HIDE DEF one
<1>3. /\ r \in LineState(C) /\ r.inval = st.inval /\ r.lit = st.lit /\ r.esc = st.esc /\ r.throw = st.throw
      /\ ~st.inval => r.key = st.key \o one /\ r.val = st.val /\ r.skip = st.skip
    BY <1>0, <1>2, PutFields
<1> HIDE DEF r
<1>4. /\ r \in LineState(C) /\ r.key = k \o one /\ r.val = <<>> /\ r.inval = FALSE /\ r.lit = lt
      /\ r.skip = FALSE /\ r.esc = FALSE /\ r.throw = FALSE
    BY <1>0, <1>3
<1>5. Reading(C, r, k \o one, <<>>, FALSE, lt, FALSE)
    BY <1>4 DEF Reading
<1> QED BY <1>1, <1>5 DEF one

LEMMA TakeOfVal ==
    ASSUME NEW C, NEW st, NEW k, NEW v, NEW lt, NEW sk, NEW c \in C, Reading(C, st, k, v, TRUE, lt, sk),
           Ordinary(c), c \notin Blank \/ sk = FALSE
    PROVE  Reading(C, Take(st, c), k, v \o <<c>>, TRUE, lt, FALSE)
<1> DEFINE one == <<c>>
           r == Put(st, one)
<1>0. /\ st \in LineState(C) /\ st.key = k /\ st.val = v /\ st.inval = TRUE /\ st.lit = lt
      /\ st.skip = sk /\ st.esc = FALSE /\ st.throw = FALSE
    BY DEF Reading
<1>1. Take(st, c) = r
    BY <1>0 DEF Take, Ordinary
<1>2. one \in Seq(C)
    BY SeqOfOne
<1> HIDE DEF one
<1>3. /\ r \in LineState(C) /\ r.inval = st.inval /\ r.lit = st.lit /\ r.esc = st.esc /\ r.throw = st.throw
      /\ st.inval => r.key = st.key /\ r.val = st.val \o one /\ r.skip = FALSE
    BY <1>0, <1>2, PutFields
<1> HIDE DEF r
<1>4. /\ r \in LineState(C) /\ r.key = k /\ r.val = v \o one /\ r.inval = TRUE /\ r.lit = lt
      /\ r.skip = FALSE /\ r.esc = FALSE /\ r.throw = FALSE
    BY <1>0, <1>3
<1>5. Reading(C, r, k, v \o one, TRUE, lt, FALSE)
    BY <1>4 DEF Reading
<1> QED BY <1>1, <1>5 DEF one

\* One more character of a text.
LEMMA OneMore ==
    ASSUME NEW C, NEW x \in Seq(C), NEW i \in 1..Len(x)
    PROVE  SubSeq(x, 1, i - 1) \o <<x[i]>> = SubSeq(x, 1, i)
<1>1. 1 \in 1..Len(x) /\ i \in 1..Len(x)
    OBVIOUS
<1>2. SubSeq(x, 1, i) = SubSeq(x, 1, i - 1) \o <<x[i]>>
    BY <1>1, SubSeqRecursiveSecond
<1> QED BY <1>2

\* x stands in the line l behind its first p characters.
Stands(x, l, p) == p \in Nat /\ p + Len(x) <= Len(l) /\ \A i \in 1..Len(x) : l[p + i] = x[i]

LEMMA KeyRun ==
    ASSUME NEW C, "LF" \in C, NEW l \in Seq(C), NEW x \in Seq(C), NEW p, Stands(x, l, p), NEW lt,
           \A i \in 1..Len(x) : Ordinary(x[i]) /\ (x[i] # "=" \/ lt # 0) /\ (x[i] \notin Blank \/ lt # 0),
           Reading(C, LineUpto(l)[p], <<>>, <<>>, FALSE, lt, FALSE)
    PROVE  Reading(C, LineUpto(l)[p + Len(x)], x, <<>>, FALSE, lt, FALSE)
<1> DEFINE U == LineUpto(l)
           n == Len(x)
           G == {i \in 0..n : Reading(C, U[p + i], SubSeq(x, 1, i), <<>>, FALSE, lt, FALSE)}
<1>0. n \in Nat /\ p \in Nat /\ p + 0 = p /\ p + n <= Len(l) /\ Len(l) \in Nat
    BY DEF Stands
<1>1. 0 \in G
    <2>1. SubSeq(x, 1, 0) = <<>>
        BY SubSeqEmpty
    <2>2. Reading(C, U[p + 0], SubSeq(x, 1, 0), <<>>, FALSE, lt, FALSE)
        BY <1>0, <2>1
    <2>3. 0 \in 0..n
        BY <1>0
    <2> QED BY <2>2, <2>3
<1>2. ASSUME NEW i \in 1..n, i - 1 \in G
      PROVE  i \in G
    <2> DEFINE c == x[i]
               st == U[p + (i - 1)]
    <2>1. /\ i \in 0..n /\ p + i \in 1..Len(l) /\ (p + i) - 1 = p + (i - 1) /\ l[p + i] = c
          /\ c \in C
        BY <1>0, ElementOfSeq DEF Stands
    <2>2. U[p + i] = Take(st, c)
        <3>1. U[p + i] = Take(U[(p + i) - 1], l[p + i])
            BY <2>1, LineDefined
        <3> QED BY <2>1, <3>1
    <2>3. Reading(C, st, SubSeq(x, 1, i - 1), <<>>, FALSE, lt, FALSE)
        BY <1>2
    <2>4. Ordinary(c) /\ (c # "=" \/ lt # 0) /\ (c \notin Blank \/ lt # 0)
        OBVIOUS
    <2> HIDE DEF st, U
    <2>5. Reading(C, Take(st, c), SubSeq(x, 1, i - 1) \o <<c>>, <<>>, FALSE, lt, FALSE)
        <3> HIDE DEF c
        <3> QED BY <2>1, <2>3, <2>4, TakeOfKey
    <2>6. SubSeq(x, 1, i - 1) \o <<c>> = SubSeq(x, 1, i)
        BY OneMore
    <2>7. Reading(C, U[p + i], SubSeq(x, 1, i), <<>>, FALSE, lt, FALSE)
        BY <2>2, <2>5, <2>6
    <2> QED BY <2>1, <2>7
<1>3. n \in G
    <2>1. 0..n \subseteq G
        <3> HIDE DEF G, n
        <3> QED BY <1>0, <1>1, <1>2, BoundedInduction
    <2>2. n \in 0..n
        BY <1>0
    <2> HIDE DEF G, n
    <2> QED BY <2>1, <2>2
<1>4. SubSeq(x, 1, n) = x
    BY SubSeqFull
<1>5. Reading(C, U[p + n], SubSeq(x, 1, n), <<>>, FALSE, lt, FALSE)
    BY <1>3
<1> QED BY <1>4, <1>5

LEMMA ValRun ==
    ASSUME NEW C, "LF" \in C, NEW l \in Seq(C), NEW x \in Seq(C), NEW p, Stands(x, l, p), NEW lt, NEW k,
           NEW sk, \A i \in 1..Len(x) : Ordinary(x[i]) /\ (x[i] \notin Blank \/ sk = FALSE),
           Reading(C, LineUpto(l)[p], k, <<>>, TRUE, lt, sk)
    PROVE  \E s : Reading(C, LineUpto(l)[p + Len(x)], k, x, TRUE, lt, s)
<1> DEFINE U == LineUpto(l)
           n == Len(x)
           After(i) == IF i = 0 THEN sk ELSE FALSE
           G == {i \in 0..n : Reading(C, U[p + i], k, SubSeq(x, 1, i), TRUE, lt, After(i))}
<1>0. n \in Nat /\ p \in Nat /\ p + 0 = p /\ p + n <= Len(l) /\ Len(l) \in Nat
    BY DEF Stands
<1>1. 0 \in G
    <2>1. SubSeq(x, 1, 0) = <<>> /\ After(0) = sk
        BY SubSeqEmpty
    <2> HIDE DEF After
    <2>2. Reading(C, U[p + 0], k, SubSeq(x, 1, 0), TRUE, lt, After(0))
        BY <1>0, <2>1
    <2>3. 0 \in 0..n
        BY <1>0
    <2> QED BY <2>2, <2>3
<1>2. ASSUME NEW i \in 1..n, i - 1 \in G
      PROVE  i \in G
    <2> DEFINE c == x[i]
               st == U[p + (i - 1)]
               sj == After(i - 1)
    <2>1. /\ i \in 0..n /\ p + i \in 1..Len(l) /\ (p + i) - 1 = p + (i - 1) /\ l[p + i] = c
          /\ c \in C
        BY <1>0, ElementOfSeq DEF Stands
    <2>2. U[p + i] = Take(st, c)
        <3>1. U[p + i] = Take(U[(p + i) - 1], l[p + i])
            BY <2>1, LineDefined
        <3> QED BY <2>1, <3>1
    <2>3. Reading(C, st, k, SubSeq(x, 1, i - 1), TRUE, lt, sj)
        BY <1>2
    <2>4. Ordinary(c) /\ (c \notin Blank \/ sj = FALSE)
        OBVIOUS
    <2>8. After(i) = FALSE
        BY <1>0
    <2> HIDE DEF st, U, sj, After
    <2>5. Reading(C, Take(st, c), k, SubSeq(x, 1, i - 1) \o <<c>>, TRUE, lt, FALSE)
        <3> HIDE DEF c
        <3> QED BY <2>1, <2>3, <2>4, TakeOfVal
    <2>6. SubSeq(x, 1, i - 1) \o <<c>> = SubSeq(x, 1, i)
        BY OneMore
    <2>7. Reading(C, U[p + i], k, SubSeq(x, 1, i), TRUE, lt, After(i))
        BY <2>2, <2>5, <2>6, <2>8
    <2> QED BY <2>1, <2>7
<1>3. n \in G
    <2>1. 0..n \subseteq G
        <3> HIDE DEF G, n
        <3> QED BY <1>0, <1>1, <1>2, BoundedInduction
    <2>2. n \in 0..n
        BY <1>0
    <2> HIDE DEF G, n
    <2> QED BY <2>1, <2>2
<1>4. SubSeq(x, 1, n) = x
    BY SubSeqFull
<1> HIDE DEF After
<1>5. Reading(C, U[p + n], k, SubSeq(x, 1, n), TRUE, lt, After(n))
    BY <1>3
<1> QED BY <1>4, <1>5

\* The characters a dump writes besides those of its entry, and the one an escape stands for.
Alphabet(C) == "LF" \in C /\ "{" \in C /\ "}" \in C /\ "=" \in C
Spaced(s) == \E i \in DOMAIN s : s[i] = " "
NoEquals(s) == \A i \in 1..Len(s) : s[i] # "="
AllOrdinary(s) == \A i \in 1..Len(s) : Ordinary(s[i])
Braced(s) == IF Spaced(s) THEN <<"{">> \o s \o <<"}">> ELSE s

LEMMA InBraces ==
    ASSUME NEW C, NEW left \in C, NEW right \in C, NEW s \in Seq(C)
    PROVE  LET b == <<left>> \o s \o <<right>>
           IN /\ b \in Seq(C) /\ Len(b) = Len(s) + 2 /\ b[1] = left /\ b[Len(s) + 2] = right
              /\ \A i \in 1..Len(s) : b[1 + i] = s[i]
<1> DEFINE o == <<left>>
           c == <<right>>
<1>1. o \in Seq(C) /\ Len(o) = 1 /\ o[1] = left /\ c \in Seq(C) /\ Len(c) = 1 /\ c[1] = right /\ Len(s) \in Nat
    BY SeqOfOne
<1> HIDE DEF o, c
<1>2. /\ o \o s \in Seq(C) /\ Len(o \o s) = Len(o) + Len(s)
      /\ \A i \in 1..(Len(o) + Len(s)) : (o \o s)[i] = IF i <= Len(o) THEN o[i] ELSE s[i - Len(o)]
    BY <1>1, ConcatProperties
<1> DEFINE h == o \o s
<1> HIDE DEF h
<1>3. /\ h \o c \in Seq(C) /\ Len(h \o c) = Len(h) + 1
      /\ \A i \in 1..(Len(h) + 1) : (h \o c)[i] = IF i <= Len(h) THEN h[i] ELSE c[i - Len(h)]
    BY <1>1, <1>2, ConcatProperties DEF h
<1>4. /\ h \in Seq(C) /\ Len(h) = 1 + Len(s)
      /\ \A i \in 1..(1 + Len(s)) : h[i] = IF i <= 1 THEN o[i] ELSE s[i - 1]
    BY <1>1, <1>2 DEF h
<1> DEFINE b == h \o c
<1> HIDE DEF b
<1>5. b \in Seq(C) /\ Len(b) = Len(s) + 2
    BY <1>1, <1>3, <1>4 DEF b
<1>6. b[1] = o[1]
    <2>1. 1 \in 1..(Len(h) + 1) /\ 1 <= Len(h) /\ 1 \in 1..(1 + Len(s))
        BY <1>1, <1>4
    <2> QED BY <1>3, <1>4, <2>1 DEF b
<1>7. b[Len(s) + 2] = c[1]
    <2>1. Len(s) + 2 \in 1..(Len(h) + 1) /\ ~(Len(s) + 2 <= Len(h)) /\ (Len(s) + 2) - Len(h) = 1
        BY <1>1, <1>4
    <2> QED BY <1>3, <2>1 DEF b
<1>8. ASSUME NEW i \in 1..Len(s)
      PROVE  b[1 + i] = s[i]
    <2>1. 1 + i \in 1..(Len(h) + 1) /\ 1 + i <= Len(h) /\ 1 + i \in 1..(1 + Len(s)) /\ ~(1 + i <= 1)
          /\ (1 + i) - 1 = i
        BY <1>1, <1>4
    <2> QED BY <1>3, <1>4, <2>1 DEF b
<1> QED BY <1>1, <1>5, <1>6, <1>7, <1>8 DEF b, h, o, c

LEMMA BracedTyped ==
    ASSUME NEW C, Alphabet(C), NEW s \in Seq(C)
    PROVE  Braced(s) \in Seq(C)
BY InBraces DEF Braced, Alphabet

\* The states at the start of a line and behind a character of it.
LEMMA ReadingStart ==
    ASSUME NEW C
    PROVE  Reading(C, Start, <<>>, <<>>, FALSE, 0, FALSE)
<1>1. Start \in LineState(C)
    BY StartTyped
<1>2. /\ Start.key = <<>> /\ Start.val = <<>> /\ Start.inval = FALSE /\ Start.lit = 0
      /\ Start.skip = FALSE /\ Start.esc = FALSE /\ Start.throw = FALSE
    BY DEF Start
<1> QED BY <1>1, <1>2 DEF Reading

LEMMA KeyPart ==
    ASSUME NEW C, Alphabet(C), NEW l \in Seq(C), NEW x \in Seq(C),
           Stands(Braced(x), l, 0), AllOrdinary(x),
           Spaced(x) \/ NoEquals(x)
    PROVE  Reading(C, LineUpto(l)[Len(Braced(x))], x, <<>>, FALSE, 0, FALSE)
<1> DEFINE U == LineUpto(l)
<1>0. /\ U \in [0..Len(l) -> LineState(C)] /\ U[0] = Start
      /\ \A i \in 1..Len(l) : U[i] = Take(U[i - 1], l[i])
    BY LineDefined DEF Alphabet
<1>1. Reading(C, U[0], <<>>, <<>>, FALSE, 0, FALSE)
    BY <1>0, ReadingStart
<1>2. Len(x) \in Nat /\ DOMAIN x = 1..Len(x) /\ Len(l) \in Nat
    OBVIOUS
<1> HIDE DEF U
<1>3. CASE ~Spaced(x)
    <2>1. Braced(x) = x /\ Stands(x, l, 0)
        BY <1>3 DEF Braced
    <2>2. \A i \in 1..Len(x) : Ordinary(x[i]) /\ (x[i] # "=" \/ 0 # 0) /\ (x[i] \notin Blank \/ 0 # 0)
        BY <1>2, <1>3 DEF Spaced, Blank, NoEquals, AllOrdinary
    <2>3. Reading(C, U[0 + Len(x)], x, <<>>, FALSE, 0, FALSE)
        BY <1>1, <2>1, <2>2, KeyRun DEF U, Alphabet
    <2>4. 0 + Len(x) = Len(x)
        BY <1>2
    <2> QED BY <2>1, <2>3, <2>4 DEF U
<1>4. CASE Spaced(x)
    <2> DEFINE b == Braced(x)
    <2> DEFINE left == "{"
               right == "}"
    <2>0. left \in C /\ right \in C /\ b = <<left>> \o x \o <<right>>
        BY <1>4 DEF Braced, Alphabet
    <2> HIDE DEF left, right, b
    <2>1. /\ b \in Seq(C) /\ Len(b) = Len(x) + 2 /\ b[1] = left /\ b[Len(x) + 2] = right
          /\ \A i \in 1..Len(x) : b[1 + i] = x[i]
        BY <2>0, InBraces
    <2>2. 0 \in Nat /\ 0 + Len(b) <= Len(l) /\ \A i \in 1..Len(b) : l[0 + i] = b[i]
        BY DEF Stands, b
    <2>3. /\ 1 \in 1..Len(l) /\ Len(x) + 2 \in 1..Len(l) /\ 0 + 1 = 1 /\ 1 \in 1..Len(b) /\ 1 - 1 = 0
          /\ Len(x) + 2 \in 1..Len(b) /\ 0 + (Len(x) + 2) = Len(x) + 2 /\ (Len(x) + 2) - 1 = 1 + Len(x)
        BY <1>2, <2>1, <2>2
    <2>4. l[1] = left /\ l[Len(x) + 2] = right
        BY <2>1, <2>2, <2>3
    <2>5. Stands(x, l, 1)
        <3>1. 1 \in Nat /\ 1 + Len(x) <= Len(l)
            BY <1>2, <2>1, <2>2
        <3>2. ASSUME NEW i \in 1..Len(x)
              PROVE  l[1 + i] = x[i]
            <4>1. 1 + i \in 1..Len(b) /\ 0 + (1 + i) = 1 + i
                BY <1>2, <2>1
            <4> QED BY <2>1, <2>2, <4>1
        <3> QED BY <3>1, <3>2 DEF Stands
    <2>6. Reading(C, U[1], <<>>, <<>>, FALSE, 1, FALSE)
        <3>1. Reading(C, Take(U[0], left), <<>>, <<>>, FALSE, 0 + 1, FALSE)
            BY <1>1, TakeOpen DEF left
        <3>2. U[1] = Take(U[0], left)
            BY <1>0, <2>3, <2>4
        <3>3. 0 + 1 = 1
            OBVIOUS
        <3> QED BY <3>1, <3>2, <3>3
    <2>7. \A i \in 1..Len(x) : Ordinary(x[i]) /\ (x[i] # "=" \/ 1 # 0) /\ (x[i] \notin Blank \/ 1 # 0)
        BY DEF AllOrdinary
    <2>8. Reading(C, U[1 + Len(x)], x, <<>>, FALSE, 1, FALSE)
        BY <2>5, <2>6, <2>7, KeyRun DEF U, Alphabet
    <2>9. Reading(C, Take(U[1 + Len(x)], right), x, <<>>, FALSE, 0, FALSE)
        BY <2>8, TakeClose DEF right
    <2>10. U[Len(x) + 2] = Take(U[1 + Len(x)], right)
        <3>1. U[Len(x) + 2] = Take(U[(Len(x) + 2) - 1], l[Len(x) + 2])
            BY <1>0, <2>3
        <3> QED BY <2>3, <2>4, <3>1
    <2> QED BY <2>1, <2>9, <2>10 DEF U, b
<1> QED BY <1>3, <1>4

LEMMA ValPart ==
    ASSUME NEW C, Alphabet(C), NEW l \in Seq(C), NEW x \in Seq(C), NEW p, NEW k,
           Stands(Braced(x), l, p), AllOrdinary(x),
           Reading(C, LineUpto(l)[p], k, <<>>, TRUE, 0, TRUE)
    PROVE  \E s : Reading(C, LineUpto(l)[p + Len(Braced(x))], k, x, TRUE, 0, s)
<1> DEFINE U == LineUpto(l)
<1>0. /\ U \in [0..Len(l) -> LineState(C)] /\ U[0] = Start
      /\ \A i \in 1..Len(l) : U[i] = Take(U[i - 1], l[i])
    BY LineDefined DEF Alphabet
<1>1. Reading(C, U[p], k, <<>>, TRUE, 0, TRUE)
    OBVIOUS
<1>2. Len(x) \in Nat /\ DOMAIN x = 1..Len(x) /\ Len(l) \in Nat /\ p \in Nat
    BY DEF Stands
<1> HIDE DEF U
<1>3. CASE ~Spaced(x)
    <2>1. Braced(x) = x /\ Stands(x, l, p)
        BY <1>3 DEF Braced
    <2>2. \A i \in 1..Len(x) : Ordinary(x[i]) /\ (x[i] \notin Blank \/ TRUE = FALSE)
        BY <1>2, <1>3 DEF Spaced, Blank, NoEquals, AllOrdinary
    <2>3. \E s : Reading(C, U[p + Len(x)], k, x, TRUE, 0, s)
        BY <1>1, <2>1, <2>2, ValRun DEF U, Alphabet
    <2> QED BY <2>1, <2>3 DEF U
<1>4. CASE Spaced(x)
    <2> DEFINE b == Braced(x)
               q == p + 1
    <2> DEFINE left == "{"
               right == "}"
    <2>0. left \in C /\ right \in C /\ b = <<left>> \o x \o <<right>>
        BY <1>4 DEF Braced, Alphabet
    <2> HIDE DEF left, right, b
    <2>1. /\ b \in Seq(C) /\ Len(b) = Len(x) + 2 /\ b[1] = left /\ b[Len(x) + 2] = right
          /\ \A i \in 1..Len(x) : b[1 + i] = x[i]
        BY <2>0, InBraces
    <2>2. p + Len(b) <= Len(l) /\ \A i \in 1..Len(b) : l[p + i] = b[i]
        BY DEF Stands, b
    <2>3. /\ q \in 1..Len(l) /\ p + (Len(x) + 2) \in 1..Len(l) /\ 1 \in 1..Len(b) /\ q - 1 = p
          /\ Len(x) + 2 \in 1..Len(b) /\ (p + (Len(x) + 2)) - 1 = q + Len(x) /\ q \in Nat
          /\ q + Len(x) <= Len(l)
        BY <1>2, <2>1, <2>2
    <2>4. l[q] = left /\ l[p + (Len(x) + 2)] = right
        BY <2>1, <2>2, <2>3
    <2>5. Stands(x, l, q)
        <3>2. ASSUME NEW i \in 1..Len(x)
              PROVE  l[q + i] = x[i]
            <4>1. 1 + i \in 1..Len(b) /\ p + (1 + i) = q + i
                BY <1>2, <2>1
            <4> QED BY <2>1, <2>2, <4>1
        <3> QED BY <2>3, <3>2 DEF Stands
    <2>6. Reading(C, U[q], k, <<>>, TRUE, 1, FALSE)
        <3>1. Reading(C, Take(U[p], left), k, <<>>, TRUE, 0 + 1, FALSE)
            BY <1>1, TakeOpen DEF left
        <3>2. U[q] = Take(U[q - 1], l[q])
            BY <1>0, <2>3
        <3>3. 0 + 1 = 1
            OBVIOUS
        <3> QED BY <2>3, <2>4, <3>1, <3>2, <3>3
    <2>7. \A i \in 1..Len(x) : Ordinary(x[i]) /\ (x[i] \notin Blank \/ FALSE = FALSE)
        BY DEF AllOrdinary
    <2> HIDE DEF q
    <2>8. PICK s : Reading(C, U[q + Len(x)], k, x, TRUE, 1, s)
        BY <2>5, <2>6, <2>7, ValRun DEF U, Alphabet
    <2>9. Reading(C, Take(U[q + Len(x)], right), k, x, TRUE, 0, FALSE)
        BY <2>8, TakeClose DEF right
    <2>10. U[p + (Len(x) + 2)] = Take(U[q + Len(x)], right)
        <3>1. U[p + (Len(x) + 2)] = Take(U[(p + (Len(x) + 2)) - 1], l[p + (Len(x) + 2)])
            BY <1>0, <2>3
        <3> QED BY <2>3, <2>4, <3>1
    <2> QED BY <2>1, <2>9, <2>10 DEF U, b
<1> QED BY <1>3, <1>4

LEMMA DumpIs ==
    ASSUME NEW k, NEW v
    PROVE  dump(k, v) = Braced(k) \o <<"=">> \o Braced(v)
BY Zenon DEF dump, Braced, Spaced

\* Three texts, one behind the other.
LEMMA ThreeParts ==
    ASSUME NEW C, NEW x \in Seq(C), NEW m \in C, NEW y \in Seq(C)
    PROVE  LET l == x \o <<m>> \o y
           IN /\ l \in Seq(C) /\ Len(l) = (Len(x) + 1) + Len(y) /\ l[Len(x) + 1] = m
              /\ Stands(x, l, 0) /\ Stands(y, l, Len(x) + 1)
<1> DEFINE e == <<m>>
           h == x \o e
           l == h \o y
<1>1. e \in Seq(C) /\ Len(e) = 1 /\ e[1] = m /\ Len(x) \in Nat /\ Len(y) \in Nat
    BY SeqOfOne
<1> HIDE DEF e
<1>2. /\ h \in Seq(C) /\ Len(h) = Len(x) + Len(e)
      /\ \A i \in 1..(Len(x) + Len(e)) : h[i] = IF i <= Len(x) THEN x[i] ELSE e[i - Len(x)]
    BY <1>1, ConcatProperties
<1> HIDE DEF h
<1>0. h \in Seq(C)
    BY <1>2
<1>3. /\ l \in Seq(C) /\ Len(l) = Len(h) + Len(y)
      /\ \A i \in 1..(Len(h) + Len(y)) : l[i] = IF i <= Len(h) THEN h[i] ELSE y[i - Len(h)]
    BY <1>0, ConcatProperties
<1> HIDE DEF l
<1>4. l[Len(x) + 1] = m
    <2>1. /\ Len(x) + 1 \in 1..(Len(h) + Len(y)) /\ Len(x) + 1 <= Len(h) /\ (Len(x) + 1) - Len(x) = 1
          /\ Len(x) + 1 \in 1..(Len(x) + Len(e)) /\ ~(Len(x) + 1 <= Len(x))
        BY <1>1, <1>2
    <2> QED BY <1>1, <1>2, <1>3, <2>1
<1>5. Stands(x, l, 0)
    <2>1. 0 \in Nat /\ 0 + Len(x) <= Len(l)
        BY <1>1, <1>2, <1>3
    <2>2. ASSUME NEW i \in 1..Len(x)
          PROVE  l[0 + i] = x[i]
        <3>1. 0 + i = i /\ i \in 1..(Len(h) + Len(y)) /\ i <= Len(h) /\ i \in 1..(Len(x) + Len(e)) /\ i <= Len(x)
            BY <1>1, <1>2
        <3> QED BY <1>2, <1>3, <3>1
    <2> QED BY <2>1, <2>2 DEF Stands
<1>6. Stands(y, l, Len(x) + 1)
    <2>1. Len(x) + 1 \in Nat /\ (Len(x) + 1) + Len(y) <= Len(l)
        BY <1>1, <1>2, <1>3
    <2>2. ASSUME NEW i \in 1..Len(y)
          PROVE  l[(Len(x) + 1) + i] = y[i]
        <3>1. /\ (Len(x) + 1) + i \in 1..(Len(h) + Len(y)) /\ ~((Len(x) + 1) + i <= Len(h))
              /\ ((Len(x) + 1) + i) - Len(h) = i
            BY <1>1, <1>2
        <3> QED BY <1>3, <3>1
    <2> QED BY <2>1, <2>2 DEF Stands
<1>7. Len(l) = (Len(x) + 1) + Len(y)
    BY <1>1, <1>2, <1>3
<1> QED BY <1>3, <1>4, <1>5, <1>6, <1>7 DEF l, h, e

\* What is dumped does not end with a space.
LEMMA BracedEnd ==
    ASSUME NEW C, Alphabet(C), NEW s \in Seq(C), Braced(s) # <<>>
    PROVE  Braced(s)[Len(Braced(s))] \notin Blank
<1> DEFINE left == "{"
           right == "}"
           b == Braced(s)
<1>1. left \in C /\ right \in C /\ right \notin Blank
    BY DEF Alphabet, Blank
<1>2. CASE Spaced(s)
    <2>1. b = <<left>> \o s \o <<right>>
        BY <1>2 DEF Braced
    <2> HIDE DEF left, right, b
    <2>2. Len(b) = Len(s) + 2 /\ b[Len(s) + 2] = right
        BY <1>1, <2>1, InBraces
    <2>3. b[Len(b)] \notin Blank
        BY <1>1, <2>2
    <2> QED BY <2>3 DEF b
<1>3. CASE ~Spaced(s)
    <2>1. b = s /\ s # <<>>
        BY <1>3 DEF Braced
    <2>2. Len(s) \in DOMAIN s
        BY <2>1, EmptySeq
    <2>3. s[Len(s)] \notin Blank
        BY <1>3, <2>2 DEF Spaced, Blank
    <2> QED BY <2>1, <2>3
<1> QED BY <1>2, <1>3

\* Entries without braces and backslashes, and with an '=' in the key only when it is put
\* into braces.
Texts(C) == {s \in Seq(C) : AllOrdinary(s)}
Entries(C) == {e \in [key : Texts(C), val : Texts(C)] : Spaced(e.key) \/ NoEquals(e.key)}

LEMMA EntryReadBack ==
    ASSUME NEW C, Alphabet(C), NEW k \in Texts(C), NEW v \in Texts(C), Spaced(k) \/ NoEquals(k)
    PROVE  _add(dump(k, v)) = {[key |-> k, val |-> v]}
<1> DEFINE m == "="
           bk == Braced(k)
           bv == Braced(v)
           l == dump(k, v)
           U == LineUpto(l)
           p == Len(bk) + 1
<1>1. k \in Seq(C) /\ v \in Seq(C) /\ AllOrdinary(k) /\ AllOrdinary(v) /\ m \in C
    BY DEF Texts, Alphabet
<1>2. bk \in Seq(C) /\ bv \in Seq(C)
    BY <1>1, BracedTyped
<1>3. l = bk \o <<m>> \o bv
    BY DumpIs
<1>4. m \notin Blank
    BY DEF Blank
<1>5. bv # <<>> => bv[Len(bv)] \notin Blank
    BY <1>1, BracedEnd
<1> HIDE DEF m, bk, bv, l
<1>6. /\ l \in Seq(C) /\ Len(l) = p + Len(bv) /\ l[p] = m
      /\ Stands(bk, l, 0) /\ Stands(bv, l, p)
    BY <1>1, <1>2, <1>3, ThreeParts
<1>7. Len(bk) \in Nat /\ Len(bv) \in Nat /\ p \in 1..Len(l) /\ p - 1 = Len(bk) /\ Len(l) \in Nat
    BY <1>2, <1>6
<1>8. TrimRight(l) = l
    <2>1. CASE bv = <<>>
        <3>1. Len(bv) = 0
            BY <2>1, EmptySeq
        <3>2. Len(l) = p
            BY <1>6, <1>7, <3>1
        <3>3. l[Len(l)] \notin Blank
            BY <1>4, <1>6, <3>2
        <3> QED BY <1>6, <3>3, Trimmed
    <2>2. CASE bv # <<>>
        <3>1. Len(bv) \in 1..Len(bv)
            BY <1>2, <2>2, EmptySeq
        <3>2. l[p + Len(bv)] = bv[Len(bv)]
            BY <1>6, <3>1 DEF Stands
        <3>3. l[Len(l)] \notin Blank
            BY <1>5, <1>6, <2>2, <3>2
        <3> QED BY <1>6, <3>3, Trimmed
    <2> QED BY <2>1, <2>2
<1>9. Reading(C, U[Len(bk)], k, <<>>, FALSE, 0, FALSE)
    BY <1>1, <1>6, KeyPart DEF bk
<1>10. U[p] = Take(U[Len(bk)], m)
    <2>1. U[p] = Take(U[p - 1], l[p])
        BY <1>6, <1>7, LineDefined DEF Alphabet
    <2> QED BY <1>6, <1>7, <2>1
<1>11. Reading(C, U[p], k, <<>>, TRUE, 0, TRUE)
    <2>1. Reading(C, Take(U[Len(bk)], m), k, <<>>, TRUE, 0, TRUE)
        BY <1>9, TakeEquals DEF m
    <2> QED BY <1>10, <2>1
<1>12. PICK s : Reading(C, U[p + Len(bv)], k, v, TRUE, 0, s)
    BY <1>1, <1>6, <1>11, ValPart DEF bv
<1> DEFINE st == U[Len(l)]
<1>13. _add(l) = IF st.throw \/ ~st.inval \/ st.lit # 0 THEN {} ELSE {[key |-> st.key, val |-> st.val]}
    BY <1>8, AddIs
<1>14. Reading(C, st, k, v, TRUE, 0, s)
    BY <1>6, <1>12
<1> HIDE DEF st
<1>15. st.throw = FALSE /\ st.inval = TRUE /\ st.lit = 0 /\ st.key = k /\ st.val = v
    BY <1>14 DEF Reading
<1>16. _add(l) = {[key |-> k, val |-> v]}
    BY <1>13, <1>15
<1> QED BY <1>16 DEF l

LEMMA DumpedReadBack ==
    ASSUME NEW C, Alphabet(C), EntryArgs \subseteq Entries(C), CallTyped
    PROVE  DumpReadBack
<1> SUFFICES ASSUME Called("dump")
             PROVE  _add(dump(arg.key, arg.val)) = {arg}
    BY DEF DumpReadBack
<1>1. arg \in Entries(C)
    BY DEF CallTyped, Called, arg
<1>2. /\ arg \in [key : Texts(C), val : Texts(C)] /\ arg.key \in Texts(C) /\ arg.val \in Texts(C)
      /\ Spaced(arg.key) \/ NoEquals(arg.key)
    BY <1>1 DEF Entries
<1>3. arg = [key |-> arg.key, val |-> arg.val]
    BY <1>2
<1> QED BY <1>2, <1>3, EntryReadBack

\* An entry that dump writes, with spaces anywhere in its key and its value, is read by _add
\* as the same entry: entries of every length, with an '=' in the value or in a key that
\* has a space, but without braces and backslashes, which dump does not escape.
THEOREM DumpsReadBack ==
    ASSUME NEW C, Alphabet(C), EntryArgs \subseteq Entries(C)
    PROVE  CodecsSpec => []DumpReadBack
<1>1. CallTyped => DumpReadBack
    BY DumpedReadBack
<1> QED BY <1>1, Arguments, PTL

----------------------------------------------------------------------------
(* Addresses and hardware addresses as texts.                               *)

ScanState(n) == [i : Nat, t : [1..n -> Octet]]

\* One character of a text.
ScanStep(s, c, separator, base) ==
    IF c = separator THEN [s EXCEPT !.i = s.i + 1] ELSE Digit(s, c, base)
ScanStart(zeros) == [i |-> 1, t |-> zeros]

\* The function Scan defines.
ScanUpto(text, separator, base, zeros) ==
    CHOOSE F : F = [j \in 0..Len(text) |->
                      IF j = 0 THEN [i |-> 1, t |-> zeros]
                      ELSE IF text[j] = separator THEN [F[j - 1] EXCEPT !.i = @ + 1]
                      ELSE Digit(F[j - 1], text[j], base)]

ScanStays(S, text, separator, base, zeros) ==
    /\ ScanStart(zeros) \in S /\ Len(text) \in Nat
    /\ \A i \in 1..Len(text) : \A s \in S : ScanStep(s, text[i], separator, base) \in S

LEMMA ScanRecursion ==
    ASSUME NEW S, NEW text, NEW separator, NEW base, NEW zeros, ScanStays(S, text, separator, base, zeros)
    PROVE  /\ ScanUpto(text, separator, base, zeros) \in [0..Len(text) -> S] /\ ScanUpto(text, separator, base, zeros)[0] = ScanStart(zeros)
           /\ \A i \in 1..Len(text) : ScanUpto(text, separator, base, zeros)[i] = ScanStep(ScanUpto(text, separator, base, zeros)[i - 1], text[i], separator, base)
<1> DEFINE m == Len(text)
           z == ScanStart(zeros)
           step == [i \in 1..m |-> [s \in S |-> ScanStep(s, text[i], separator, base)]]
           Solves(F) == F = [i \in 0..m |-> IF i = 0 THEN z ELSE ScanStep(F[i - 1], text[i], separator, base)]
<1>0. m \in Nat
    BY DEF ScanStays
<1>1. z \in S /\ \A i \in 1..m : \A s \in S : ScanStep(s, text[i], separator, base) \in S
    BY DEF ScanStays
<1> HIDE DEF m, z
<1>2. step \in [1..m -> [S -> S]]
    BY <1>1
<1>3. PICK f \in [0..m -> S] : f[0] = z /\ \A i \in 1..m : f[i] = step[i][f[i - 1]]
    <2>1. z \in S /\ m \in Nat
        BY <1>0, <1>1
    <2> HIDE DEF step
    <2>2. \E f \in [0..m -> S] : f[0] = z /\ \A i \in 1..m : f[i] = step[i][f[i - 1]]
        BY ONLY <1>2, <2>1, PrimitiveRecursion
    <2> QED BY <2>2, Zenon
<1>4. Solves(f)
    <2>1. ASSUME NEW i \in 0..m
          PROVE  f[i] = IF i = 0 THEN z ELSE ScanStep(f[i - 1], text[i], separator, base)
        <3>1. CASE i = 0
            BY <1>3, <3>1
        <3>2. CASE i # 0
            <4>1. i \in 1..m /\ f[i - 1] \in S
                BY <1>0, <3>2
            <4>2. f[i] = step[i][f[i - 1]]
                BY <1>3, <4>1
            <4>3. step[i][f[i - 1]] = ScanStep(f[i - 1], text[i], separator, base)
                <5> DEFINE y == f[i - 1]
                <5>1. y \in S
                    BY <4>1
                <5> HIDE DEF y
                <5>2. step[i][y] = ScanStep(y, text[i], separator, base)
                    BY <4>1, <5>1
                <5> QED BY <5>2 DEF y
            <4> QED BY <3>2, <4>2, <4>3
        <3> QED BY <3>1, <3>2
    <2>2. f = [i \in 0..m |-> f[i]]
        OBVIOUS
    <2> HIDE DEF step
    <2> QED BY <2>1, <2>2
<1> HIDE DEF step
<1> DEFINE T == ScanUpto(text, separator, base, zeros)
<1>5. Solves(T)
    <2>1. T = CHOOSE F : Solves(F)
        BY Zenon DEF ScanUpto, ScanStep, ScanStart, m, z
    <2> HIDE DEF Solves
    <2> QED BY <1>4, <2>1
<1> HIDE DEF T
<1>6. DOMAIN T = 0..m /\ T = [i \in 0..m |-> T[i]]
    BY <1>5
<1>7. \A i \in 0..m : T[i] = IF i = 0 THEN z ELSE ScanStep(T[i - 1], text[i], separator, base)
    BY <1>5
<1> HIDE DEF Solves
<1>8. T[0] = z /\ \A i \in 1..m : T[i] = ScanStep(T[i - 1], text[i], separator, base)
    BY <1>0, <1>7
<1> DEFINE G == {i \in 0..m : T[i] \in S}
<1>9. 0 \in G
    BY <1>0, <1>1, <1>8
<1>10. ASSUME NEW i \in 1..m, i - 1 \in G
       PROVE  i \in G
    BY <1>1, <1>8, <1>10
<1>11. 0..m \subseteq G
    <2> HIDE DEF G
    <2> QED BY <1>0, <1>9, <1>10, BoundedInduction
<1>12. T \in [0..m -> S]
    BY <1>6, <1>11
<1> QED BY <1>8, <1>12 DEF T, m, z


\* The octets before the i-th are read, and as much of it as makes v.
Reads(st, a, i, v, n) ==
    /\ st \in ScanState(n) /\ st.i = i
    /\ \A j \in 1..n : st.t[j] = IF j < i THEN a[j] ELSE IF j = i THEN v ELSE 0

LEMMA DigitAt ==
    ASSUME NEW n \in Nat, NEW base \in Nat, NEW g \in [1..n -> Octet], NEW k \in Nat, NEW c \in Int
    PROVE  LET u == [g EXCEPT ![k] = (g[k] * base + c) % 256]
           IN u \in [1..n -> Octet] /\ \A j \in 1..n : u[j] = IF j = k THEN (g[j] * base + c) % 256 ELSE g[j]
<1> DEFINE e == (g[k] * base + c) % 256
           u == [g EXCEPT ![k] = e]
<1>1. k \in 1..n => e \in Octet
    <2> SUFFICES ASSUME k \in 1..n
                 PROVE  e \in Octet
        OBVIOUS
    <2> DEFINE w == g[k]
    <2>0. w \in Octet
        OBVIOUS
    <2> HIDE DEF w
    <2>1. w \in Nat
        BY <2>0 DEF Octet
    <2> DEFINE x == w * base + c
    <2>2. x \in Int
        BY <2>1
    <2> HIDE DEF x
    <2>3. x % 256 \in Octet
        BY <2>2 DEF Octet
    <2> QED BY <2>3 DEF x, w
<1> HIDE DEF e
<1>2. u \in [1..n -> Octet] /\ \A j \in 1..n : u[j] = IF j = k THEN e ELSE g[j]
    BY <1>1
<1> HIDE DEF u
<1>3. ASSUME NEW j \in 1..n
      PROVE  u[j] = IF j = k THEN (g[j] * base + c) % 256 ELSE g[j]
    <2>1. CASE j = k
        BY <1>2, <2>1 DEF e
    <2>2. CASE j # k
        BY <1>2, <2>2
    <2> QED BY <2>1, <2>2
<1> QED BY <1>2, <1>3 DEF u, e

\* r is st after a digit.
AfterDigit(r, st, c, base, n) ==
    /\ r \in ScanState(n) /\ r.i = st.i
    /\ \A j \in 1..n : r.t[j] = IF j = st.i THEN (st.t[j] * base + c) % 256 ELSE st.t[j]

LEMMA DigitTyped ==
    ASSUME NEW n \in Nat, NEW base \in Nat, NEW st \in ScanState(n), NEW c \in Int
    PROVE  AfterDigit(Digit(st, c, base), st, c, base, n)
<1> DEFINE k == st.i
           g == st.t
           u == [g EXCEPT ![k] = (g[k] * base + c) % 256]
           r == [st EXCEPT !.t = u]
<1>1. Digit(st, c, base) = r
    BY DEF Digit
<1>2. k \in Nat /\ g \in [1..n -> Octet]
    BY DEF ScanState
<1>3. u \in [1..n -> Octet] /\ \A j \in 1..n : u[j] = IF j = k THEN (g[j] * base + c) % 256 ELSE g[j]
    <2> HIDE DEF k, g
    <2> QED BY <1>2, DigitAt
<1> HIDE DEF u
<1>4. r \in ScanState(n) /\ r.i = k /\ r.t = u
    BY <1>3 DEF ScanState
<1> HIDE DEF r
<1>5. /\ r \in ScanState(n) /\ r.i = k
      /\ \A j \in 1..n : r.t[j] = IF j = k THEN (g[j] * base + c) % 256 ELSE g[j]
    BY <1>3, <1>4, Zenon
<1> QED BY <1>1, <1>5, Zenon DEF AfterDigit

LEMMA ReadDigit ==
    ASSUME NEW n \in Nat, NEW base \in Nat, NEW st, NEW a, NEW i \in 1..n, NEW v, NEW c \in Int,
           Reads(st, a, i, v, n)
    PROVE  Reads(Digit(st, c, base), a, i, (v * base + c) % 256, n)
<1> DEFINE r == Digit(st, c, base)
           e == (v * base + c) % 256
<1>1. st \in ScanState(n) /\ st.i = i
    BY DEF Reads
<1>2. \A j \in 1..n : st.t[j] = IF j < i THEN a[j] ELSE IF j = i THEN v ELSE 0
    BY DEF Reads
<1>3. /\ r \in ScanState(n) /\ r.i = st.i
      /\ \A j \in 1..n : r.t[j] = IF j = st.i THEN (st.t[j] * base + c) % 256 ELSE st.t[j]
    <2>1. AfterDigit(r, st, c, base, n)
        BY <1>1, DigitTyped
    <2> HIDE DEF r
    <2> QED BY <2>1, Zenon DEF AfterDigit
<1> HIDE DEF r
<1>4. r.t[i] = e
    <2>1. st.t[i] = v
        BY <1>2
    <2>2. r.t[i] = (st.t[i] * base + c) % 256
        BY <1>1, <1>3
    <2> QED BY <2>1, <2>2
<1> HIDE DEF e
<1>5. ASSUME NEW j \in 1..n
      PROVE  r.t[j] = IF j < i THEN a[j] ELSE IF j = i THEN e ELSE 0
    <2>1. CASE j = i
        BY <1>4, <2>1
    <2>2. CASE j # i
        BY <1>1, <1>2, <1>3, <2>2
    <2> QED BY <2>1, <2>2
<1>6. Reads(r, a, i, e, n)
    BY <1>1, <1>3, <1>5 DEF Reads
<1> QED BY <1>6 DEF r, e

LEMMA ReadSeparator ==
    ASSUME NEW n \in Nat, NEW st, NEW a, NEW i \in 1..n, Reads(st, a, i, a[i], n)
    PROVE  Reads([st EXCEPT !.i = st.i + 1], a, i + 1, 0, n)
<1> DEFINE r == [st EXCEPT !.i = st.i + 1]
<1>1. st \in ScanState(n) /\ st.i = i
    BY DEF Reads
<1>2. \A j \in 1..n : st.t[j] = IF j < i THEN a[j] ELSE IF j = i THEN a[i] ELSE 0
    BY DEF Reads
<1>3. r \in ScanState(n) /\ r.i = i + 1 /\ r.t = st.t
    BY <1>1 DEF ScanState
<1> HIDE DEF r
<1>4. ASSUME NEW j \in 1..n
      PROVE  r.t[j] = IF j < i + 1 THEN a[j] ELSE IF j = i + 1 THEN 0 ELSE 0
    <2>1. r.t[j] = IF j < i THEN a[j] ELSE IF j = i THEN a[i] ELSE 0
        BY <1>2, <1>3
    <2> QED BY <2>1
<1>5. Reads(r, a, i + 1, 0, n)
    BY <1>3, <1>4 DEF Reads
<1> QED BY <1>5 DEF r

Steps(text, U, separator, base) ==
    \A i \in 1..Len(text) : U[i] = ScanStep(U[i - 1], text[i], separator, base)

LEMMA ScanDefined ==
    ASSUME NEW n \in Nat, NEW text \in Seq(Int), NEW separator, NEW base \in Nat, NEW zeros \in [1..n -> Octet]
    PROVE  /\ ScanUpto(text, separator, base, zeros)[0] = ScanStart(zeros)
           /\ Steps(text, ScanUpto(text, separator, base, zeros), separator, base)
<1> DEFINE S == ScanState(n)
<1>1. Len(text) \in Nat /\ \A i \in 1..Len(text) : text[i] \in Int
    BY ElementOfSeq
<1>2. ScanStart(zeros) \in S
    BY DEF ScanStart, ScanState
<1>3. ASSUME NEW s \in S, NEW c \in Int
      PROVE  ScanStep(s, c, separator, base) \in S
    <2>1. [s EXCEPT !.i = s.i + 1] \in S
        BY DEF ScanState
    <2>2. Digit(s, c, base) \in S
        BY DigitTyped DEF AfterDigit
    <2> QED BY <2>1, <2>2 DEF ScanStep
<1> HIDE DEF S
<1>5. \A i \in 1..Len(text) : \A s \in S : ScanStep(s, text[i], separator, base) \in S
    BY <1>1, <1>3
<1>4. ScanStays(S, text, separator, base, zeros)
    BY <1>1, <1>2, <1>5 DEF ScanStays
<1>6. /\ ScanUpto(text, separator, base, zeros) \in [0..Len(text) -> S]
      /\ ScanUpto(text, separator, base, zeros)[0] = ScanStart(zeros)
      /\ \A i \in 1..Len(text) :
           ScanUpto(text, separator, base, zeros)[i] =
             ScanStep(ScanUpto(text, separator, base, zeros)[i - 1], text[i], separator, base)
    BY ONLY <1>4, ScanRecursion
<1> QED BY <1>6, Zenon DEF Steps

LEMMA ScanIs ==
    ASSUME NEW text, NEW separator, NEW base, NEW zeros
    PROVE  Scan(text, separator, base, zeros) = ScanUpto(text, separator, base, zeros)[Len(text)].t
BY Zenon DEF Scan, ScanUpto

LEMMA OneDigit ==
    ASSUME NEW n \in Nat, NEW base \in Nat, NEW text, NEW separator, NEW U, Steps(text, U, separator, base),
           NEW q \in 1..Len(text), text[q] \in Int, text[q] # separator,
           NEW a, NEW i \in 1..n, NEW v, Reads(U[q - 1], a, i, v, n), NEW e, e = (v * base + text[q]) % 256
    PROVE  Reads(U[q], a, i, e, n)
<1>1. U[q] = ScanStep(U[q - 1], text[q], separator, base)
    BY Zenon DEF Steps
<1>2. U[q] = Digit(U[q - 1], text[q], base)
    BY <1>1, Zenon DEF ScanStep
<1> DEFINE c == text[q]
           st == U[q - 1]
<1>3. c \in Int /\ Reads(st, a, i, v, n) /\ U[q] = Digit(st, c, base)
    BY <1>2
<1> HIDE DEF c, st
<1>5. e = (v * base + c) % 256
    BY DEF c
<1>4. Reads(Digit(st, c, base), a, i, (v * base + c) % 256, n)
    BY ONLY <1>3, ReadDigit, n \in Nat, base \in Nat, i \in 1..n
<1> QED BY <1>3, <1>4, <1>5, Zenon

LEMMA OneSeparator ==
    ASSUME NEW n \in Nat, NEW base, NEW text, NEW separator, NEW U, Steps(text, U, separator, base),
           NEW q \in 1..Len(text), text[q] = separator,
           NEW a, NEW i \in 1..n, Reads(U[q - 1], a, i, a[i], n)
    PROVE  Reads(U[q], a, i + 1, 0, n)
<1>1. U[q] = ScanStep(U[q - 1], text[q], separator, base)
    BY Zenon DEF Steps
<1>2. U[q] = [U[q - 1] EXCEPT !.i = U[q - 1].i + 1]
    BY <1>1, Zenon DEF ScanStep
<1> QED BY <1>2, ReadSeparator

LEMMA ScanEnds ==
    ASSUME NEW n \in Nat, NEW st, NEW a \in [1..n -> Octet], n \in 1..n, Reads(st, a, n, a[n], n)
    PROVE  st.t = a
<1>1. st.t \in [1..n -> Octet]
    BY DEF Reads, ScanState
<1>2. \A j \in 1..n : st.t[j] = IF j < n THEN a[j] ELSE IF j = n THEN a[n] ELSE 0
    BY DEF Reads
<1>3. \A j \in 1..n : st.t[j] = a[j]
    BY <1>2
<1> QED BY <1>1, <1>3

LEMMA ScanBegins ==
    ASSUME NEW n \in Nat, NEW a, NEW zeros \in [1..n -> Octet], \A j \in 1..n : zeros[j] = 0
    PROVE  Reads(ScanStart(zeros), a, 1, 0, n)
<1>1. ScanStart(zeros) \in ScanState(n) /\ ScanStart(zeros).i = 1 /\ ScanStart(zeros).t = zeros
    BY DEF ScanStart, ScanState
<1>2. \A j \in 1..n : zeros[j] = IF j < 1 THEN a[j] ELSE IF j = 1 THEN 0 ELSE 0
    OBVIOUS
<1> QED BY <1>1, <1>2 DEF Reads

\* Two hexadecimal digits, and one to three decimal ones.
LEMMA TwoHexDigits ==
    ASSUME NEW o \in Octet
    PROVE  LET h == o \div 16
               d == o % 16
           IN h \in Nat /\ d \in Nat /\ (((0 * 16 + h) % 256) * 16 + d) % 256 = o
<1> DEFINE h == o \div 16
           d == o % 16
<1>1. o \in 0..255
    BY DEF Octet
<1>2. h \in 0..15 /\ d \in 0..15 /\ o = 16 * h + d
    BY <1>1
<1> HIDE DEF h, d
<1>3. (0 * 16 + h) % 256 = h
    BY <1>2
<1>4. (h * 16 + d) % 256 = o
    BY <1>1, <1>2
<1>5. (((0 * 16 + h) % 256) * 16 + d) % 256 = o
    BY <1>3, <1>4
<1>6. h \in Nat /\ d \in Nat
    BY <1>2
<1> QED BY <1>5, <1>6, Zenon DEF h, d

LEMMA Decimals ==
    ASSUME NEW o \in Octet
    PROVE  LET x == o \div 100
               y == (o % 100) \div 10
               z == o % 10
           IN /\ x \in Nat /\ y \in Nat /\ z \in Nat
              /\ o < 10 => (0 * 10 + z) % 256 = o
              /\ o < 100 => (((0 * 10 + y) % 256) * 10 + z) % 256 = o
              /\ (((((0 * 10 + x) % 256) * 10 + y) % 256) * 10 + z) % 256 = o
<1> DEFINE x == o \div 100
           w == o % 100
           y == w \div 10
           z == o % 10
<1>1. o \in 0..255
    BY DEF Octet
<1>2. x \in 0..2 /\ w \in 0..99 /\ o = 100 * x + w
    BY <1>1
<1>3. z \in 0..9 /\ o = 10 * (o \div 10) + z /\ o \div 10 \in Int
    BY <1>1
<1> HIDE DEF x, w
<1> DEFINE r == w % 10
<1>14. y \in 0..9
    BY <1>2
<1>15. r \in 0..9 /\ w = 10 * y + r
    BY <1>2
<1> HIDE DEF r, y, z
<1>4. y \in 0..9 /\ r \in 0..9 /\ w = 10 * y + r
    BY <1>14, <1>15
<1>5. z = r
    BY <1>2, <1>3, <1>4
<1>6. o < 10 => (0 * 10 + z) % 256 = o
    BY <1>1, <1>2, <1>4, <1>5
<1>7. o = 100 * x + 10 * y + z
    BY <1>2, <1>4, <1>5
<1>8. (0 * 10 + y) % 256 = y /\ (0 * 10 + x) % 256 = x
    BY <1>2, <1>4
<1>9. o < 100 => (y * 10 + z) % 256 = o
    BY <1>1, <1>2, <1>3, <1>4, <1>7
<1>10. (x * 10 + y) % 256 = x * 10 + y
    BY <1>2, <1>4
<1>11. ((x * 10 + y) * 10 + z) % 256 = o
    BY <1>1, <1>2, <1>3, <1>4, <1>7
<1>12. o < 100 => (((0 * 10 + y) % 256) * 10 + z) % 256 = o
    BY <1>8, <1>9
<1>13. (((((0 * 10 + x) % 256) * 10 + y) % 256) * 10 + z) % 256 = o
    BY <1>8, <1>10, <1>11
<1>16. x \in Nat /\ y \in Nat /\ z \in Nat
    BY <1>2, <1>3, <1>4
<1> QED BY <1>6, <1>12, <1>13, <1>16, Zenon DEF x, w, y, z

LEMMA JoinOne ==
    ASSUME NEW S, NEW s \in Seq(S), NEW c \in S
    PROVE  /\ s \o <<c>> \in Seq(S) /\ Len(s \o <<c>>) = Len(s) + 1 /\ (s \o <<c>>)[Len(s) + 1] = c
           /\ \A i \in 1..Len(s) : (s \o <<c>>)[i] = s[i]
<1>1. s \o <<c>> = Append(s, c)
    BY AppendIsConcat
<1> QED BY <1>1, AppendProperties

\* The texts of three, two and one digits.
IsText(t, n, x, y, z) ==
    /\ t \in Seq(Nat) /\ Len(t) = n /\ t[n] = z
    /\ n >= 2 => t[n - 1] = y
    /\ n >= 3 => t[n - 2] = x

LEMMA TwoAndThree ==
    ASSUME NEW x \in Nat, NEW y \in Nat, NEW z \in Nat
    PROVE  /\ IsText(<<>> \o <<>> \o <<z>>, 1, x, y, z)
           /\ IsText(<<>> \o <<y>> \o <<z>>, 2, x, y, z)
           /\ IsText(<<x>> \o <<y>> \o <<z>>, 3, x, y, z)
<1>0. /\ <<>> \in Seq(Nat) /\ <<y>> \in Seq(Nat) /\ <<x>> \in Seq(Nat) /\ <<z>> \in Seq(Nat)
      /\ Len(<<y>>) = 1 /\ Len(<<x>>) = 1 /\ <<x>>[1] = x /\ <<y>>[1] = y
      /\ Len(<<z>>) = 1 /\ <<z>>[1] = z
    BY SeqOfOne, EmptySeq
<1>1. <<>> \o <<>> = <<>> /\ <<>> \o <<z>> = <<z>> /\ <<>> \o <<y>> = <<y>>
    BY <1>0, ConcatEmptySeq
<1>2. IsText(<<>> \o <<>> \o <<z>>, 1, x, y, z)
    BY <1>0, <1>1 DEF IsText
<1> DEFINE u == <<y>>
           v == <<x>>
<1>3. IsText(u \o <<z>>, 2, x, y, z)
    <2>1. u \in Seq(Nat) /\ Len(u) = 1 /\ u[1] = y
        BY <1>0
    <2> HIDE DEF u
    <2> DEFINE t == u \o <<z>>
    <2>2. t \in Seq(Nat) /\ Len(t) = 2 /\ t[2] = z /\ t[1] = u[1]
        <3>1. t \in Seq(Nat) /\ Len(t) = Len(u) + 1 /\ t[Len(u) + 1] = z /\ \A i \in 1..Len(u) : t[i] = u[i]
            <4>1. u \in Seq(Nat)
                BY <2>1
            <4> QED BY ONLY <4>1, JoinOne, z \in Nat, y \in Nat
        <3> HIDE DEF t
        <3> QED BY <2>1, <3>1
    <2> HIDE DEF t
    <2>3. IsText(t, 2, x, y, z)
        BY <2>1, <2>2 DEF IsText
    <2> QED BY <2>3 DEF t
<1>4. IsText(v \o <<y>> \o <<z>>, 3, x, y, z)
    <2>1. v \in Seq(Nat) /\ Len(v) = 1 /\ v[1] = x
        BY <1>0
    <2> HIDE DEF v
    <2> DEFINE w == v \o <<y>>
               t == w \o <<z>>
    <2>2. w \in Seq(Nat) /\ Len(w) = 2 /\ w[2] = y /\ w[1] = v[1]
        <3>1. w \in Seq(Nat) /\ Len(w) = Len(v) + 1 /\ w[Len(v) + 1] = y /\ \A i \in 1..Len(v) : w[i] = v[i]
            <4>1. v \in Seq(Nat)
                BY <2>1
            <4> QED BY ONLY <4>1, JoinOne, z \in Nat, y \in Nat
        <3> HIDE DEF w
        <3> QED BY <2>1, <3>1
    <2> HIDE DEF w
    <2>3. t \in Seq(Nat) /\ Len(t) = 3 /\ t[3] = z /\ t[2] = w[2] /\ t[1] = w[1]
        <3>1. t \in Seq(Nat) /\ Len(t) = Len(w) + 1 /\ t[Len(w) + 1] = z /\ \A i \in 1..Len(w) : t[i] = w[i]
            <4>1. w \in Seq(Nat)
                BY <2>2
            <4> QED BY ONLY <4>1, JoinOne, z \in Nat, y \in Nat
        <3> HIDE DEF t
        <3> QED BY <2>2, <3>1
    <2> HIDE DEF t
    <2>4. IsText(t, 3, x, y, z)
        BY <2>1, <2>2, <2>3 DEF IsText
    <2> QED BY <2>4 DEF t, w
<1> QED BY <1>1, <1>2, <1>3, <1>4

LEMMA OctetTextIs ==
    ASSUME NEW o \in Octet
    PROVE  LET x == o \div 100
               y == (o % 100) \div 10
               z == o % 10
           IN /\ o < 10 => IsText(OctetText(o), 1, x, y, z)
              /\ o >= 10 /\ o < 100 => IsText(OctetText(o), 2, x, y, z)
              /\ o >= 100 => IsText(OctetText(o), 3, x, y, z)
<1> DEFINE x == o \div 100
           y == (o % 100) \div 10
           z == o % 10
<1>0. x \in Nat /\ y \in Nat /\ z \in Nat
    BY Decimals
<1> HIDE DEF x, y, z
<1>1. OctetText(o) = (IF o >= 100 THEN <<x>> ELSE <<>>) \o (IF o >= 10 THEN <<y>> ELSE <<>>) \o <<z>>
    BY Zenon DEF OctetText, x, y, z
<1>2. o < 10 => IsText(OctetText(o), 1, x, y, z)
    <2> SUFFICES ASSUME o < 10
                 PROVE  IsText(OctetText(o), 1, x, y, z)
        OBVIOUS
    <2>1. ~(o >= 100) /\ ~(o >= 10)
        BY DEF Octet
    <2>2. OctetText(o) = <<>> \o <<>> \o <<z>>
        BY <1>1, <2>1
    <2> QED BY <1>0, <2>2, TwoAndThree
<1>3. o >= 10 /\ o < 100 => IsText(OctetText(o), 2, x, y, z)
    <2> SUFFICES ASSUME o >= 10, o < 100
                 PROVE  IsText(OctetText(o), 2, x, y, z)
        OBVIOUS
    <2>1. ~(o >= 100)
        BY DEF Octet
    <2>2. OctetText(o) = <<>> \o <<y>> \o <<z>>
        BY <1>1, <2>1
    <2> QED BY <1>0, <2>2, TwoAndThree
<1>4. o >= 100 => IsText(OctetText(o), 3, x, y, z)
    <2> SUFFICES ASSUME o >= 100
                 PROVE  IsText(OctetText(o), 3, x, y, z)
        OBVIOUS
    <2>1. o >= 10
        BY DEF Octet
    <2>2. OctetText(o) = <<x>> \o <<y>> \o <<z>>
        BY <1>1, <2>1
    <2> QED BY <1>0, <2>2, TwoAndThree
<1> QED BY <1>2, <1>3, <1>4, Zenon DEF x, y, z

\* An octet with one more digit.
Shifted(e, v, c) == e = (v * 10 + c) % 256

\* A digit of the octet, at its place in the text.
LEMMA DigitAtPlace ==
    ASSUME NEW n \in Nat, NEW text, NEW U, Steps(text, U, Dot, 10), NEW q \in 1..Len(text), NEW r, r = q - 1,
           NEW c \in Nat, text[q] = c,
           NEW a, NEW i \in 1..n, NEW v, Reads(U[r], a, i, v, n), NEW e, Shifted(e, v, c)
    PROVE  Reads(U[q], a, i, e, n)
<1>1. c \in Int /\ c # Dot /\ 10 \in Nat
    BY DEF Dot
<1>2. Reads(U[q - 1], a, i, v, n) /\ text[q] \in Int /\ text[q] # Dot
    BY <1>1
<1>3. e = (v * 10 + text[q]) % 256
    BY Zenon DEF Shifted
<1> QED BY ONLY <1>1, <1>2, <1>3, OneDigit, Steps(text, U, Dot, 10), n \in Nat, i \in 1..n, q \in 1..Len(text)

LEMMA OctetRead ==
    ASSUME NEW n \in Nat, NEW text, NEW U, Steps(text, U, Dot, 10), Len(text) \in Nat, NEW p, NEW o \in Octet,
           Stands(OctetText(o), text, p), NEW a, NEW i \in 1..n, Reads(U[p], a, i, 0, n)
    PROVE  Reads(U[p + Len(OctetText(o))], a, i, o, n)
<1> DEFINE x == o \div 100
           y == (o % 100) \div 10
           z == o % 10
           t == OctetText(o)
<1>1. /\ x \in Nat /\ y \in Nat /\ z \in Nat
      /\ o < 10 => (0 * 10 + z) % 256 = o
      /\ o < 100 => (((0 * 10 + y) % 256) * 10 + z) % 256 = o
      /\ (((((0 * 10 + x) % 256) * 10 + y) % 256) * 10 + z) % 256 = o
    BY Decimals
<1>2. /\ o < 10 => IsText(t, 1, x, y, z)
      /\ o >= 10 /\ o < 100 => IsText(t, 2, x, y, z)
      /\ o >= 100 => IsText(t, 3, x, y, z)
    BY OctetTextIs
<1>3. p \in Nat /\ p + Len(t) <= Len(text) /\ \A j \in 1..Len(t) : text[p + j] = t[j]
    BY DEF Stands
<1>7. x \in Nat /\ y \in Nat /\ z \in Nat
    BY <1>1
<1> HIDE DEF x, y, z, t
<1>4. CASE o < 10
    <2>1. Len(t) = 1 /\ t[1] = z
        BY <1>2, <1>4 DEF IsText
    <2>2. p + 1 \in 1..Len(text) /\ text[p + 1] = z /\ p = (p + 1) - 1
        BY <1>3, <2>1
    <2>3. Shifted(o, 0, z)
        BY <1>1, <1>4 DEF Shifted
    <2>4. Reads(U[p + 1], a, i, o, n)
        BY ONLY <1>7, <2>2, <2>3, DigitAtPlace, Steps(text, U, Dot, 10), n \in Nat, i \in 1..n, Reads(U[p], a, i, 0, n)
    <2> QED BY <2>1, <2>4 DEF t
<1>5. CASE o >= 10 /\ o < 100
    <2>1. Len(t) = 2 /\ t[2] = z /\ t[1] = y
        BY <1>2, <1>5 DEF IsText
    <2>2. /\ p + 1 \in 1..Len(text) /\ text[p + 1] = y /\ p = (p + 1) - 1
          /\ p + 2 \in 1..Len(text) /\ text[p + 2] = z /\ p + 1 = (p + 2) - 1
        BY <1>3, <2>1
    <2> DEFINE v == (0 * 10 + y) % 256
    <2>7. Shifted(v, 0, y)
        BY Zenon DEF Shifted
    <2>9. v = (0 * 10 + y) % 256
        OBVIOUS
    <2> HIDE DEF v
    <2>3. Reads(U[p + 1], a, i, v, n)
        BY ONLY <1>7, <2>2, <2>7, DigitAtPlace, Steps(text, U, Dot, 10), n \in Nat, i \in 1..n, Reads(U[p], a, i, 0, n)
    <2>4. Shifted(o, v, z)
        BY <1>1, <1>5, <2>9 DEF Shifted
    <2>5. Reads(U[p + 2], a, i, o, n)
        BY ONLY <1>7, <2>2, <2>3, <2>4, DigitAtPlace, Steps(text, U, Dot, 10), n \in Nat, i \in 1..n
    <2> QED BY <2>1, <2>5 DEF t
<1>6. CASE o >= 100
    <2>1. Len(t) = 3 /\ t[3] = z /\ t[2] = y /\ t[1] = x
        BY <1>2, <1>6 DEF IsText
    <2>2. /\ p + 1 \in 1..Len(text) /\ text[p + 1] = x /\ p = (p + 1) - 1
          /\ p + 2 \in 1..Len(text) /\ text[p + 2] = y /\ p + 1 = (p + 2) - 1
          /\ p + 3 \in 1..Len(text) /\ text[p + 3] = z /\ p + 2 = (p + 3) - 1
        BY <1>3, <2>1
    <2> DEFINE v == (0 * 10 + x) % 256
               w == (v * 10 + y) % 256
    <2>7. Shifted(v, 0, x)
        BY Zenon DEF Shifted
    <2>9. v = (0 * 10 + x) % 256
        OBVIOUS
    <2> HIDE DEF v
    <2>3. Reads(U[p + 1], a, i, v, n)
        BY ONLY <1>7, <2>2, <2>7, DigitAtPlace, Steps(text, U, Dot, 10), n \in Nat, i \in 1..n, Reads(U[p], a, i, 0, n)
    <2>4. Shifted(o, w, z)
        BY <1>1, <2>9 DEF Shifted
    <2>8. Shifted(w, v, y)
        BY Zenon DEF Shifted
    <2> HIDE DEF w
    <2>5. Reads(U[p + 2], a, i, w, n)
        BY ONLY <1>7, <2>2, <2>3, <2>8, DigitAtPlace, Steps(text, U, Dot, 10), n \in Nat, i \in 1..n
    <2>6. Reads(U[p + 3], a, i, o, n)
        BY ONLY <1>7, <2>2, <2>4, <2>5, DigitAtPlace, Steps(text, U, Dot, 10), n \in Nat, i \in 1..n
    <2> QED BY <2>1, <2>6 DEF t
<1> QED BY <1>4, <1>5, <1>6 DEF Octet

LEMMA OctetTextTyped ==
    ASSUME NEW o \in Octet
    PROVE  OctetText(o) \in Seq(Int)
<1> DEFINE x == o \div 100
           y == (o % 100) \div 10
           z == o % 10
           t == OctetText(o)
<1>1. /\ o < 10 => IsText(t, 1, x, y, z)
      /\ o >= 10 /\ o < 100 => IsText(t, 2, x, y, z)
      /\ o >= 100 => IsText(t, 3, x, y, z)
    BY OctetTextIs
<1> HIDE DEF x, y, z, t
<1>2. o < 10 \/ (o >= 10 /\ o < 100) \/ o >= 100
    BY DEF Octet
<1>3. t \in Seq(Nat)
    BY <1>1, <1>2 DEF IsText
<1> QED BY <1>3, SeqMonotonic DEF t

LEMMA StandsInPart ==
    ASSUME NEW x, NEW y, NEW l, NEW p, Stands(x, y, p), Stands(y, l, 0), Len(x) \in Nat, Len(y) \in Nat
    PROVE  Stands(x, l, p)
<1>1. p \in Nat /\ p + Len(x) <= Len(y) /\ \A i \in 1..Len(x) : y[p + i] = x[i]
    BY DEF Stands
<1>2. 0 + Len(y) <= Len(l) /\ \A i \in 1..Len(y) : l[0 + i] = y[i]
    BY DEF Stands
<1>3. ASSUME NEW i \in 1..Len(x)
      PROVE  l[p + i] = x[i]
    <2>1. p + i \in 1..Len(y) /\ 0 + (p + i) = p + i
        BY <1>1
    <2> QED BY <1>1, <1>2, <2>1
<1>4. p + Len(x) <= Len(l) \/ Len(l) \notin Int
    BY <1>1, <1>2
<1> QED BY <1>1, <1>2, <1>3, <1>4 DEF Stands

\* An octet and the dot behind it.
LEMMA OctetAndDot ==
    ASSUME NEW n \in Nat, NEW text, NEW U, Steps(text, U, Dot, 10), Len(text) \in Nat, NEW p, NEW q,
           NEW a, NEW i \in 1..n, a[i] \in Octet, Stands(OctetText(a[i]), text, p),
           q = p + Len(OctetText(a[i])) + 1, q <= Len(text), text[q] = Dot, Reads(U[p], a, i, 0, n)
    PROVE  Reads(U[q], a, i + 1, 0, n)
<1> DEFINE o == a[i]
           r == p + Len(OctetText(o))
<1>1. Reads(U[r], a, i, o, n)
    <2> HIDE DEF o
    <2>1. o \in Octet /\ Stands(OctetText(o), text, p)
        BY DEF o
    <2> QED BY <2>1, OctetRead
<1>2. OctetText(o) \in Seq(Int)
    BY OctetTextTyped
<1>3. r \in Nat
    BY <1>2 DEF Stands
<1> HIDE DEF r
<1>4. q = r + 1
    BY DEF r
<1>5. q \in 1..Len(text) /\ q - 1 = r
    BY <1>3, <1>4
<1>6. Reads(U[q - 1], a, i, a[i], n)
    BY <1>1, <1>5
<1> QED BY <1>5, <1>6, OneSeparator

LEMMA AddressRead ==
    ASSUME NEW a \in [1..4 -> Octet]
    PROVE  ip_s2u(ip_u2s(a)) = a
<1> DEFINE t1 == OctetText(a[1])
           t2 == OctetText(a[2])
           t3 == OctetText(a[3])
           t4 == OctetText(a[4])
           d == Dot
           x == t1 \o <<d>> \o t2
           y == x \o <<d>> \o t3
           text == y \o <<d>> \o t4
           zeros == <<0, 0, 0, 0>>
           U == ScanUpto(text, d, 10, zeros)
<1>0. \A k \in 1..4 : a[k] \in Octet
    OBVIOUS
<1>27. t1 \in Seq(Int) /\ t2 \in Seq(Int) /\ t3 \in Seq(Int) /\ t4 \in Seq(Int)
    BY <1>0, OctetTextTyped, 1 \in 1..4, 2 \in 1..4, 3 \in 1..4, 4 \in 1..4
<1>1. Len(t1) \in Nat /\ Len(t2) \in Nat /\ Len(t3) \in Nat /\ Len(t4) \in Nat
    BY <1>27, LenProperties
<1>2. d \in Int /\ 10 \in Nat /\ 4 \in Nat
    BY DEF Dot
<1>3. ip_u2s(a) = text
    BY Zenon DEF ip_u2s
<1>4. zeros \in [1..4 -> Octet] /\ \A k \in 1..4 : zeros[k] = 0
    BY DEF Octet
<1>5. ip_s2u(text) = Scan(text, d, 10, zeros)
    BY Zenon DEF ip_s2u
<1> HIDE DEF t1, t2, t3, t4, d, zeros
<1>6. /\ x \in Seq(Int) /\ Len(x) = (Len(t1) + 1) + Len(t2) /\ x[Len(t1) + 1] = d
      /\ Stands(t1, x, 0) /\ Stands(t2, x, Len(t1) + 1)
    BY ONLY <1>27, <1>2, ThreeParts
<1> HIDE DEF x
<1>7. /\ y \in Seq(Int) /\ Len(y) = (Len(x) + 1) + Len(t3) /\ y[Len(x) + 1] = d
      /\ Stands(x, y, 0) /\ Stands(t3, y, Len(x) + 1)
    <2>1. x \in Seq(Int)
        BY <1>6
    <2> QED BY ONLY <1>27, <1>2, <2>1, ThreeParts
<1> HIDE DEF y
<1>8. /\ text \in Seq(Int) /\ Len(text) = (Len(y) + 1) + Len(t4) /\ text[Len(y) + 1] = d
      /\ Stands(y, text, 0) /\ Stands(t4, text, Len(y) + 1)
    <2>1. y \in Seq(Int)
        BY <1>7
    <2> QED BY ONLY <1>27, <1>2, <2>1, ThreeParts
<1> HIDE DEF text
<1>9. Len(x) \in Nat /\ Len(y) \in Nat /\ Len(text) \in Nat
    BY <1>6, <1>7, <1>8
<1>28. Len(x) = (Len(t1) + 1) + Len(t2) /\ Len(y) = (Len(x) + 1) + Len(t3) /\ Len(text) = (Len(y) + 1) + Len(t4)
    BY <1>6, <1>7, <1>8
<1>10. Stands(x, text, 0)
    BY <1>7, <1>8, <1>9, StandsInPart
<1>11. Stands(t1, text, 0) /\ Stands(t2, text, Len(t1) + 1) /\ Stands(t3, text, Len(x) + 1)
    <2>1. Stands(t1, text, 0)
        BY <1>1, <1>6, <1>9, <1>10, StandsInPart
    <2>2. Stands(t2, text, Len(t1) + 1)
        <3> DEFINE p == Len(t1) + 1
        <3>1. Stands(t2, x, p)
            BY <1>6
        <3> HIDE DEF p
        <3>2. Stands(t2, text, p)
            BY <1>1, <1>9, <1>10, <3>1, StandsInPart
        <3> QED BY <3>2 DEF p
    <2>3. Stands(t3, text, Len(x) + 1)
        <3> DEFINE p == Len(x) + 1
        <3>1. Stands(t3, y, p) /\ Stands(y, text, 0)
            BY <1>7, <1>8
        <3> HIDE DEF p
        <3>2. Stands(t3, text, p)
            BY <1>1, <1>9, <3>1, StandsInPart
        <3> QED BY <3>2 DEF p
    <2> QED BY <2>1, <2>2, <2>3
<1>12. text[Len(t1) + 1] = d /\ text[Len(x) + 1] = d
    <2>1. /\ Len(t1) + 1 \in 1..Len(x) /\ Len(x) + 1 \in 1..Len(y)
          /\ 0 + (Len(t1) + 1) = Len(t1) + 1 /\ 0 + (Len(x) + 1) = Len(x) + 1
        BY ONLY <1>1, <1>28, <1>9
    <2>2. text[0 + (Len(t1) + 1)] = x[Len(t1) + 1]
        BY <1>10, <2>1 DEF Stands
    <2>3. text[0 + (Len(x) + 1)] = y[Len(x) + 1]
        BY <1>8, <2>1 DEF Stands
    <2> QED BY <1>6, <1>7, <2>1, <2>2, <2>3
<1>13. U[0] = ScanStart(zeros) /\ Steps(text, U, d, 10)
    <2>1. text \in Seq(Int)
        BY <1>8
    <2>2. U[0] = ScanStart(zeros) /\ Steps(text, U, d, 10)
        <3> DEFINE b == 10
                   m == 4
        <3>1. b \in Nat /\ m \in Nat /\ zeros \in [1..m -> Octet] /\ U = ScanUpto(text, d, b, zeros)
            BY <1>2, <1>4
        <3> HIDE DEF b, m, U
        <3>2. U[0] = ScanStart(zeros) /\ Steps(text, U, d, b)
            BY ONLY <2>1, <3>1, ScanDefined
        <3> QED BY <3>2 DEF b
    <2> QED BY <2>2
<1> HIDE DEF U
<1>14. Steps(text, U, Dot, 10) /\ text[Len(t1) + 1] = Dot /\ text[Len(x) + 1] = Dot /\ text[Len(y) + 1] = Dot
    BY <1>8, <1>12, <1>13 DEF d
<1>15. Reads(U[0], a, 1, 0, 4)
    BY <1>2, <1>4, <1>13, ScanBegins
<1> DEFINE q == Len(t1) + 1
           r == Len(x) + 1
           s == Len(y) + 1
<1>16. /\ q = 0 + Len(t1) + 1 /\ r = q + Len(t2) + 1 /\ s = r + Len(t3) + 1
       /\ q <= Len(text) /\ r <= Len(text) /\ s <= Len(text)
    BY ONLY <1>1, <1>28, <1>9
<1>17. text[q] = Dot /\ text[r] = Dot /\ text[s] = Dot /\ Stands(t2, text, q) /\ Stands(t3, text, r)
       /\ Stands(t4, text, s) /\ Stands(t1, text, 0) /\ Len(text) = s + Len(t4)
    BY <1>8, <1>11, <1>14
<1> HIDE DEF q, r, s
<1>18. Reads(U[q], a, 1 + 1, 0, 4)
    BY <1>0, <1>2, <1>9, <1>14, <1>15, <1>16, <1>17, OctetAndDot, 1 \in 1..4 DEF t1
<1>19. Reads(U[q], a, 2, 0, 4)
    BY <1>18
<1>20. Reads(U[r], a, 2 + 1, 0, 4)
    BY <1>0, <1>2, <1>9, <1>14, <1>19, <1>16, <1>17, OctetAndDot, 2 \in 1..4 DEF t2
<1>21. Reads(U[r], a, 3, 0, 4)
    BY <1>20
<1>22. Reads(U[s], a, 3 + 1, 0, 4)
    BY <1>0, <1>2, <1>9, <1>14, <1>21, <1>16, <1>17, OctetAndDot, 3 \in 1..4 DEF t3
<1>23. Reads(U[s], a, 4, 0, 4)
    BY <1>22
<1>24. Reads(U[Len(text)], a, 4, a[4], 4)
    <2> DEFINE o == a[4]
    <2>1. o \in Octet /\ Stands(OctetText(o), text, s) /\ Len(text) = s + Len(OctetText(o)) /\ 4 \in 1..4
        BY <1>0, <1>17 DEF t4
    <2> HIDE DEF o
    <2>2. Reads(U[s + Len(OctetText(o))], a, 4, o, 4)
        BY <1>2, <1>9, <1>14, <1>23, <2>1, OctetRead
    <2> QED BY <2>1, <2>2 DEF o
<1>25. U[Len(text)].t = a
    BY <1>2, <1>24, ScanEnds, 4 \in 1..4
<1>26. Scan(text, d, 10, zeros) = U[Len(text)].t
    BY ScanIs DEF U
<1> QED BY <1>3, <1>5, <1>25, <1>26

\* The text of a hardware address, by its octets.
LEMMA MacText ==
    ASSUME NEW a \in [1..6 -> Octet]
    PROVE  /\ mac_u2s(a) \in Seq(Int) /\ Len(mac_u2s(a)) = 17
           /\ \A k \in 1..6 : /\ mac_u2s(a)[3 * k - 2] = a[k] \div 16
                              /\ mac_u2s(a)[3 * k - 1] = a[k] % 16
                              /\ k # 6 => mac_u2s(a)[3 * k] = Colon
<1> DEFINE E(j) == IF j % 3 = 0 THEN Colon
                   ELSE IF j % 3 = 1 THEN a[(j + 2) \div 3] \div 16 ELSE a[(j + 1) \div 3] % 16
           text == [j \in 1..17 |-> E(j)]
<1>1. mac_u2s(a) = text
    BY Zenon DEF mac_u2s
<1>2. ASSUME NEW k \in 1..6
      PROVE  /\ 3 * k - 2 \in 1..17 /\ E(3 * k - 2) = a[k] \div 16
             /\ 3 * k - 1 \in 1..17 /\ E(3 * k - 1) = a[k] % 16
             /\ k # 6 => 3 * k \in 1..17 /\ E(3 * k) = Colon
    <2>1. (3 * k - 2) % 3 = 1 /\ ((3 * k - 2) + 2) \div 3 = k /\ 3 * k - 2 \in 1..17
        OBVIOUS
    <2>2. (3 * k - 1) % 3 = 2 /\ ((3 * k - 1) + 1) \div 3 = k /\ 3 * k - 1 \in 1..17
        OBVIOUS
    <2>3. (3 * k) % 3 = 0 /\ (k # 6 => 3 * k \in 1..17)
        OBVIOUS
    <2> QED BY <2>1, <2>2, <2>3
<1>3. ASSUME NEW j \in 1..17
      PROVE  E(j) \in Int
    <2>1. CASE j % 3 = 0
        BY <2>1 DEF Colon
    <2>2. CASE j % 3 = 1
        <3> DEFINE o == a[(j + 2) \div 3]
        <3>1. (j + 2) \div 3 \in 1..6
            OBVIOUS
        <3>2. o \in Octet
            BY <3>1
        <3> HIDE DEF o
        <3>3. o \div 16 \in Int
            BY <3>2 DEF Octet
        <3> QED BY <2>2, <3>3 DEF o
    <2>3. CASE j % 3 # 0 /\ j % 3 # 1
        <3> DEFINE o == a[(j + 1) \div 3]
        <3>1. (j + 1) \div 3 \in 1..6
            BY <2>3
        <3>2. o \in Octet
            BY <3>1
        <3> HIDE DEF o
        <3>3. o % 16 \in Int
            BY <3>2 DEF Octet
        <3> QED BY <2>3, <3>3 DEF o
    <2> QED BY <2>1, <2>2, <2>3
<1> HIDE DEF E
<1>4. text \in Seq(Int) /\ Len(text) = 17
    BY <1>3, 17 \in Nat, IsASeq
<1>5. \A j \in 1..17 : text[j] = E(j)
    OBVIOUS
<1> HIDE DEF text
<1>6. ASSUME NEW k \in 1..6
      PROVE  /\ text[3 * k - 2] = a[k] \div 16 /\ text[3 * k - 1] = a[k] % 16
             /\ k # 6 => text[3 * k] = Colon
    BY <1>2, <1>5
<1> QED BY <1>1, <1>4, <1>6

\* The two digits of an octet.
LEMMA HexOctetRead ==
    ASSUME NEW text, NEW U, Steps(text, U, Colon, 16), NEW a, NEW n \in Nat, NEW k \in 1..n, a[k] \in Octet,
           NEW p, NEW q \in 1..Len(text), NEW r \in 1..Len(text), p = q - 1, q = r - 1,
           text[q] = a[k] \div 16, text[r] = a[k] % 16, Reads(U[p], a, k, 0, n)
    PROVE  Reads(U[r], a, k, a[k], n)
<1> DEFINE o == a[k]
           h == o \div 16
           d == o % 16
           v == (0 * 16 + h) % 256
<1>1. h \in Nat /\ d \in Nat /\ (v * 16 + d) % 256 = o
    BY TwoHexDigits
<1>2. text[q] = h /\ text[r] = d
    OBVIOUS
<1> HIDE DEF o, h, d
<1>3. h # Colon /\ d # Colon /\ h \in Int /\ d \in Int /\ 16 \in Nat
    BY <1>1 DEF Colon
<1>4. v = (0 * 16 + text[q]) % 256
    BY <1>2, Zenon
<1> HIDE DEF v
<1>5. o = (v * 16 + text[r]) % 256
    BY <1>1, <1>2, Zenon
<1>6. Reads(U[q - 1], a, k, 0, n) /\ text[q] \in Int /\ text[q] # Colon /\ text[r] \in Int /\ text[r] # Colon
    BY <1>2, <1>3
<1>7. Reads(U[q], a, k, v, n)
    BY ONLY <1>3, <1>4, <1>6, OneDigit, Steps(text, U, Colon, 16), n \in Nat, k \in 1..n, q \in 1..Len(text)
<1>8. Reads(U[r - 1], a, k, v, n)
    BY <1>7
<1>9. Reads(U[r], a, k, o, n)
    BY ONLY <1>3, <1>5, <1>6, <1>8, OneDigit, Steps(text, U, Colon, 16), n \in Nat, k \in 1..n, r \in 1..Len(text)
<1> QED BY <1>9 DEF o

LEMMA MacRead ==
    ASSUME NEW a \in [1..6 -> Octet]
    PROVE  mac_s2u(mac_u2s(a)) = a
<1> DEFINE text == mac_u2s(a)
           zeros == <<0, 0, 0, 0, 0, 0>>
           U == ScanUpto(text, Colon, 16, zeros)
<1>0. \A k \in 1..6 : a[k] \in Octet
    OBVIOUS
<1>1. /\ text \in Seq(Int) /\ Len(text) = 17
      /\ \A k \in 1..6 : /\ text[3 * k - 2] = a[k] \div 16 /\ text[3 * k - 1] = a[k] % 16
                         /\ k # 6 => text[3 * k] = Colon
    BY MacText
<1>2. zeros \in [1..6 -> Octet] /\ \A k \in 1..6 : zeros[k] = 0
    BY DEF Octet
<1>3. mac_s2u(text) = Scan(text, Colon, 16, zeros)
    BY Zenon DEF mac_s2u
<1> HIDE DEF text, zeros
<1>4. U[0] = ScanStart(zeros) /\ Steps(text, U, Colon, 16)
    <2>1. text \in Seq(Int)
        BY <1>1
    <2> DEFINE b == 16
               m == 6
    <2>2. b \in Nat /\ m \in Nat /\ zeros \in [1..m -> Octet] /\ U = ScanUpto(text, Colon, b, zeros)
        BY <1>2
    <2> HIDE DEF b, m, U
    <2>3. U[0] = ScanStart(zeros) /\ Steps(text, U, Colon, b)
        BY ONLY <2>1, <2>2, ScanDefined
    <2> QED BY <2>3 DEF b
<1> HIDE DEF U
<1> DEFINE G == {k \in 0..5 : Reads(U[3 * k], a, k + 1, 0, 6)}
<1>5. 0 \in G
    <2>1. Reads(U[0], a, 1, 0, 6)
        BY <1>2, <1>4, ScanBegins, 6 \in Nat
    <2>2. 3 * 0 = 0 /\ 0 + 1 = 1 /\ 0 \in 0..5
        OBVIOUS
    <2> QED BY <2>1, <2>2
<1>6. ASSUME NEW k \in 1..6, k - 1 \in G
      PROVE  Reads(U[3 * k - 1], a, k, a[k], 6)
    <2> DEFINE p == 3 * (k - 1)
               q == 3 * k - 2
               r == 3 * k - 1
    <2>1. /\ q \in 1..Len(text) /\ r \in 1..Len(text) /\ p = q - 1 /\ q = r - 1 /\ (k - 1) + 1 = k
          /\ a[k] \in Octet
        BY <1>0, <1>1
    <2>2. text[q] = a[k] \div 16 /\ text[r] = a[k] % 16
        BY <1>1
    <2>3. Reads(U[p], a, k, 0, 6)
        BY <1>6, <2>1
    <2> HIDE DEF p, q, r
    <2>4. Reads(U[r], a, k, a[k], 6)
        BY ONLY <1>4, <2>1, <2>2, <2>3, HexOctetRead, 6 \in Nat, k \in 1..6
    <2> QED BY <2>4 DEF r
<1>7. ASSUME NEW k \in 1..5, k - 1 \in G
      PROVE  k \in G
    <2> DEFINE q == 3 * k
    <2>1. k \in 1..6 /\ k # 6 /\ q \in 1..Len(text) /\ q - 1 = 3 * k - 1 /\ k \in 0..5
        BY <1>1
    <2>2. Reads(U[q - 1], a, k, a[k], 6)
        BY <1>6, <1>7, <2>1
    <2>3. text[q] = Colon
        BY <1>1, <2>1
    <2> HIDE DEF q
    <2>4. Reads(U[q], a, k + 1, 0, 6)
        BY ONLY <1>4, <2>1, <2>2, <2>3, OneSeparator, 6 \in Nat
    <2> QED BY <2>1, <2>4 DEF q
<1>8. 5 \in G
    <2>1. 0..5 \subseteq G
        <3> HIDE DEF G
        <3> QED BY <1>5, <1>7, BoundedInduction, 5 \in Nat
    <2> QED BY <2>1
<1>9. Reads(U[17], a, 6, a[6], 6)
    <2>1. 6 \in 1..6 /\ 6 - 1 = 5 /\ 3 * 6 - 1 = 17
        OBVIOUS
    <2> HIDE DEF G
    <2> QED BY <1>6, <1>8, <2>1
<1>10. U[17].t = a
    BY <1>9, ScanEnds, 6 \in 1..6, 6 \in Nat
<1>11. Scan(text, Colon, 16, zeros) = U[17].t
    BY <1>1, ScanIs DEF U
<1> QED BY <1>3, <1>10, <1>11 DEF text

LEMMA AddressesRead ==
    ASSUME AddressArgs \subseteq [1..4 -> Octet], MacArgs \subseteq [1..6 -> Octet], CallTyped
    PROVE  AddressTextRoundTrip
<1>1. Called("ip") => arg \in [1..4 -> Octet]
    BY DEF CallTyped, Called, arg
<1>2. Called("mac") => arg \in [1..6 -> Octet]
    BY DEF CallTyped, Called, arg
<1> QED BY <1>1, <1>2, AddressRead, MacRead DEF AddressTextRoundTrip

\* The texts ip_u2s and mac_u2s write into the database are read by ip_s2u and mac_s2u as the
\* address they were made from: every address of four octets, whatever zeros are in it, and
\* every hardware address of six.
THEOREM AddressesSurviveTheirTexts ==
    ASSUME AddressArgs \subseteq [1..4 -> Octet], MacArgs \subseteq [1..6 -> Octet]
    PROVE  CodecsSpec => []AddressTextRoundTrip
<1>1. CallTyped => AddressTextRoundTrip
    BY AddressesRead
<1> QED BY <1>1, Arguments, PTL
=============================================================================
