---------------------------- MODULE MessageProofs ----------------------------
(***************************************************************************)
(* Theorems about the messages that the daemon puts together, for contents  *)
(* of every length: IP headers, accounting messages, encoded texts and the  *)
(* lines of the log; and about the command line that it is started with.    *)
(***************************************************************************)
EXTENDS CodecsProofs

----------------------------------------------------------------------------
(* The checksum of a broadcast frame.                                       *)

\* z is x with y behind it.
IsJoin(z, x, y) ==
    /\ z \in Seq(Octet) /\ Len(z) = Len(x) + Len(y)
    /\ \A i \in 1..Len(x) : z[i] = x[i]
    /\ \A i \in 1..Len(y) : z[Len(x) + i] = y[i]

LEMMA JoinTwo ==
    ASSUME NEW x \in Seq(Octet), NEW y \in Seq(Octet)
    PROVE  IsJoin(x \o y, x, y)
<1> DEFINE z == x \o y
<1>1. /\ z \in Seq(Octet) /\ Len(z) = Len(x) + Len(y)
      /\ \A i \in 1..(Len(x) + Len(y)) : z[i] = IF i <= Len(x) THEN x[i] ELSE y[i - Len(x)]
    BY ConcatProperties
<1>2. Len(x) \in Nat /\ Len(y) \in Nat
    BY LenProperties
<1> HIDE DEF z
<1>3. ASSUME NEW i \in 1..Len(x)
      PROVE  z[i] = x[i]
    BY <1>1, <1>2
<1>4. ASSUME NEW i \in 1..Len(y)
      PROVE  z[Len(x) + i] = y[i]
    <2>1. Len(x) + i \in 1..(Len(x) + Len(y)) /\ ~(Len(x) + i <= Len(x)) /\ (Len(x) + i) - Len(x) = i
        BY <1>2
    <2> QED BY <1>1, <2>1
<1>5. IsJoin(z, x, y)
    BY <1>1, <1>3, <1>4 DEF IsJoin
<1> QED BY <1>5 DEF z

LEMMA TwoOctets ==
    ASSUME NEW x \in Octet, NEW y \in Octet
    PROVE  <<x, y>> \in Seq(Octet) /\ Len(<<x, y>>) = 2 /\ <<x, y>>[1] = x /\ <<x, y>>[2] = y
OBVIOUS

LEMMA HiLoTyped ==
    ASSUME NEW n \in Nat, n <= 65535
    PROVE  /\ HiLo(n) \in Seq(Octet) /\ Len(HiLo(n)) = 2 /\ HiLo(n)[1] \in Octet /\ HiLo(n)[2] \in Octet
           /\ 256 * HiLo(n)[1] + HiLo(n)[2] = n
<1> DEFINE x == n \div 256
           y == n % 256
<1>1. x \in Octet /\ y \in Octet
    BY DEF Octet
<1>2. 256 * x + y = n
    BY DividedBack
<1>3. HiLo(n) = <<x, y>>
    BY DEF HiLo
<1> HIDE DEF x, y
<1>4. /\ HiLo(n) \in Seq(Octet) /\ Len(HiLo(n)) = 2 /\ HiLo(n)[1] = x /\ HiLo(n)[2] = y
    BY <1>1, <1>3, TwoOctets
<1> QED BY <1>1, <1>2, <1>4

\* What is in front of the checksum: the length among others.
HeaderFront(len) == <<\h45, 16>> \o HiLo(len) \o <<0, 0>> \o HiLo(\h4000) \o <<16, 17>>
LEMMA OctetsAreSeq ==
    ASSUME NEW n \in Nat, NEW x \in [1..n -> Octet]
    PROVE  x \in Seq(Octet) /\ Len(x) = n
<1>1. x \in Seq(Octet)
    BY SeqDef
<1>2. Len(x) = n
    BY <1>1
<1> QED BY <1>1, <1>2

LEMMA FrontTyped ==
    ASSUME NEW len \in Nat, len <= 65535
    PROVE  /\ HeaderFront(len) \in Seq(Octet) /\ Len(HeaderFront(len)) = 10 /\ HeaderFront(len)[1] = 69
           /\ 256 * HeaderFront(len)[3] + HeaderFront(len)[4] = len
<1> DEFINE a == <<\h45, 16>>
           b == HiLo(len)
           c == <<0, 0>>
           d == HiLo(\h4000)
           e == <<16, 17>>
           u == a \o b
           v == u \o c
           w == v \o d
           z == w \o e
<1>0. 69 \in Octet /\ 16 \in Octet /\ 17 \in Octet /\ 0 \in Octet /\ \h4000 \in Nat /\ \h4000 <= 65535 /\ \h45 = 69
    BY DEF Octet
<1>1. a \in Seq(Octet) /\ Len(a) = 2 /\ a[1] = 69
    BY <1>0, TwoOctets
<1>2. b \in Seq(Octet) /\ Len(b) = 2 /\ 256 * b[1] + b[2] = len
    BY HiLoTyped
<1>3. c \in Seq(Octet) /\ Len(c) = 2
    BY <1>0, TwoOctets
<1>4. d \in Seq(Octet) /\ Len(d) = 2
    BY <1>0, HiLoTyped
<1>5. e \in Seq(Octet) /\ Len(e) = 2
    BY <1>0, TwoOctets
<1> HIDE DEF a, b, c, d, e
<1>6. IsJoin(u, a, b)
    BY <1>1, <1>2, JoinTwo
<1> HIDE DEF u
<1>7. IsJoin(v, u, c)
    <2>1. u \in Seq(Octet)
        BY <1>6 DEF IsJoin
    <2>2. c \in Seq(Octet)
        BY <1>3
    <2> QED BY ONLY <2>1, <2>2, JoinTwo
<1> HIDE DEF v
<1>8. IsJoin(w, v, d)
    <2>1. v \in Seq(Octet)
        BY <1>7 DEF IsJoin
    <2>2. d \in Seq(Octet)
        BY <1>4
    <2> QED BY ONLY <2>1, <2>2, JoinTwo
<1> HIDE DEF w
<1>9. IsJoin(z, w, e)
    <2>1. w \in Seq(Octet)
        BY <1>8 DEF IsJoin
    <2>2. e \in Seq(Octet)
        BY <1>5
    <2> QED BY ONLY <2>1, <2>2, JoinTwo
<1> HIDE DEF z
<1>10. Len(u) = 4 /\ u[1] = 69 /\ u[3] = b[1] /\ u[4] = b[2]
    BY <1>1, <1>2, <1>6 DEF IsJoin
<1>11. Len(v) = 6 /\ v[1] = 69 /\ v[3] = b[1] /\ v[4] = b[2]
    BY <1>3, <1>7, <1>10 DEF IsJoin
<1>12. Len(w) = 8 /\ w[1] = 69 /\ w[3] = b[1] /\ w[4] = b[2]
    BY <1>4, <1>8, <1>11 DEF IsJoin
<1>13. z \in Seq(Octet) /\ Len(z) = 10 /\ z[1] = 69 /\ z[3] = b[1] /\ z[4] = b[2]
    BY <1>5, <1>9, <1>12 DEF IsJoin
<1>14. HeaderFront(len) = z
    BY DEF HeaderFront, z, w, v, u, a, b, c, d, e
<1> QED BY <1>2, <1>13, <1>14

\* h is a header of these.
IsHeader(h, len, src, sum) ==
    /\ h \in Seq(Octet) /\ Len(h) = 20 /\ 256 * h[3] + h[4] = len
    /\ h[11] = sum[1] /\ h[12] = sum[2]
    /\ \A j \in 1..10 : h[j] = HeaderFront(len)[j]
    /\ \A j \in 1..4 : h[12 + j] = src[j] /\ h[16 + j] = 255

LEMMA HeaderIs ==
    ASSUME NEW len \in Nat, len <= 65535, NEW src \in [1..4 -> Octet], NEW sum \in Seq(Octet), Len(sum) = 2
    PROVE  IsHeader(IpHeader(len, src, sum), len, src, sum)
<1> DEFINE a == HeaderFront(len)
           f == <<255, 255, 255, 255>>
           u == a \o sum
           v == u \o src
           z == v \o f
<1>1. a \in Seq(Octet) /\ Len(a) = 10 /\ a[1] = 69 /\ 256 * a[3] + a[4] = len
    BY FrontTyped
<1>2. src \in Seq(Octet) /\ Len(src) = 4
    <2> DEFINE m == 4
    <2>1. m \in Nat /\ src \in [1..m -> Octet] /\ m = 4
        OBVIOUS
    <2> HIDE DEF m
    <2> QED BY ONLY <2>1, OctetsAreSeq
<1>3. f \in Seq(Octet) /\ Len(f) = 4 /\ \A j \in 1..4 : f[j] = 255
    BY DEF Octet
<1> HIDE DEF a, f
<1>4. IsJoin(u, a, sum)
    <2>1. a \in Seq(Octet)
        BY <1>1
    <2> QED BY <2>1, JoinTwo
<1> HIDE DEF u
<1>5. IsJoin(v, u, src)
    <2>1. u \in Seq(Octet)
        BY <1>4 DEF IsJoin
    <2>2. src \in Seq(Octet)
        BY <1>2
    <2> QED BY ONLY <2>1, <2>2, JoinTwo
<1> HIDE DEF v
<1>6. IsJoin(z, v, f)
    <2>1. v \in Seq(Octet)
        BY <1>5 DEF IsJoin
    <2>2. f \in Seq(Octet)
        BY <1>3
    <2> QED BY ONLY <2>1, <2>2, JoinTwo
<1> HIDE DEF z
<1>7. Len(u) = 12 /\ u[11] = sum[1] /\ u[12] = sum[2] /\ \A j \in 1..10 : u[j] = a[j]
    BY <1>1, <1>4 DEF IsJoin
<1>8. /\ Len(v) = 16 /\ v[11] = sum[1] /\ v[12] = sum[2] /\ \A j \in 1..10 : v[j] = a[j]
      /\ \A j \in 1..4 : v[12 + j] = src[j]
    BY <1>2, <1>5, <1>7 DEF IsJoin
<1>9. /\ z \in Seq(Octet) /\ Len(z) = 20 /\ z[11] = sum[1] /\ z[12] = sum[2] /\ \A j \in 1..10 : z[j] = a[j]
      /\ \A j \in 1..4 : z[12 + j] = src[j] /\ z[16 + j] = 255
    BY <1>3, <1>6, <1>8 DEF IsJoin
<1>10. IpHeader(len, src, sum) = z
    BY DEF IpHeader, HeaderFront, z, v, u, a, f
<1>11. z[1] = 69 /\ z[3] = a[3] /\ z[4] = a[4]
    BY <1>1, <1>9
<1>12. 256 * z[3] + z[4] = len
    BY <1>1, <1>11
<1>13. IsHeader(z, len, src, sum)
    BY <1>9, <1>12 DEF a, IsHeader
<1> QED BY <1>10, <1>13

\* The functions ip_checksum and ChecksumVerifies define.
PairOf(buf, i) == 256 * buf[2 * i - 1] + (IF 2 * i <= Len(buf) THEN buf[2 * i] ELSE 0)
Pairs(buf) == (Len(buf) + 1) \div 2
ChecksumUpto(buf, sum) ==
    CHOOSE F : F = [i \in 0..Pairs(buf) |-> IF i = 0 THEN sum ELSE Fold16(F[i - 1] + PairOf(buf, i))]
WordsUpto(h) ==
    CHOOSE F : F = [i \in 0..10 |-> IF i = 0 THEN 0 ELSE F[i - 1] + 256 * h[2 * i - 1] + h[2 * i]]

LEMMA ChecksumIs ==
    ASSUME NEW buf, NEW sum
    PROVE  ip_checksum(buf, sum) = ChecksumUpto(buf, sum)[Pairs(buf)]
BY Zenon DEF ip_checksum, ChecksumUpto, Pairs, PairOf

ChecksumStays(S, buf, sum) ==
    /\ sum \in S /\ Pairs(buf) \in Nat
    /\ \A i \in 1..Pairs(buf) : \A s \in S : Fold16(s + PairOf(buf, i)) \in S

LEMMA ChecksumRecursion ==
    ASSUME NEW S, NEW buf, NEW sum, ChecksumStays(S, buf, sum)
    PROVE  /\ ChecksumUpto(buf, sum) \in [0..Pairs(buf) -> S] /\ ChecksumUpto(buf, sum)[0] = sum
           /\ \A i \in 1..Pairs(buf) : ChecksumUpto(buf, sum)[i] = Fold16(ChecksumUpto(buf, sum)[i - 1] + PairOf(buf, i))
<1> DEFINE m == Pairs(buf)
           z == sum
           step == [i \in 1..m |-> [s \in S |-> Fold16(s + PairOf(buf, i))]]
           Solves(F) == F = [i \in 0..m |-> IF i = 0 THEN z ELSE Fold16(F[i - 1] + PairOf(buf, i))]
<1>0. m \in Nat
    BY DEF ChecksumStays
<1>1. z \in S /\ \A i \in 1..m : \A s \in S : Fold16(s + PairOf(buf, i)) \in S
    BY DEF ChecksumStays
<1> HIDE DEF m, z
<1>2. step \in [1..m -> [S -> S]]
    BY <1>1
<1>3. PICK f \in [0..m -> S] : f[0] = z /\ \A i \in 1..m : f[i] = step[i][f[i - 1]]
    <2>1. z \in S /\ m \in Nat
        BY <1>0, <1>1
    <2> HIDE DEF step
    <2>2. \E f \in [0..m -> S] : f[0] = z /\ \A i \in 1..m : f[i] = step[i][f[i - 1]]
        BY ONLY <1>2, <2>1, PrimitiveRecursion
    <2> QED BY <2>2, Zenon
<1>4. Solves(f)
    <2>1. ASSUME NEW i \in 0..m
          PROVE  f[i] = IF i = 0 THEN z ELSE Fold16(f[i - 1] + PairOf(buf, i))
        <3>1. CASE i = 0
            BY <1>3, <3>1
        <3>2. CASE i # 0
            <4>1. i \in 1..m /\ f[i - 1] \in S
                BY <1>0, <3>2
            <4>2. f[i] = step[i][f[i - 1]]
                BY <1>3, <4>1
            <4>3. step[i][f[i - 1]] = Fold16(f[i - 1] + PairOf(buf, i))
                <5> DEFINE y == f[i - 1]
                <5>1. y \in S
                    BY <4>1
                <5> HIDE DEF y
                <5>2. step[i][y] = Fold16(y + PairOf(buf, i))
                    BY <4>1, <5>1
                <5> QED BY <5>2 DEF y
            <4> QED BY <3>2, <4>2, <4>3
        <3> QED BY <3>1, <3>2
    <2>2. f = [i \in 0..m |-> f[i]]
        OBVIOUS
    <2> HIDE DEF step
    <2> QED BY <2>1, <2>2
<1> HIDE DEF step
<1> DEFINE T == ChecksumUpto(buf, sum)
<1>5. Solves(T)
    <2>1. T = CHOOSE F : Solves(F)
        BY Zenon DEF ChecksumUpto, m, z
    <2> HIDE DEF Solves
    <2> QED BY <1>4, <2>1
<1> HIDE DEF T
<1>6. DOMAIN T = 0..m /\ T = [i \in 0..m |-> T[i]]
    BY <1>5
<1>7. \A i \in 0..m : T[i] = IF i = 0 THEN z ELSE Fold16(T[i - 1] + PairOf(buf, i))
    BY <1>5
<1> HIDE DEF Solves
<1>8. T[0] = z /\ \A i \in 1..m : T[i] = Fold16(T[i - 1] + PairOf(buf, i))
    BY <1>0, <1>7
<1> DEFINE G == {i \in 0..m : T[i] \in S}
<1>9. 0 \in G
    BY <1>0, <1>1, <1>8
<1>10. ASSUME NEW i \in 1..m, i - 1 \in G
       PROVE  i \in G
    BY <1>1, <1>8, <1>10
<1>11. 0..m \subseteq G
    <2> HIDE DEF G
    <2> QED BY <1>0, <1>9, <1>10, BoundedInduction
<1>12. T \in [0..m -> S]
    BY <1>6, <1>11
<1> QED BY <1>8, <1>12 DEF T, m, z

\* A word is added to the receiver's sum.
AddWord(s, h, i) == s + 256 * h[2 * i - 1] + h[2 * i]
Ten == 10
WordsStay(S, h) == 0 \in S /\ Ten \in Nat /\ \A i \in 1..Ten : \A s \in S : AddWord(s, h, i) \in S

LEMMA WordsRecursion ==
    ASSUME NEW S, NEW h, WordsStay(S, h)
    PROVE  /\ WordsUpto(h) \in [0..Ten -> S] /\ WordsUpto(h)[0] = 0
           /\ \A i \in 1..Ten : WordsUpto(h)[i] = AddWord(WordsUpto(h)[i - 1], h, i)
<1> DEFINE m == Ten
           z == 0
           step == [i \in 1..m |-> [s \in S |-> AddWord(s, h, i)]]
           Solves(F) == F = [i \in 0..m |-> IF i = 0 THEN z ELSE AddWord(F[i - 1], h, i)]
<1>0. m \in Nat
    BY DEF WordsStay
<1>1. z \in S /\ \A i \in 1..m : \A s \in S : AddWord(s, h, i) \in S
    BY DEF WordsStay
<1> HIDE DEF m, z
<1>2. step \in [1..m -> [S -> S]]
    BY <1>1
<1>3. PICK f \in [0..m -> S] : f[0] = z /\ \A i \in 1..m : f[i] = step[i][f[i - 1]]
    <2>1. z \in S /\ m \in Nat
        BY <1>0, <1>1
    <2> HIDE DEF step
    <2>2. \E f \in [0..m -> S] : f[0] = z /\ \A i \in 1..m : f[i] = step[i][f[i - 1]]
        BY ONLY <1>2, <2>1, PrimitiveRecursion
    <2> QED BY <2>2, Zenon
<1>4. Solves(f)
    <2>1. ASSUME NEW i \in 0..m
          PROVE  f[i] = IF i = 0 THEN z ELSE AddWord(f[i - 1], h, i)
        <3>1. CASE i = 0
            BY <1>3, <3>1
        <3>2. CASE i # 0
            <4>1. i \in 1..m /\ f[i - 1] \in S
                BY <1>0, <3>2
            <4>2. f[i] = step[i][f[i - 1]]
                BY <1>3, <4>1
            <4>3. step[i][f[i - 1]] = AddWord(f[i - 1], h, i)
                <5> DEFINE y == f[i - 1]
                <5>1. y \in S
                    BY <4>1
                <5> HIDE DEF y
                <5>2. step[i][y] = AddWord(y, h, i)
                    BY <4>1, <5>1
                <5> QED BY <5>2 DEF y
            <4> QED BY <3>2, <4>2, <4>3
        <3> QED BY <3>1, <3>2
    <2>2. f = [i \in 0..m |-> f[i]]
        OBVIOUS
    <2> HIDE DEF step
    <2> QED BY <2>1, <2>2
<1> HIDE DEF step
<1> DEFINE T == WordsUpto(h)
<1>5. Solves(T)
    <2>1. T = CHOOSE F : Solves(F)
        BY Zenon DEF WordsUpto, AddWord, Ten, m, z
    <2> HIDE DEF Solves
    <2> QED BY <1>4, <2>1
<1> HIDE DEF T
<1>6. DOMAIN T = 0..m /\ T = [i \in 0..m |-> T[i]]
    BY <1>5
<1>7. \A i \in 0..m : T[i] = IF i = 0 THEN z ELSE AddWord(T[i - 1], h, i)
    BY <1>5
<1> HIDE DEF Solves
<1>8. T[0] = z /\ \A i \in 1..m : T[i] = AddWord(T[i - 1], h, i)
    BY <1>0, <1>7
<1> DEFINE G == {i \in 0..m : T[i] \in S}
<1>9. 0 \in G
    BY <1>0, <1>1, <1>8
<1>10. ASSUME NEW i \in 1..m, i - 1 \in G
       PROVE  i \in G
    BY <1>1, <1>8, <1>10
<1>11. 0..m \subseteq G
    <2> HIDE DEF G
    <2> QED BY <1>0, <1>9, <1>10, BoundedInduction
<1>12. T \in [0..m -> S]
    BY <1>6, <1>11
<1> QED BY <1>8, <1>12 DEF T, m, z
WordAt(h, i) == 256 * h[2 * i - 1] + h[2 * i]

LEMMA TopNat == AllOnes \in Nat
BY DEF AllOnes

LEMMA TopIs == AllOnes \in Nat /\ AllOnes = 65535
BY DEF AllOnes

LEMMA TopMultiple ==
    ASSUME NEW k \in Nat, NEW x, x = AllOnes * k + AllOnes
    PROVE  x # 0 /\ x % AllOnes = 0
<1> DEFINE m == k + 1
<1>1. m \in Nat /\ m >= 1 /\ x = 65535 * m
    BY DEF AllOnes
<1> HIDE DEF m
<1>2. x # 0
    BY <1>1
<1>3. x % 65535 = 0
    BY <1>1
<1> QED BY <1>2, <1>3 DEF AllOnes

LEMMA FoldOf ==
    ASSUME NEW n
    PROVE  Fold16(n) = IF n > AllOnes THEN n - AllOnes ELSE n
BY DEF Fold16, AllOnes

LEMMA FoldIs ==
    ASSUME NEW s \in 0..AllOnes, NEW w \in 0..AllOnes
    PROVE  /\ Fold16(s + w) \in 0..AllOnes
           /\ Fold16(s + w) = s + w \/ Fold16(s + w) = s + w - AllOnes
<1> DEFINE f == Fold16(s + w)
<1>0. AllOnes \in Nat
    BY ONLY TopNat
<1>1. f = IF s + w > AllOnes THEN (s + w) - AllOnes ELSE s + w
    <2> DEFINE m == s + w
    <2> HIDE DEF m
    <2>1. Fold16(m) = IF m > AllOnes THEN m - AllOnes ELSE m
        BY FoldOf, Zenon
    <2> QED BY <2>1 DEF m
<1> HIDE DEF f
<1>2. s \in Int /\ w \in Int /\ 0 <= s /\ s <= AllOnes /\ 0 <= w /\ w <= AllOnes
    BY <1>0
<1>3. CASE s + w > AllOnes
    <2>1. f = s + w - AllOnes
        BY <1>0, <1>1, <1>2, <1>3
    <2>2. f \in Int /\ 0 <= f /\ f <= AllOnes
        BY <1>0, <1>2, <1>3, <2>1
    <2>3. f \in 0..AllOnes
        BY <1>0, <2>2
    <2> QED BY <2>1, <2>3 DEF f
<1>4. CASE ~(s + w > AllOnes)
    <2>1. f = s + w
        BY <1>1, <1>4
    <2>2. f \in Int /\ 0 <= f /\ f <= AllOnes
        BY <1>0, <1>2, <1>4, <2>1
    <2>3. f \in 0..AllOnes
        BY <1>0, <2>2
    <2> QED BY <2>1, <2>3 DEF f
<1> QED BY <1>3, <1>4

LEMMA WordTyped ==
    ASSUME NEW h \in Seq(Octet), Len(h) = 20, NEW i \in 1..10
    PROVE  WordAt(h, i) \in 0..AllOnes /\ PairOf(h, i) = WordAt(h, i) /\ h[2 * i - 1] \in Octet /\ h[2 * i] \in Octet
<1> DEFINE x == h[2 * i - 1]
           y == h[2 * i]
<1>1. 2 * i - 1 \in 1..Len(h) /\ 2 * i \in 1..Len(h) /\ 2 * i <= Len(h)
    OBVIOUS
<1>2. x \in Octet /\ y \in Octet
    BY <1>1, ElementOfSeq
<1>3. WordAt(h, i) = 256 * x + y
    BY DEF WordAt
<1>4. PairOf(h, i) = 256 * x + y
    BY <1>1 DEF PairOf
<1> HIDE DEF x, y
<1>5. 256 * x + y \in 0..AllOnes
    <2>1. x \in Int /\ y \in Int /\ 0 <= x /\ x <= 255 /\ 0 <= y /\ y <= 255
        BY <1>2 DEF Octet
    <2> DEFINE w == 256 * x + y
    <2>2. w \in Int /\ 0 <= w /\ w <= 65535
        BY <2>1
    <2> HIDE DEF w
    <2>3. AllOnes \in Int /\ w <= AllOnes
        BY <2>2, TopIs
    <2>4. w \in 0..AllOnes
        BY <2>2, <2>3
    <2> QED BY <2>4 DEF w
<1>6. WordAt(h, i) \in 0..AllOnes /\ PairOf(h, i) = WordAt(h, i)
    BY <1>3, <1>4, <1>5
<1> QED BY <1>2, <1>6 DEF x, y

LEMMA ChecksumDefined ==
    ASSUME NEW h \in Seq(Octet), Len(h) = 20
    PROVE  LET c == ChecksumUpto(h, 0)
           IN /\ c \in [0..10 -> 0..AllOnes] /\ c[0] = 0 /\ ip_checksum(h, 0) = c[10]
              /\ \A i \in 1..10 : c[i] = Fold16(c[i - 1] + WordAt(h, i))
<1> DEFINE c == ChecksumUpto(h, 0)
           S == 0..AllOnes
           z == 0
<1>1. Pairs(h) = 10
    BY DEF Pairs
<1>2. z \in S /\ Pairs(h) \in Nat
    BY <1>1, TopIs
<1>3. ASSUME NEW i \in 1..Pairs(h), NEW s \in S
      PROVE  Fold16(s + PairOf(h, i)) \in S
    <2>1. i \in 1..10
        BY <1>1
    <2>2. WordAt(h, i) \in 0..AllOnes /\ PairOf(h, i) = WordAt(h, i)
        BY <2>1, WordTyped
    <2> DEFINE w == WordAt(h, i)
    <2> HIDE DEF w
    <2>3. w \in 0..AllOnes /\ PairOf(h, i) = w
        BY <2>2 DEF w
    <2>4. Fold16(s + w) \in S
        BY <2>3, FoldIs
    <2> QED BY <2>3, <2>4
<1> HIDE DEF S, z
<1>4. ChecksumStays(S, h, z)
    BY <1>2, <1>3 DEF ChecksumStays
<1>5. /\ ChecksumUpto(h, z) \in [0..Pairs(h) -> S] /\ ChecksumUpto(h, z)[0] = z
      /\ \A i \in 1..Pairs(h) : ChecksumUpto(h, z)[i] = Fold16(ChecksumUpto(h, z)[i - 1] + PairOf(h, i))
    BY ONLY <1>4, ChecksumRecursion
<1>6. /\ c \in [0..10 -> S] /\ c[0] = 0
      /\ \A i \in 1..10 : c[i] = Fold16(c[i - 1] + PairOf(h, i))
    BY <1>1, <1>5 DEF z
<1> HIDE DEF c
<1>7. ip_checksum(h, 0) = c[10]
    BY <1>1, ChecksumIs DEF c
<1>8. ASSUME NEW i \in 1..10
      PROVE  c[i] = Fold16(c[i - 1] + WordAt(h, i))
    <2>1. PairOf(h, i) = WordAt(h, i)
        BY WordTyped
    <2>2. c[i] = Fold16(c[i - 1] + PairOf(h, i))
        BY <1>6
    <2> QED BY <2>1, <2>2
<1> QED BY <1>6, <1>7, <1>8 DEF S, c

LEMMA WordsDefined ==
    ASSUME NEW h \in Seq(Octet), Len(h) = 20
    PROVE  LET v == WordsUpto(h)
           IN /\ v \in [0..10 -> Int] /\ v[0] = 0
              /\ \A i \in 1..10 : v[i] = v[i - 1] + WordAt(h, i)
<1> DEFINE v == WordsUpto(h)
           S == Int
<1>1. 0 \in S /\ Ten \in Nat /\ Ten = 10
    BY DEF Ten
<1>2. ASSUME NEW i \in 1..10, NEW s \in S
      PROVE  AddWord(s, h, i) \in S /\ AddWord(s, h, i) = s + WordAt(h, i)
    <2> DEFINE x == h[2 * i - 1]
               y == h[2 * i]
    <2>1. x \in Octet /\ y \in Octet
        BY WordTyped
    <2>2. AddWord(s, h, i) = s + 256 * x + y /\ WordAt(h, i) = 256 * x + y
        BY DEF AddWord, WordAt
    <2> HIDE DEF x, y
    <2>3. x \in Int /\ y \in Int
        BY <2>1 DEF Octet
    <2> QED BY <2>2, <2>3
<1> HIDE DEF S
<1>3. WordsStay(S, h)
    BY <1>1, <1>2 DEF WordsStay
<1>4. /\ v \in [0..Ten -> S] /\ v[0] = 0
      /\ \A i \in 1..Ten : v[i] = AddWord(v[i - 1], h, i)
    BY ONLY <1>3, WordsRecursion
<1> HIDE DEF v
<1>5. ASSUME NEW i \in 1..10
      PROVE  v[i] = v[i - 1] + WordAt(h, i)
    <2>1. v[i - 1] \in S /\ v[i] = AddWord(v[i - 1], h, i)
        BY <1>1, <1>4
    <2> QED BY <1>2, <2>1
<1> QED BY <1>1, <1>4, <1>5 DEF S, v

\* The words of a header whose checksum is what is missing to all ones.
LEMMA WordsAddUp ==
    ASSUME NEW h \in Seq(Octet), Len(h) = 20, NEW z \in Seq(Octet), Len(z) = 20,
           \A i \in 1..10 : i # 6 => WordAt(h, i) = WordAt(z, i), WordAt(z, 6) = 0,
           WordAt(h, 6) = AllOnes - ip_checksum(z, 0)
    PROVE  \E k \in Nat : WordsUpto(h)[10] = AllOnes * k + AllOnes
<1> DEFINE c == ChecksumUpto(z, 0)
           v == WordsUpto(h)
           e == WordAt(h, 6)
           Late(i) == IF i >= 6 THEN e ELSE 0
           Q(i, k) == v[i] = c[i] + AllOnes * k + Late(i)
           G == {i \in 0..10 : \E k \in Nat : Q(i, k)}
<1>1. /\ c \in [0..10 -> 0..AllOnes] /\ c[0] = 0 /\ ip_checksum(z, 0) = c[10]
      /\ \A i \in 1..10 : c[i] = Fold16(c[i - 1] + WordAt(z, i))
    BY ChecksumDefined
<1>2. /\ v \in [0..10 -> Int] /\ v[0] = 0
      /\ \A i \in 1..10 : v[i] = v[i - 1] + WordAt(h, i)
    BY WordsDefined
<1>3. e \in 0..AllOnes /\ AllOnes \in Nat
    <2>1. WordAt(h, 6) \in 0..AllOnes
        BY WordTyped, 6 \in 1..10
    <2>2. AllOnes \in Nat
        BY TopNat
    <2> QED BY <2>1, <2>2
<1> HIDE DEF c, v, e
<1>4. 0 \in G
    <2>1. Q(0, 0)
        BY <1>1, <1>2, <1>3
    <2>2. 0 \in 0..10 /\ 0 \in Nat
        OBVIOUS
    <2> HIDE DEF Q
    <2> QED BY <2>1, <2>2
<1>5. ASSUME NEW i \in 1..10, i - 1 \in G
      PROVE  i \in G
    <2>1. PICK k \in Nat : Q(i - 1, k)
        BY <1>5
    <2> DEFINE s == c[i - 1]
               w == WordAt(z, i)
               p == v[i - 1]
               d == WordAt(h, i)
    <2>0. i - 1 \in 0..10
        OBVIOUS
    <2>2. s \in 0..AllOnes /\ p \in Int
        <3>1. c \in [0..10 -> 0..AllOnes] /\ v \in [0..10 -> Int]
            BY <1>1, <1>2
        <3> DEFINE j == i - 1
                   S == 0..AllOnes
        <3>2. j \in 0..10 /\ c \in [0..10 -> S]
            BY <2>0, <3>1
        <3> HIDE DEF j, S
        <3>3. c[j] \in S /\ v[j] \in Int
            BY ONLY <3>1, <3>2
        <3> QED BY <3>3 DEF j, S
    <2>3. w \in 0..AllOnes /\ d \in 0..AllOnes
        BY WordTyped
    <2>4. c[i] = Fold16(s + w) /\ v[i] = p + d
        BY <1>1, <1>2
    <2>5. p = s + AllOnes * k + Late(i - 1)
        BY <2>1
    <2>6. i # 6 => d = w
        OBVIOUS
    <2>7. i = 6 => w = 0 /\ d = e
        BY DEF e
    <2> HIDE DEF s, w, p, d
    <2>8. c[i] \in 0..AllOnes /\ (c[i] = s + w \/ c[i] = s + w - AllOnes)
        BY <2>2, <2>3, <2>4, FoldIs
    <2>9. Late(i - 1) + d = w + Late(i) /\ Late(i - 1) \in Int /\ Late(i) \in Int
        <3>1. CASE i = 6
            BY <1>3, <2>3, <2>7, <3>1
        <3>2. CASE i # 6
            BY <1>3, <2>3, <2>6, <3>2
        <3> QED BY <3>1, <3>2
    <2> DEFINE m == Late(i - 1)
               n == Late(i)
    <2>10. m \in Int /\ n \in Int /\ m + d = w + n /\ p = s + AllOnes * k + m
        BY <2>5, <2>9
    <2> HIDE DEF m, n
    <2>11. v[i] = (s + w) + AllOnes * k + n
        <3> DEFINE t == AllOnes * k
        <3>1. t \in Int
            BY <1>3
        <3>2. p = s + t + m
            BY <2>10
        <3>4. v[i] = p + d /\ s \in Int /\ w \in Int /\ d \in Int /\ m \in Int /\ n \in Int /\ m + d = w + n
            BY <2>2, <2>3, <2>4, <2>10
        <3> DEFINE q == v[i]
        <3> HIDE DEF t, q
        <3>5. q = (s + w) + t + n
            BY ONLY <3>1, <3>2, <3>4 DEF q
        <3>3. v[i] = (s + w) + t + n
            BY <3>5 DEF q
        <3> QED BY <3>3 DEF t
    <2>12. CASE c[i] = s + w
        <3>1. v[i] = c[i] + AllOnes * k + n
            BY <2>11, <2>12
        <3>2. Q(i, k)
            BY <3>1 DEF n
        <3>3. i \in 0..10
            OBVIOUS
        <3> HIDE DEF Q
        <3> QED BY <3>2, <3>3
    <2>13. CASE c[i] = s + w - AllOnes
        <3> DEFINE t == AllOnes * k
                   b == k + 1
        <3>1. t \in Int
            BY <1>3
        <3>2. AllOnes * b = t + AllOnes
            BY TopNat
        <3>3. v[i] = (s + w) + t + n
            BY <2>11
        <3> HIDE DEF t
        <3>4. v[i] = c[i] + (t + AllOnes) + n
            BY <1>3, <2>2, <2>3, <2>10, <2>13, <3>1, <3>3
        <3>5. Q(i, b)
            BY <3>2, <3>4 DEF n
        <3>6. i \in 0..10 /\ b \in Nat
            OBVIOUS
        <3> HIDE DEF Q, b
        <3> QED BY <3>5, <3>6
    <2> QED BY <2>8, <2>12, <2>13
<1>6. 10 \in G
    <2>1. 0..10 \subseteq G
        <3> HIDE DEF G
        <3> QED BY <1>4, <1>5, BoundedInduction, 10 \in Nat
    <2>2. 10 \in 0..10
        OBVIOUS
    <2> HIDE DEF G
    <2> QED BY <2>1, <2>2
<1>7. PICK k \in Nat : Q(10, k)
    BY <1>6
<1>8. c[10] \in 0..AllOnes /\ e = AllOnes - c[10]
    BY <1>1 DEF e
<1>9. v[10] = c[10] + AllOnes * k + e
    BY <1>7
<1> DEFINE t == AllOnes * k
           r == c[10]
<1>10. t \in Int /\ v[10] = r + t + e /\ r \in Int /\ e = AllOnes - r
    BY <1>3, <1>8, <1>9
<1> HIDE DEF t, r
<1>11. v[10] = t + AllOnes
    BY <1>3, <1>10
<1> QED BY <1>11 DEF v, t

LEMMA EthernetTyped ==
    ASSUME NEW mac \in [1..6 -> Octet]
    PROVE  build_ethernet_header(mac) \in Seq(Octet) /\ Len(build_ethernet_header(mac)) = 14
<1> DEFINE a == [i \in 1..6 |-> 255]
           b == HiLo(\h0800)
           u == a \o mac
           z == u \o b
<1>1. a \in Seq(Octet) /\ Len(a) = 6 /\ mac \in Seq(Octet) /\ Len(mac) = 6
    <2> DEFINE m == 6
    <2>1. m \in Nat /\ a \in [1..m -> Octet] /\ mac \in [1..m -> Octet] /\ m = 6
        BY DEF Octet
    <2> HIDE DEF m, a
    <2> QED BY ONLY <2>1, OctetsAreSeq
<1>2. b \in Seq(Octet) /\ Len(b) = 2
    BY HiLoTyped, \h0800 \in Nat, \h0800 <= 65535
<1>3. build_ethernet_header(mac) = z
    BY DEF build_ethernet_header
<1> HIDE DEF a, b
<1>4. IsJoin(u, a, mac)
    BY <1>1, JoinTwo
<1> HIDE DEF u
<1>5. u \in Seq(Octet) /\ Len(u) = 12
    BY <1>1, <1>4 DEF IsJoin
<1>6. IsJoin(z, u, b)
    BY <1>2, <1>5, JoinTwo
<1> HIDE DEF z
<1>7. z \in Seq(Octet) /\ Len(z) = 14
    BY <1>2, <1>5, <1>6 DEF IsJoin
<1> QED BY <1>3, <1>7

LEMMA UdpTyped ==
    ASSUME NEW n \in Nat, 8 + n <= 65535
    PROVE  UdpHeader(n) \in Seq(Octet) /\ Len(UdpHeader(n)) = 8
<1> DEFINE a == HiLo(67)
           b == HiLo(68)
           c == HiLo(8 + n)
           d == <<0, 0>>
           u == a \o b
           v == u \o c
           z == v \o d
<1>1. a \in Seq(Octet) /\ Len(a) = 2
    BY HiLoTyped, 67 \in Nat, 67 <= 65535
<1>2. b \in Seq(Octet) /\ Len(b) = 2
    BY HiLoTyped, 68 \in Nat, 68 <= 65535
<1>3. c \in Seq(Octet) /\ Len(c) = 2
    BY HiLoTyped, 8 + n \in Nat
<1>4. d \in Seq(Octet) /\ Len(d) = 2
    <2>1. 0 \in Octet
        BY DEF Octet
    <2> QED BY <2>1, TwoOctets
<1>5. UdpHeader(n) = z
    BY DEF UdpHeader
<1> HIDE DEF a, b, c, d
<1>6. IsJoin(u, a, b)
    BY <1>1, <1>2, JoinTwo
<1> HIDE DEF u
<1>7. u \in Seq(Octet) /\ Len(u) = 4
    BY <1>1, <1>2, <1>6 DEF IsJoin
<1>8. IsJoin(v, u, c)
    BY <1>3, <1>7, JoinTwo
<1> HIDE DEF v
<1>9. v \in Seq(Octet) /\ Len(v) = 6
    BY <1>3, <1>7, <1>8 DEF IsJoin
<1>10. IsJoin(z, v, d)
    BY <1>4, <1>9, JoinTwo
<1> HIDE DEF z
<1>11. z \in Seq(Octet) /\ Len(z) = 8
    BY <1>4, <1>9, <1>10 DEF IsJoin
<1> QED BY <1>5, <1>11

\* Where the header and the data are in a frame.
\* A frame with this IP header and these data.
Framed(frame, h, data) ==
    /\ frame \in Seq(Octet) /\ Len(frame) = 42 + Len(data)
    /\ \A j \in 1..20 : frame[14 + j] = h[j]
    /\ \A j \in 1..Len(data) : frame[42 + j] = data[j]

LEMMA FrameParts ==
    ASSUME NEW e \in Seq(Octet), Len(e) = 14, NEW h \in Seq(Octet), Len(h) = 20,
           NEW u \in Seq(Octet), Len(u) = 8, NEW data \in Seq(Octet)
    PROVE  Framed(e \o h \o u \o data, h, data)
<1> DEFINE x == e \o h
           y == x \o u
           z == y \o data
<1>1. IsJoin(x, e, h)
    BY JoinTwo
<1> HIDE DEF x
<1>2. x \in Seq(Octet) /\ Len(x) = 34
    BY <1>1 DEF IsJoin
<1>3. \A j \in 1..20 : x[14 + j] = h[j]
    BY <1>1 DEF IsJoin
<1>4. IsJoin(y, x, u)
    BY <1>2, JoinTwo
<1> HIDE DEF y
<1>5. y \in Seq(Octet) /\ Len(y) = 42
    BY <1>2, <1>4 DEF IsJoin
<1>6. \A j \in 1..34 : y[j] = x[j]
    BY <1>2, <1>4 DEF IsJoin
<1>7. IsJoin(z, y, data)
    BY <1>5, JoinTwo
<1> HIDE DEF z
<1>8. z \in Seq(Octet) /\ Len(z) = 42 + Len(data)
    BY <1>5, <1>7 DEF IsJoin
<1>9. (\A j \in 1..42 : z[j] = y[j]) /\ \A j \in 1..Len(data) : z[42 + j] = data[j]
    BY <1>5, <1>7 DEF IsJoin
<1>10. ASSUME NEW j \in 1..20
       PROVE  z[14 + j] = h[j]
    <2>1. 14 + j \in 1..34 /\ 14 + j \in 1..42
        OBVIOUS
    <2> QED BY <1>3, <1>6, <1>9, <2>1
<1>11. Framed(z, h, data)
    BY <1>8, <1>9, <1>10 DEF Framed
<1> QED BY <1>11 DEF z, y, x

\* What has room behind the IP and the UDP header in a packet of sixteen bits' length.
Fits(d) == 28 + Len(d) <= 65535

Packets == [hw : [1..6 -> Octet], my_ip : [1..4 -> Octet], data : {d \in Seq(Octet) : Fits(d)}]

LEMMA FrameOf ==
    ASSUME NEW hw, NEW src, NEW data
    PROVE  send_broadcast_packet(hw, src, data) =
             build_ethernet_header(hw)
               \o IpHeader(20 + 8 + Len(data), src,
                           ip_wrapsum(ip_checksum(IpHeader(20 + 8 + Len(data), src, <<0, 0>>), 0)))
               \o UdpHeader(Len(data)) \o data
BY Zenon DEF send_broadcast_packet

LEMMA FrameVerifies ==
    ASSUME NEW hw \in [1..6 -> Octet], NEW src \in [1..4 -> Octet], NEW data \in Seq(Octet), Fits(data)
    PROVE  LET frame == send_broadcast_packet(hw, src, data)
               header == SubSeq(frame, 15, 34)
           IN /\ \E k \in Nat : WordsUpto(header)[10] = AllOnes * k + AllOnes
              /\ 256 * header[3] + header[4] = Len(frame) - 14
              /\ SubSeq(frame, 43, Len(frame)) = data
<1> DEFINE len == 20 + 8 + Len(data)
           zero == <<0, 0>>
           z == IpHeader(len, src, zero)
           check == ip_checksum(z, 0)
           sum == ip_wrapsum(check)
           h == IpHeader(len, src, sum)
           e == build_ethernet_header(hw)
           u == UdpHeader(Len(data))
           frame == e \o h \o u \o data
           header == SubSeq(frame, 15, 34)
<1>0. Len(data) \in Nat
    BY LenProperties
<1>1. len \in Nat /\ len <= 65535 /\ len = 28 + Len(data) /\ 8 + Len(data) <= 65535
    BY <1>0 DEF Fits
<1>2. send_broadcast_packet(hw, src, data) = frame
    BY ONLY FrameOf, Zenon
<1>3. zero \in Seq(Octet) /\ Len(zero) = 2 /\ zero[1] = 0 /\ zero[2] = 0
    <2>1. 0 \in Octet
        BY DEF Octet
    <2> QED BY <2>1, TwoOctets
<1> HIDE DEF len, zero
<1>4. /\ z \in Seq(Octet) /\ Len(z) = 20
      /\ z[11] = zero[1] /\ z[12] = zero[2]
      /\ \A j \in 1..10 : z[j] = HeaderFront(len)[j]
      /\ \A j \in 1..4 : z[12 + j] = src[j] /\ z[16 + j] = 255
    <2>1. IsHeader(z, len, src, zero)
        BY <1>1, <1>3, HeaderIs
    <2> HIDE DEF z
    <2> QED BY <2>1 DEF IsHeader
<1> HIDE DEF z
<1>5. check \in 0..AllOnes
    <2> DEFINE c == ChecksumUpto(z, 0)
               S == 0..AllOnes
    <2>1. z \in Seq(Octet) /\ Len(z) = 20
        BY <1>4
    <2>2. c \in [0..10 -> S] /\ check = c[10]
        BY <2>1, ChecksumDefined
    <2> HIDE DEF c, S, check
    <2>3. check \in S
        BY <2>2
    <2> QED BY <2>3 DEF S
<1> HIDE DEF check
<1> DEFINE rest == AllOnes - check
<1>6. rest \in Nat /\ rest <= 65535 /\ sum = HiLo(rest)
    <2>0. check \in Int /\ 0 <= check /\ check <= AllOnes
        BY ONLY <1>5
    <2>1. rest \in Nat /\ rest <= 65535
        BY ONLY <2>0, TopIs DEF rest
    <2>2. sum = HiLo(rest)
        BY TopIs DEF ip_wrapsum
    <2> QED BY <2>1, <2>2
<1> HIDE DEF rest, sum
<1>7. sum \in Seq(Octet) /\ Len(sum) = 2 /\ 256 * sum[1] + sum[2] = rest
    BY ONLY <1>6, HiLoTyped
<1>8. /\ h \in Seq(Octet) /\ Len(h) = 20 /\ 256 * h[3] + h[4] = len
      /\ h[11] = sum[1] /\ h[12] = sum[2]
      /\ \A j \in 1..10 : h[j] = HeaderFront(len)[j]
      /\ \A j \in 1..4 : h[12 + j] = src[j] /\ h[16 + j] = 255
    <2>1. IsHeader(h, len, src, sum)
        BY <1>1, <1>7, HeaderIs
    <2> HIDE DEF h
    <2> QED BY <2>1 DEF IsHeader
<1> HIDE DEF h
<1>9. e \in Seq(Octet) /\ Len(e) = 14
    BY EthernetTyped
<1>10. u \in Seq(Octet) /\ Len(u) = 8
    BY <1>0, <1>1, UdpTyped
<1> HIDE DEF e, u
<1>11. /\ frame \in Seq(Octet) /\ Len(frame) = 42 + Len(data)
       /\ \A j \in 1..20 : frame[14 + j] = h[j]
       /\ \A j \in 1..Len(data) : frame[42 + j] = data[j]
    <2>1. h \in Seq(Octet) /\ Len(h) = 20
        BY <1>8
    <2>2. Framed(frame, h, data)
        BY ONLY <1>9, <1>10, <2>1, FrameParts, data \in Seq(Octet)
    <2> HIDE DEF frame
    <2> QED BY ONLY <2>2 DEF Framed
<1> HIDE DEF frame
<1>12. header = h
    <2>1. frame \in Seq(Octet) /\ Len(frame) = 42 + Len(data) /\ h \in Seq(Octet) /\ Len(h) = 20
        BY <1>8, <1>11
    <2>2. \A j \in 15..34 : frame[j] \in Octet
        BY <1>0, <2>1, ElementOfSeq
    <2>3. header \in Seq(Octet) /\ Len(header) = 20 /\ \A j \in 1..20 : header[j] = frame[14 + j]
        BY <1>0, <2>1, <2>2, SubSeqProperties
    <2> HIDE DEF header
    <2>4. ASSUME NEW j \in 1..20
          PROVE  header[j] = h[j]
        <3>1. header[j] = frame[14 + j]
            BY ONLY <2>3, j \in 1..20
        <3>2. frame[14 + j] = h[j]
            BY ONLY <1>11, j \in 1..20
        <3> QED BY ONLY <3>1, <3>2
    <2>5. header \in Seq(Octet) /\ Len(header) = Len(h) /\ \A j \in 1..Len(header) : header[j] = h[j]
        BY <2>1, <2>3, <2>4
    <2> QED BY ONLY <2>1, <2>5, SeqEqual
<1> HIDE DEF header
<1>13. \E k \in Nat : WordsUpto(h)[10] = AllOnes * k + AllOnes
    <2>1. ASSUME NEW i \in 1..10, i # 6
          PROVE  WordAt(h, i) = WordAt(z, i)
        <3>1. CASE i <= 5
            <4>1. 2 * i - 1 \in 1..10 /\ 2 * i \in 1..10
                BY <3>1
            <4>2. \A j \in 1..10 : h[j] = z[j]
                <5> DEFINE g == HeaderFront(len)
                           S == 1..10
                <5> HIDE DEF g, S
                <5>1. \A j \in S : z[j] = g[j]
                    BY ONLY <1>4 DEF g, S
                <5>2. \A j \in S : h[j] = g[j]
                    BY ONLY <1>8 DEF g, S
                <5>3. \A j \in S : h[j] = z[j]
                    BY ONLY <5>1, <5>2, Zenon
                <5> QED BY ONLY <5>3 DEF S
            <4>3. h[2 * i - 1] = z[2 * i - 1] /\ h[2 * i] = z[2 * i]
                BY ONLY <4>1, <4>2
            <4> QED BY <4>3 DEF WordAt
        <3>2. CASE i \in {7, 8}
            <4>1. /\ 2 * i - 1 = 12 + (2 * i - 13) /\ 2 * i - 13 \in 1..4
                  /\ 2 * i = 12 + (2 * i - 12) /\ 2 * i - 12 \in 1..4
                BY <3>2
            <4>2. h[2 * i - 1] = z[2 * i - 1] /\ h[2 * i] = z[2 * i]
                BY ONLY <1>4, <1>8, <4>1
            <4> QED BY <4>2 DEF WordAt
        <3>3. CASE i \in {9, 10}
            <4>1. /\ 2 * i - 1 = 16 + (2 * i - 17) /\ 2 * i - 17 \in 1..4
                  /\ 2 * i = 16 + (2 * i - 16) /\ 2 * i - 16 \in 1..4
                BY <3>3
            <4>2. h[2 * i - 1] = z[2 * i - 1] /\ h[2 * i] = z[2 * i]
                BY ONLY <1>4, <1>8, <4>1
            <4> QED BY <4>2 DEF WordAt
        <3> QED BY <2>1, <3>1, <3>2, <3>3
    <2>2. WordAt(z, 6) = 0
        BY <1>3, <1>4 DEF WordAt
    <2>3. WordAt(h, 6) = AllOnes - ip_checksum(z, 0)
        <3>1. WordAt(h, 6) = rest
            BY <1>7, <1>8 DEF WordAt
        <3> QED BY <3>1 DEF rest, check
    <2>4. z \in Seq(Octet) /\ Len(z) = 20 /\ h \in Seq(Octet) /\ Len(h) = 20
        BY <1>4, <1>8
    <2> QED BY ONLY <2>1, <2>2, <2>3, <2>4, WordsAddUp
<1>14. 256 * header[3] + header[4] = Len(frame) - 14
    BY <1>0, <1>1, <1>8, <1>11, <1>12
<1>15. SubSeq(frame, 43, Len(frame)) = data
    <2> DEFINE w == SubSeq(frame, 43, Len(frame))
    <2>1. frame \in Seq(Octet) /\ Len(frame) = 42 + Len(data)
        BY <1>11
    <2>2. \A j \in 43..Len(frame) : frame[j] \in Octet
        BY <1>0, <2>1, ElementOfSeq
    <2>3. w \in Seq(Octet) /\ Len(w) = Len(data) /\ \A j \in 1..Len(data) : w[j] = frame[42 + j]
        BY <1>0, <2>1, <2>2, SubSeqProperties
    <2>4. \A j \in 1..Len(data) : w[j] = data[j]
        BY <1>11, <2>3
    <2> HIDE DEF w
    <2>5. w = data
        BY <2>3, <2>4, SeqEqual
    <2> QED BY <2>5 DEF w
<1>16. \E k \in Nat : WordsUpto(header)[10] = AllOnes * k + AllOnes
    BY ONLY <1>12, <1>13
<1> QED BY <1>2, <1>14, <1>15, <1>16 DEF header

LEMMA FramesVerify ==
    ASSUME FrameArgs \subseteq Packets, CallTyped
    PROVE  ChecksumVerifies
<1>1. CASE ~Called("send")
    BY <1>1, Zenon DEF ChecksumVerifies
<1>2. CASE Called("send")
    <2> DEFINE hw == arg.hw
               src == arg.my_ip
               data == arg.data
               frame == send_broadcast_packet(hw, src, data)
               header == SubSeq(frame, 15, 34)
               words == WordsUpto(header)
    <2>1. arg \in Packets
        <3>1. arg \in FrameArgs
            BY <1>2, Zenon DEF CallTyped, Called, arg
        <3> QED BY ONLY <3>1, FrameArgs \subseteq Packets
    <2>2. /\ hw \in [1..6 -> Octet] /\ src \in [1..4 -> Octet]
          /\ data \in {d \in Seq(Octet) : Fits(d)}
        <3> DEFINE A == [1..6 -> Octet]
                   B == [1..4 -> Octet]
                   D == {d \in Seq(Octet) : Fits(d)}
        <3>1. arg \in [hw : A, my_ip : B, data : D]
            BY ONLY <2>1 DEF Packets
        <3> HIDE DEF A, B, D
        <3>2. arg.hw \in A /\ arg.my_ip \in B /\ arg.data \in D
            BY ONLY <3>1
        <3> QED BY ONLY <3>2 DEF A, B, D
    <2> HIDE DEF hw, src, data
    <2>3. data \in Seq(Octet) /\ Fits(data)
        BY ONLY <2>2
    <2>4. /\ \E k \in Nat : words[10] = AllOnes * k + AllOnes
          /\ 256 * header[3] + header[4] = Len(frame) - 14
          /\ SubSeq(frame, 43, Len(frame)) = data
        BY ONLY <2>2, <2>3, FrameVerifies, Zenon
    <2>5. words[10] # 0 /\ words[10] % AllOnes = 0
        <3> HIDE DEF words
        <3>1. PICK k \in Nat : words[10] = AllOnes * k + AllOnes
            BY ONLY <2>4
        <3> QED BY ONLY <3>1, TopMultiple
    <2> QED BY ONLY <2>4, <2>5, Zenon DEF ChecksumVerifies, words, header, frame, hw, src, data, WordsUpto
<1> QED BY ONLY <1>1, <1>2, Zenon

\* Every frame that send_broadcast_packet builds, for data up to what a length of sixteen
\* bits has room for, has an IP header that a receiver finds intact.
THEOREM HeadersVerify ==
    ASSUME FrameArgs \subseteq Packets
    PROVE  CodecsSpec => []ChecksumVerifies
<1>1. CallTyped => ChecksumVerifies
    BY FramesVerify
<1> QED BY <1>1, Arguments, PTL
----------------------------------------------------------------------------
(* Accounting messages.                                                     *)

\* What a length byte has room for, and the attributes that are written.
Values == {v \in Seq(Octet) : Len(v) + 2 <= RadByteMax}
Attribute == [type : Octet \ {0}, value : Values]
RadiusSizes == MaxAttributes \in Nat /\ RadByteMax \in Nat /\ RadByteMax <= 255

LEMMA ByteKept ==
    ASSUME RadiusSizes, NEW n \in Nat, n <= RadByteMax
    PROVE  R!ToByte(n) = n
<1> DEFINE d == RadByteMax + 1
<1>1. d \in Nat /\ d > 0 /\ n < d
    BY DEF RadiusSizes
<1>2. R!ToByte(n) = n % d
    BY DEF R!ToByte
<1> HIDE DEF d
<1> QED BY <1>1, <1>2

IsWritten(w, x) ==
    /\ w \in Seq(Octet) /\ Len(w) = 2 + Len(x.value) /\ w[1] = x.type /\ w[2] = Len(x.value) + 2
    /\ \A i \in 1..Len(x.value) : w[2 + i] = x.value[i]

LEMMA AttributeFields ==
    ASSUME NEW x \in Attribute
    PROVE  x.type \in Octet /\ x.type # 0 /\ x.value \in Values
<1> DEFINE A == Octet \ {0}
           B == Values
<1>1. x \in [type : A, value : B]
    BY DEF Attribute
<1> HIDE DEF A, B
<1>2. x.type \in A /\ x.value \in B
    BY <1>1
<1> QED BY <1>2 DEF A, B

LEMMA ValueTyped ==
    ASSUME NEW v \in Values
    PROVE  v \in Seq(Octet) /\ Len(v) \in Nat /\ Len(v) + 2 <= RadByteMax
<1>1. v \in Seq(Octet) /\ Len(v) + 2 <= RadByteMax
    BY DEF Values
<1>2. Len(v) \in Nat
    BY <1>1, LenProperties
<1> QED BY <1>1, <1>2

LEMMA WrittenIs ==
    ASSUME RadiusSizes, NEW x \in Attribute
    PROVE  IsWritten(R!Written(x), x)
<1> DEFINE t == x.type
           v == x.value
           n == Len(v) + 2
           h == <<t, n>>
           w == h \o v
<1>1. t \in Octet /\ v \in Seq(Octet) /\ Len(v) \in Nat /\ Len(v) + 2 <= RadByteMax
    BY AttributeFields, ValueTyped
<1> HIDE DEF t, v
<1>2. n \in Octet /\ R!ToByte(n) = n
    <2>1. n \in Nat /\ n <= RadByteMax
        BY <1>1
    <2>2. R!ToByte(n) = n
        BY <2>1, ByteKept
    <2>3. n <= 255
        BY <2>1 DEF RadiusSizes
    <2> HIDE DEF n
    <2>4. n \in Octet
        BY <2>1, <2>3 DEF Octet
    <2> QED BY <2>2, <2>4
<1>3. R!Written(x) = w
    BY <1>2, Zenon DEF R!Written, w, h, n, t, v
<1> HIDE DEF n
<1>4. h \in Seq(Octet) /\ Len(h) = 2 /\ h[1] = t /\ h[2] = n
    BY <1>1, <1>2, TwoOctets
<1> HIDE DEF h
<1>5. IsJoin(w, h, v)
    <2>1. h \in Seq(Octet) /\ v \in Seq(Octet)
        BY <1>1, <1>4
    <2> QED BY ONLY <2>1, JoinTwo
<1> HIDE DEF w
<1>6. /\ w \in Seq(Octet) /\ Len(w) = 2 + Len(v) /\ w[1] = t /\ w[2] = n
      /\ \A i \in 1..Len(v) : w[2 + i] = v[i]
    BY <1>4, <1>5 DEF IsJoin
<1> QED BY <1>3, <1>6 DEF IsWritten, n, t, v

\* The functions that AttributeBytes and marshall define.
BytesUpto(a) ==
    CHOOSE F : F = [i \in 0..Len(a) |-> IF i = 0 THEN <<>> ELSE F[i - 1] \o R!Written(a[i])]
ReadUpto(b, n) ==
    CHOOSE F : F = [idx \in 0..MaxAttributes |->
                      IF idx = 0 THEN [offset |-> 1, attributes |-> <<>>] ELSE R!ReadOne(b, n, F[idx - 1])]

BytesStep(s, a, i) == s \o R!Written(a[i])
BytesStay(S, a) ==
    /\ <<>> \in S /\ Len(a) \in Nat
    /\ \A i \in 1..Len(a) : \A s \in S : BytesStep(s, a, i) \in S
ReadStart == [offset |-> 1, attributes |-> <<>>]
ReadStays(S, b, n) ==
    /\ ReadStart \in S /\ MaxAttributes \in Nat
    /\ \A i \in 1..MaxAttributes : \A s \in S : R!ReadOne(b, n, s) \in S

LEMMA BytesRecursion ==
    ASSUME NEW S, NEW a, BytesStay(S, a)
    PROVE  /\ BytesUpto(a) \in [0..Len(a) -> S] /\ BytesUpto(a)[0] = <<>>
           /\ \A i \in 1..Len(a) : BytesUpto(a)[i] = BytesStep(BytesUpto(a)[i - 1], a, i)
<1> DEFINE m == Len(a)
           z == <<>>
           step == [i \in 1..m |-> [s \in S |-> BytesStep(s, a, i)]]
           Solves(F) == F = [i \in 0..m |-> IF i = 0 THEN z ELSE BytesStep(F[i - 1], a, i)]
<1>0. m \in Nat
    BY DEF BytesStay
<1>1. z \in S /\ \A i \in 1..m : \A s \in S : BytesStep(s, a, i) \in S
    BY DEF BytesStay
<1> HIDE DEF m, z
<1>2. step \in [1..m -> [S -> S]]
    BY <1>1
<1>3. PICK f \in [0..m -> S] : f[0] = z /\ \A i \in 1..m : f[i] = step[i][f[i - 1]]
    <2>1. z \in S /\ m \in Nat
        BY <1>0, <1>1
    <2> HIDE DEF step
    <2>2. \E f \in [0..m -> S] : f[0] = z /\ \A i \in 1..m : f[i] = step[i][f[i - 1]]
        BY ONLY <1>2, <2>1, PrimitiveRecursion
    <2> QED BY <2>2, Zenon
<1>4. Solves(f)
    <2>1. ASSUME NEW i \in 0..m
          PROVE  f[i] = IF i = 0 THEN z ELSE BytesStep(f[i - 1], a, i)
        <3>1. CASE i = 0
            BY <1>3, <3>1
        <3>2. CASE i # 0
            <4>1. i \in 1..m /\ f[i - 1] \in S
                BY <1>0, <3>2
            <4>2. f[i] = step[i][f[i - 1]]
                BY <1>3, <4>1
            <4>3. step[i][f[i - 1]] = BytesStep(f[i - 1], a, i)
                <5> DEFINE y == f[i - 1]
                <5>1. y \in S
                    BY <4>1
                <5> HIDE DEF y
                <5>2. step[i][y] = BytesStep(y, a, i)
                    BY <4>1, <5>1
                <5> QED BY <5>2 DEF y
            <4> QED BY <3>2, <4>2, <4>3
        <3> QED BY <3>1, <3>2
    <2>2. f = [i \in 0..m |-> f[i]]
        OBVIOUS
    <2> HIDE DEF step
    <2> QED BY <2>1, <2>2
<1> HIDE DEF step
<1> DEFINE T == BytesUpto(a)
<1>5. Solves(T)
    <2>1. T = CHOOSE F : Solves(F)
        BY Zenon DEF BytesUpto, BytesStep, m, z
    <2> HIDE DEF Solves
    <2> QED BY <1>4, <2>1
<1> HIDE DEF T
<1>6. DOMAIN T = 0..m /\ T = [i \in 0..m |-> T[i]]
    BY <1>5
<1>7. \A i \in 0..m : T[i] = IF i = 0 THEN z ELSE BytesStep(T[i - 1], a, i)
    BY <1>5
<1> HIDE DEF Solves
<1>8. T[0] = z /\ \A i \in 1..m : T[i] = BytesStep(T[i - 1], a, i)
    BY <1>0, <1>7
<1> DEFINE G == {i \in 0..m : T[i] \in S}
<1>9. 0 \in G
    BY <1>0, <1>1, <1>8
<1>10. ASSUME NEW i \in 1..m, i - 1 \in G
       PROVE  i \in G
    BY <1>1, <1>8, <1>10
<1>11. 0..m \subseteq G
    <2> HIDE DEF G
    <2> QED BY <1>0, <1>9, <1>10, BoundedInduction
<1>12. T \in [0..m -> S]
    BY <1>6, <1>11
<1> QED BY <1>8, <1>12 DEF T, m, z

LEMMA ReadRecursion ==
    ASSUME NEW S, NEW b, NEW n, ReadStays(S, b, n)
    PROVE  /\ ReadUpto(b, n) \in [0..MaxAttributes -> S] /\ ReadUpto(b, n)[0] = ReadStart
           /\ \A i \in 1..MaxAttributes : ReadUpto(b, n)[i] = R!ReadOne(b, n, ReadUpto(b, n)[i - 1])
<1> DEFINE m == MaxAttributes
           z == ReadStart
           step == [i \in 1..m |-> [s \in S |-> R!ReadOne(b, n, s)]]
           Solves(F) == F = [i \in 0..m |-> IF i = 0 THEN z ELSE R!ReadOne(b, n, F[i - 1])]
<1>0. m \in Nat
    BY DEF ReadStays
<1>1. z \in S /\ \A i \in 1..m : \A s \in S : R!ReadOne(b, n, s) \in S
    BY DEF ReadStays
<1> HIDE DEF m, z
<1>2. step \in [1..m -> [S -> S]]
    BY <1>1
<1>3. PICK f \in [0..m -> S] : f[0] = z /\ \A i \in 1..m : f[i] = step[i][f[i - 1]]
    <2>1. z \in S /\ m \in Nat
        BY <1>0, <1>1
    <2> HIDE DEF step
    <2>2. \E f \in [0..m -> S] : f[0] = z /\ \A i \in 1..m : f[i] = step[i][f[i - 1]]
        BY ONLY <1>2, <2>1, PrimitiveRecursion
    <2> QED BY <2>2, Zenon
<1>4. Solves(f)
    <2>1. ASSUME NEW i \in 0..m
          PROVE  f[i] = IF i = 0 THEN z ELSE R!ReadOne(b, n, f[i - 1])
        <3>1. CASE i = 0
            BY <1>3, <3>1
        <3>2. CASE i # 0
            <4>1. i \in 1..m /\ f[i - 1] \in S
                BY <1>0, <3>2
            <4>2. f[i] = step[i][f[i - 1]]
                BY <1>3, <4>1
            <4>3. step[i][f[i - 1]] = R!ReadOne(b, n, f[i - 1])
                <5> DEFINE y == f[i - 1]
                <5>1. y \in S
                    BY <4>1
                <5> HIDE DEF y
                <5>2. step[i][y] = R!ReadOne(b, n, y)
                    BY <4>1, <5>1
                <5> QED BY <5>2 DEF y
            <4> QED BY <3>2, <4>2, <4>3
        <3> QED BY <3>1, <3>2
    <2>2. f = [i \in 0..m |-> f[i]]
        OBVIOUS
    <2> HIDE DEF step
    <2> QED BY <2>1, <2>2
<1> HIDE DEF step
<1> DEFINE T == ReadUpto(b, n)
<1>5. Solves(T)
    <2>1. T = CHOOSE F : Solves(F)
        BY Zenon DEF ReadUpto, ReadStart, m, z
    <2> HIDE DEF Solves
    <2> QED BY <1>4, <2>1
<1> HIDE DEF T
<1>6. DOMAIN T = 0..m /\ T = [i \in 0..m |-> T[i]]
    BY <1>5
<1>7. \A i \in 0..m : T[i] = IF i = 0 THEN z ELSE R!ReadOne(b, n, T[i - 1])
    BY <1>5
<1> HIDE DEF Solves
<1>8. T[0] = z /\ \A i \in 1..m : T[i] = R!ReadOne(b, n, T[i - 1])
    BY <1>0, <1>7
<1> DEFINE G == {i \in 0..m : T[i] \in S}
<1>9. 0 \in G
    BY <1>0, <1>1, <1>8
<1>10. ASSUME NEW i \in 1..m, i - 1 \in G
       PROVE  i \in G
    BY <1>1, <1>8, <1>10
<1>11. 0..m \subseteq G
    <2> HIDE DEF G
    <2> QED BY <1>0, <1>9, <1>10, BoundedInduction
<1>12. T \in [0..m -> S]
    BY <1>6, <1>11
<1> QED BY <1>8, <1>12 DEF T, m, z


LEMMA AttributeBytesIs ==
    ASSUME NEW a
    PROVE  R!AttributeBytes(a) = BytesUpto(a)[Len(a)]
BY Zenon DEF R!AttributeBytes, BytesUpto

LEMMA BytesDefined ==
    ASSUME RadiusSizes, NEW a \in Seq(Attribute)
    PROVE  /\ BytesUpto(a) \in [0..Len(a) -> Seq(Octet)] /\ BytesUpto(a)[0] = <<>>
           /\ \A i \in 1..Len(a) : IsJoin(BytesUpto(a)[i], BytesUpto(a)[i - 1], R!Written(a[i]))
<1> DEFINE S == Seq(Octet)
           U == BytesUpto(a)
<1>1. <<>> \in S /\ Len(a) \in Nat
    BY LenProperties
<1>2. ASSUME NEW i \in 1..Len(a), NEW s \in S
      PROVE  IsJoin(s \o R!Written(a[i]), s, R!Written(a[i])) /\ s \o R!Written(a[i]) \in S
    <2>1. a[i] \in Attribute
        BY ElementOfSeq
    <2>2. R!Written(a[i]) \in Seq(Octet)
        BY <2>1, WrittenIs DEF IsWritten
    <2>3. IsJoin(s \o R!Written(a[i]), s, R!Written(a[i]))
        BY ONLY <2>2, s \in Seq(Octet), JoinTwo
    <2> QED BY <2>3 DEF IsJoin
<1> HIDE DEF S
<1>3. BytesStay(S, a)
    BY <1>1, <1>2 DEF BytesStay, BytesStep
<1>4. U \in [0..Len(a) -> S] /\ U[0] = <<>> /\ \A i \in 1..Len(a) : U[i] = BytesStep(U[i - 1], a, i)
    BY ONLY <1>3, BytesRecursion
<1> HIDE DEF U
<1>5. ASSUME NEW i \in 1..Len(a)
      PROVE  IsJoin(U[i], U[i - 1], R!Written(a[i]))
    <2>1. U[i - 1] \in S /\ U[i] = U[i - 1] \o R!Written(a[i])
        BY <1>1, <1>4 DEF BytesStep
    <2>2. IsJoin(U[i - 1] \o R!Written(a[i]), U[i - 1], R!Written(a[i]))
        BY <1>2, <2>1
    <2> QED BY <2>1, <2>2
<1> QED BY <1>4, <1>5 DEF S, U

Begins(s, t) == Len(t) <= Len(s) /\ \A x \in 1..Len(t) : s[x] = t[x]

LEMMA BytesBegin ==
    ASSUME RadiusSizes, NEW a \in Seq(Attribute), NEW i \in 0..Len(a)
    PROVE  Begins(BytesUpto(a)[Len(a)], BytesUpto(a)[i])
<1> DEFINE n == Len(a)
           U == BytesUpto(a)
           G == {k \in 0..n : Begins(U[n], U[k])}
<1>1. n \in Nat
    BY LenProperties
<1>2. /\ U \in [0..n -> Seq(Octet)]
      /\ \A k \in 1..n : IsJoin(U[k], U[k - 1], R!Written(a[k]))
    BY BytesDefined
<1> HIDE DEF n, U
<1>3. n \in G
    <2>1. U[n] \in Seq(Octet) /\ Len(U[n]) \in Nat
        BY <1>1, <1>2, LenProperties
    <2> QED BY <1>1, <2>1 DEF Begins
<1>4. ASSUME NEW k \in 1..n, k \in G
      PROVE  k - 1 \in G
    <2> DEFINE w == R!Written(a[k])
    <2>1. U[k - 1] \in Seq(Octet) /\ Len(U[k - 1]) \in Nat
        BY <1>1, <1>2, LenProperties
    <2>2. w \in Seq(Octet) /\ Len(w) \in Nat
        <3>1. a[k] \in Attribute
            BY ElementOfSeq DEF n
        <3> QED BY <3>1, WrittenIs, LenProperties DEF IsWritten
    <2> HIDE DEF w
    <2>3. Len(U[k]) = Len(U[k - 1]) + Len(w) /\ \A x \in 1..Len(U[k - 1]) : U[k][x] = U[k - 1][x]
        BY <1>2 DEF IsJoin, w
    <2>4. Begins(U[n], U[k])
        BY <1>4
    <2>5. Len(U[n]) \in Nat
        BY <1>1, <1>2, LenProperties
    <2>6. Begins(U[n], U[k - 1])
        BY <2>1, <2>2, <2>3, <2>4, <2>5 DEF Begins
    <2> QED BY <1>1, <2>6
<1>5. 0..n \subseteq G
    <2> HIDE DEF G
    <2> QED BY <1>1, <1>3, <1>4, DownwardInduction
<1>6. i \in G
    BY <1>5 DEF n
<1> QED BY <1>6 DEF n, U

\* The bytes of an attribute are at the place that marshall comes to.
StandsAt(b, o, x) ==
    /\ o \in Nat /\ o >= 1 /\ o + 1 + Len(x.value) <= Len(b)
    /\ b[o] = x.type /\ b[o + 1] = Len(x.value) + 2
    /\ SubSeq(b, o + 2, o + 1 + Len(x.value)) = x.value

LEMMA AttributeStands ==
    ASSUME RadiusSizes, NEW a \in Seq(Attribute), NEW i \in 1..Len(a)
    PROVE  /\ StandsAt(BytesUpto(a)[Len(a)], Len(BytesUpto(a)[i - 1]) + 1, a[i])
           /\ Len(BytesUpto(a)[i]) = Len(BytesUpto(a)[i - 1]) + 2 + Len(a[i].value)
<1> DEFINE U == BytesUpto(a)
           b == U[Len(a)]
           p == U[i - 1]
           q == U[i]
           x == a[i]
           v == x.value
           w == R!Written(x)
           o == Len(p) + 1
<1>0. Len(a) \in Nat
    BY LenProperties
<1>1. U \in [0..Len(a) -> Seq(Octet)] /\ IsJoin(q, p, w)
    BY BytesDefined
<1>2. x \in Attribute
    BY ElementOfSeq
<1>3. Begins(b, q)
    BY BytesBegin
<1>4. b \in Seq(Octet) /\ p \in Seq(Octet) /\ q \in Seq(Octet)
    <2> HIDE DEF U
    <2> QED BY <1>0, <1>1
<1> HIDE DEF U, b, p, q, x
<1>5. v \in Seq(Octet) /\ Len(v) \in Nat
    BY <1>2, AttributeFields, ValueTyped
<1>6. IsWritten(w, x)
    BY <1>2, WrittenIs
<1> HIDE DEF w
<1>7. /\ Len(w) = 2 + Len(v) /\ w[1] = x.type /\ w[2] = Len(v) + 2
      /\ \A j \in 1..Len(v) : w[2 + j] = v[j]
    BY <1>6 DEF IsWritten
<1> HIDE DEF v
<1>8. Len(b) \in Nat /\ Len(p) \in Nat /\ Len(q) \in Nat
    BY <1>4, LenProperties
<1>9. Len(q) = Len(p) + Len(w) /\ \A j \in 1..Len(w) : q[Len(p) + j] = w[j]
    BY <1>1 DEF IsJoin
<1>10. Len(q) <= Len(b) /\ \A j \in 1..Len(q) : b[j] = q[j]
    BY <1>3 DEF Begins
<1>11. ASSUME NEW j \in 1..Len(w)
       PROVE  b[Len(p) + j] = w[j]
    <2>1. Len(p) + j \in 1..Len(q) /\ q[Len(p) + j] = w[j]
        BY <1>5, <1>7, <1>8, <1>9
    <2> QED BY <1>10, <2>1
<1>12. 1 \in 1..Len(w) /\ 2 \in 1..Len(w)
    BY <1>5, <1>7
<1>13. b[o] = x.type
    BY <1>7, <1>11, <1>12
<1>14. b[o + 1] = Len(v) + 2
    <2>1. o + 1 = Len(p) + 2
        BY <1>8
    <2>2. b[Len(p) + 2] = w[2]
        BY <1>11, <1>12
    <2> QED BY <1>7, <2>1, <2>2
<1>15. o \in Nat /\ o >= 1 /\ o + 1 + Len(v) <= Len(b)
    BY <1>5, <1>7, <1>8, <1>9, <1>10
<1>16. SubSeq(b, o + 2, o + 1 + Len(v)) = v
    <2> DEFINE k == o + 2
               e == o + 1 + Len(v)
               y == SubSeq(b, k, e)
    <2>1. k \in Int /\ e \in Int /\ k >= 1 /\ e <= Len(b) /\ e = k - 1 + Len(v) /\ k = Len(p) + 3
        BY <1>5, <1>8, <1>15
    <2> HIDE DEF k, e
    <2>2. \A j \in k..e : b[j] \in Octet
        BY <1>4, <1>8, <2>1, ElementOfSeq
    <2>3. y \in Seq(Octet) /\ Len(y) = Len(v) /\ \A j \in 1..Len(v) : y[j] = b[k + j - 1]
        BY <1>4, <1>5, <2>1, <2>2, SubSeqProperties
    <2> HIDE DEF y
    <2>4. ASSUME NEW j \in 1..Len(v)
          PROVE  y[j] = v[j]
        <3>1. 2 + j \in 1..Len(w) /\ k + j - 1 = Len(p) + (2 + j)
            BY <1>5, <1>7, <1>8, <2>1
        <3>2. b[Len(p) + (2 + j)] = w[2 + j]
            BY <1>11, <3>1
        <3> QED BY <1>7, <2>3, <3>1, <3>2
    <2>5. y = v
        <3>1. y \in Seq(Octet) /\ Len(y) = Len(v)
            BY <2>3
        <3> QED BY ONLY <1>5, <2>4, <3>1, SeqEqual
    <2> QED BY <2>5 DEF y, k, e
<1>17. Len(q) = Len(p) + 2 + Len(v)
    BY <1>5, <1>7, <1>8, <1>9
<1>18. StandsAt(b, o, x)
    BY <1>13, <1>14, <1>15, <1>16 DEF StandsAt, v
<1> HIDE DEF o
<1> QED BY <1>17, <1>18 DEF o, p, q, b, x, v, U

\* What is read when i attributes are.
After(a, i) == [offset |-> Len(BytesUpto(a)[i]) + 1, attributes |-> SubSeq(a, 1, i)]

LEMMA PrefixNext ==
    ASSUME NEW S, NEW a \in Seq(S), NEW i \in 1..Len(a)
    PROVE  SubSeq(a, 1, i) = Append(SubSeq(a, 1, i - 1), a[i])
OBVIOUS

LEMMA ReadNext ==
    ASSUME RadiusSizes, NEW a \in Seq(Attribute), NEW i \in 1..Len(a)
    PROVE  LET b == BytesUpto(a)[Len(a)]
           IN R!ReadOne(b, Len(b), After(a, i - 1)) = After(a, i)
<1> DEFINE b == BytesUpto(a)[Len(a)]
           r == After(a, i - 1)
           x == a[i]
           o == Len(BytesUpto(a)[i - 1]) + 1
           s == SubSeq(a, 1, i - 1)
           n == Len(x.value)
           y == SubSeq(b, o + 2, o + 1 + n)
<1>1. r.offset = o /\ r.attributes = s
    BY DEF After
<1>2. x \in Attribute
    BY ElementOfSeq
<1>3. StandsAt(b, o, x) /\ Len(BytesUpto(a)[i]) = Len(BytesUpto(a)[i - 1]) + 2 + n
    BY AttributeStands
<1>0. Len(BytesUpto(a)[i - 1]) \in Nat
    <2>1. BytesUpto(a)[i - 1] \in Seq(Octet)
        <3>1. BytesUpto(a) \in [0..Len(a) -> Seq(Octet)] /\ Len(a) \in Nat
            BY BytesDefined, LenProperties
        <3> QED BY <3>1
    <2> QED BY <2>1, LenProperties
<1>4. x.type # 0 /\ n \in Nat /\ n + 2 <= RadByteMax
    BY <1>2, AttributeFields, ValueTyped
<1>5. /\ o \in Nat /\ ~(o > Len(b)) /\ b[o] # 0 /\ b[o] = x.type /\ b[o + 1] = n + 2 /\ y = x.value
    <2>1. o \in Nat /\ o >= 1 /\ o + 1 + n <= Len(b) /\ b[o] = x.type /\ b[o + 1] = n + 2 /\ y = x.value
        BY <1>3 DEF StandsAt
    <2>2. Len(b) \in Nat
        <3>1. b \in Seq(Octet)
            <4>1. BytesUpto(a) \in [0..Len(a) -> Seq(Octet)] /\ Len(a) \in Nat
                BY BytesDefined, LenProperties
            <4> QED BY <4>1
        <3> QED BY <3>1, LenProperties
    <2> HIDE DEF b, o, y, x, n
    <2>3. ~(o > Len(b))
        <3> DEFINE l == Len(b)
        <3>1. l \in Nat /\ o \in Nat /\ n \in Nat /\ o + 1 + n <= l
            BY <1>4, <2>1, <2>2
        <3> HIDE DEF l
        <3>2. ~(o > l)
            BY <3>1
        <3> QED BY <3>2 DEF l
    <2> QED BY ONLY <1>4, <2>1, <2>3
<1>6. R!ToByte(b[o + 1] - 2) = n
    <2>1. b[o + 1] - 2 = n /\ n \in Nat /\ n <= RadByteMax
        <3> HIDE DEF b, o, x, n
        <3> QED BY <1>4, <1>5 DEF RadiusSizes
    <2> QED BY <2>1, ByteKept
<1>7. x = [type |-> b[o], value |-> y]
    <2> DEFINE A == Octet \ {0}
               B == Values
    <2>1. x \in [type : A, value : B]
        BY <1>2 DEF Attribute
    <2> HIDE DEF A, B, b, o, y, x
    <2>2. x = [type |-> x.type, value |-> x.value]
        BY <2>1
    <2> QED BY <1>5, <2>2
<1>8. R!ReadOne(b, Len(b), r) = [offset |-> o + 2 + n, attributes |-> Append(s, x)]
    <2> HIDE DEF b, r, x, o, s, n
    <2>1. R!ReadOne(b, Len(b), r) =
            [offset |-> o + 2 + n, attributes |-> Append(s, [type |-> b[o], value |-> y])]
        BY <1>1, <1>5, <1>6, Zenon DEF R!ReadOne
    <2> QED BY <1>7, <2>1, Zenon
<1>9. Append(s, x) = SubSeq(a, 1, i)
    BY PrefixNext
<1>10. o + 2 + n = Len(BytesUpto(a)[i]) + 1
    <2> DEFINE lp == Len(BytesUpto(a)[i - 1])
               lq == Len(BytesUpto(a)[i])
    <2> HIDE DEF n, lp, lq
    <2>1. lp \in Nat /\ lq = lp + 2 + n /\ n \in Nat /\ o = lp + 1
        BY <1>0, <1>3, <1>4 DEF lp, lq
    <2> HIDE DEF o
    <2>2. o + 2 + n = lq + 1
        BY <2>1
    <2> QED BY <2>2 DEF lq
<1> HIDE DEF r, b, o, n, s, x
<1> QED BY <1>8, <1>9, <1>10, Zenon DEF After, r, b

LEMMA ReadDefined ==
    ASSUME RadiusSizes, NEW a \in Seq(Attribute)
    PROVE  LET b == BytesUpto(a)[Len(a)]
               F == ReadUpto(b, Len(b))
           IN \A i \in 0..MaxAttributes : F[i] = After(a, IF i <= Len(a) THEN i ELSE Len(a))
<1> DEFINE n == Len(a)
           b == BytesUpto(a)[n]
           m == Len(b)
           F == ReadUpto(b, m)
           S == {After(a, i) : i \in 0..n}
           M == MaxAttributes
<1>0. n \in Nat /\ M \in Nat
    BY LenProperties DEF RadiusSizes
<1>1. After(a, 0) = ReadStart
    <2>1. BytesUpto(a)[0] = <<>> /\ SubSeq(a, 1, 0) = <<>>
        BY BytesDefined
    <2>2. Len(BytesUpto(a)[0]) + 1 = 1
        BY <2>1
    <2> QED BY <2>1, <2>2 DEF After, ReadStart
<1>2. \A i \in 1..n : R!ReadOne(b, m, After(a, i - 1)) = After(a, i)
    BY ReadNext
<1>3. R!ReadOne(b, m, After(a, n)) = After(a, n)
    <2> DEFINE r == After(a, n)
    <2>1. r.offset = m + 1
        BY DEF After
    <2>2. m \in Nat
        <3>1. b \in Seq(Octet)
            <4>1. BytesUpto(a) \in [0..n -> Seq(Octet)]
                BY BytesDefined
            <4> HIDE DEF n
            <4> QED BY <1>0, <4>1
        <3> QED BY <3>1, LenProperties
    <2> HIDE DEF r, b, m
    <2>3. r.offset > m
        BY <2>1, <2>2
    <2>4. R!ReadOne(b, m, r) = r
        BY <2>3, Zenon DEF R!ReadOne
    <2> QED BY <2>4 DEF r
<1> HIDE DEF n, b, m
<1>4. ReadStays(S, b, m)
    <2>1. ReadStart \in S
        BY <1>0, <1>1
    <2>2. ASSUME NEW s \in S
          PROVE  R!ReadOne(b, m, s) \in S
        <3>1. PICK i \in 0..n : s = After(a, i)
            OBVIOUS
        <3>2. CASE i = n
            BY <1>0, <1>3, <3>1, <3>2
        <3>3. CASE i # n
            <4>1. i + 1 \in 1..n /\ (i + 1) - 1 = i /\ i + 1 \in 0..n
                BY <1>0, <3>3
            <4>2. R!ReadOne(b, m, After(a, i)) = After(a, i + 1)
                BY <1>2, <4>1
            <4> QED BY <3>1, <4>1, <4>2
        <3> QED BY <3>2, <3>3
    <2> HIDE DEF S
    <2> QED BY <1>0, <2>1, <2>2 DEF ReadStays
<1>5. F[0] = ReadStart /\ \A i \in 1..M : F[i] = R!ReadOne(b, m, F[i - 1])
    <2> HIDE DEF S
    <2> QED BY ONLY <1>4, ReadRecursion
<1> DEFINE Least(i) == IF i <= n THEN i ELSE n
           G == {i \in 0..M : F[i] = After(a, Least(i))}
<1> HIDE DEF F, S
<1>6. 0 \in G
    <2>1. Least(0) = 0
        BY <1>0
    <2> QED BY <1>0, <1>1, <1>5, <2>1
<1>7. ASSUME NEW i \in 1..M, i - 1 \in G
      PROVE  i \in G
    <2>1. F[i - 1] = After(a, Least(i - 1)) /\ F[i] = R!ReadOne(b, m, F[i - 1])
        BY <1>5, <1>7
    <2>2. CASE i <= n
        <3>1. i \in 1..n /\ Least(i - 1) = i - 1 /\ Least(i) = i
            BY <1>0, <2>2
        <3>2. F[i] = After(a, i)
            BY <1>2, <2>1, <3>1
        <3> QED BY <1>0, <3>1, <3>2
    <2>3. CASE ~(i <= n)
        <3>1. Least(i - 1) = n /\ Least(i) = n
            BY <1>0, <2>3
        <3>2. F[i] = After(a, n)
            BY <1>3, <2>1, <3>1
        <3> QED BY <1>0, <3>1, <3>2
    <2> QED BY <2>2, <2>3
<1>8. 0..M \subseteq G
    <2> HIDE DEF G
    <2> QED BY <1>0, <1>6, <1>7, BoundedInduction
<1>9. \A i \in 0..M : F[i] = After(a, Least(i))
    BY <1>8
<1> QED BY <1>9, Zenon DEF F, b, m, n

LEMMA MarshallIs ==
    ASSUME NEW msg, NEW salt
    PROVE  LET n == 256 * msg.length[1] + msg.length[2] - 20
           IN R!marshall(msg, salt) =
                [code |-> msg.code, attributes |-> ReadUpto(msg.attrs, n)[MaxAttributes].attributes,
                 matches |-> msg.auth = R!Signed(msg.code, msg.ident, msg.length, R!NoAuth,
                                                 SubSeq(msg.attrs, 1, n), salt)]
BY Zenon DEF R!marshall, ReadUpto

LEMMA LengthBack ==
    ASSUME NEW n \in Nat
    PROVE  256 * R!Length16(20 + n)[1] + R!Length16(20 + n)[2] - 20 = n
<1> DEFINE k == 20 + n
           x == k \div 256
           y == k % 256
<1>1. 256 * x + y = k /\ x \in Int /\ y \in Int
    <2>1. k \in Nat
        OBVIOUS
    <2> HIDE DEF k
    <2> QED BY <2>1, DividedBack
<1>2. R!Length16(k)[1] = x /\ R!Length16(k)[2] = y
    BY DEF R!Length16
<1> HIDE DEF x, y
<1>3. k - 20 = n
    OBVIOUS
<1> HIDE DEF k
<1>4. 256 * x + y - 20 = n
    BY <1>1, <1>3
<1> QED BY <1>2, <1>4 DEF k

\* A message is read back: with no authenticator in what was signed, it matches.
LEMMA MessageRead ==
    ASSUME RadiusSizes, NEW p, NEW ident, NEW salt,
           p.attributes \in Seq(Attribute), Len(p.attributes) <= MaxAttributes, p.auth = R!NoAuth
    PROVE  LET q == R!marshall(R!unmarshall(p, ident, salt), salt)
           IN q.matches /\ q.attributes = p.attributes
<1> DEFINE a == p.attributes
           b == R!AttributeBytes(a)
           len == R!Length16(20 + Len(b))
           msg == R!unmarshall(p, ident, salt)
           n == 256 * len[1] + len[2] - 20
           q == R!marshall(msg, salt)
           F == ReadUpto(b, n)
<1>1. /\ msg.code = p.code /\ msg.ident = ident /\ msg.length = len /\ msg.attrs = b
      /\ msg.auth = R!Signed(p.code, ident, len, p.auth, b, salt)
    BY DEF R!unmarshall
<1>2. b = BytesUpto(a)[Len(a)]
    BY AttributeBytesIs
<1>3. b \in Seq(Octet) /\ Len(b) \in Nat
    <2>1. BytesUpto(a) \in [0..Len(a) -> Seq(Octet)]
        BY BytesDefined
    <2>2. Len(a) \in Nat
        BY LenProperties
    <2> HIDE DEF a
    <2>3. b \in Seq(Octet)
        BY <1>2, <2>1, <2>2
    <2> QED BY <2>3, LenProperties
<1> HIDE DEF b
<1>4. n = Len(b)
    BY <1>3, LengthBack
<1> HIDE DEF len, msg, n
<1>5. /\ q.attributes = F[MaxAttributes].attributes
      /\ q.matches = (msg.auth = R!Signed(msg.code, msg.ident, msg.length, R!NoAuth, SubSeq(msg.attrs, 1, n), salt))
    <2>1. q = [code |-> msg.code, attributes |-> F[MaxAttributes].attributes,
               matches |-> msg.auth = R!Signed(msg.code, msg.ident, msg.length, R!NoAuth,
                                                 SubSeq(msg.attrs, 1, n), salt)]
        BY <1>1, MarshallIs, Zenon DEF n
    <2> HIDE DEF q, F
    <2> QED BY <2>1
<1>6. SubSeq(b, 1, n) = b
    BY <1>3, <1>4
<1>7. q.matches
    BY <1>1, <1>5, <1>6
<1>8. F[MaxAttributes] = After(a, Len(a))
    <2>1. Len(a) \in Nat /\ MaxAttributes \in Nat
        BY LenProperties DEF RadiusSizes
    <2>2. F[MaxAttributes] = After(a, IF MaxAttributes <= Len(a) THEN MaxAttributes ELSE Len(a))
        <3>1. MaxAttributes \in 0..MaxAttributes
            BY <2>1
        <3>2. \A i \in 0..MaxAttributes : F[i] = After(a, IF i <= Len(a) THEN i ELSE Len(a))
            BY <1>2, <1>4, ReadDefined, Zenon
        <3> QED BY <3>1, <3>2, Zenon
    <2> HIDE DEF F
    <2>3. (IF MaxAttributes <= Len(a) THEN MaxAttributes ELSE Len(a)) = Len(a)
        BY <2>1
    <2> QED BY <2>2, <2>3
<1>9. After(a, Len(a)).attributes = a
    <2>1. SubSeq(a, 1, Len(a)) = a
        OBVIOUS
    <2> QED BY <2>1 DEF After
<1> HIDE DEF F, q, a
<1>10. q.attributes = a
    BY <1>5, <1>8, <1>9
<1> QED BY <1>7, <1>10 DEF q, a, msg

LEMMA FiveOf ==
    ASSUME NEW S, NEW a \in S, NEW b \in S, NEW c \in S, NEW d \in S, NEW e \in S
    PROVE  LET s == <<a, b, c, d, e>>
           IN s \in Seq(S) /\ Len(s) = 5 /\ s[1] = a /\ s[2] = b /\ s[3] = c /\ s[4] = d /\ s[5] = e
OBVIOUS

LEMMA IntAttr ==
    ASSUME RadiusSizes, RadByteMax >= 8, NEW t \in Octet \ {0}, NEW v \in Octet
    PROVE  /\ R!int_attr(t, v) \in Attribute
           /\ R!int_attr(t, v).type = t /\ R!int_attr(t, v).value = <<0, 0, 0, v>>
<1> DEFINE s == <<0, 0, 0, v>>
           x == [type |-> t, value |-> s]
<1>1. R!int_attr(t, v) = x
    BY DEF R!int_attr
<1>2. s \in Seq(Octet) /\ Len(s) = 4
    <2> DEFINE S == Octet
               z == 0
    <2>1. z \in S /\ v \in S
        BY DEF Octet
    <2> HIDE DEF S, z
    <2>2. <<z, z, z, v>> \in Seq(S) /\ Len(<<z, z, z, v>>) = 4
        BY <2>1
    <2> QED BY <2>2 DEF S, z
<1> HIDE DEF s
<1>3. s \in Values
    <2>1. Len(s) + 2 <= RadByteMax
        BY <1>2 DEF RadiusSizes
    <2> QED BY <1>2, <2>1 DEF Values
<1>4. x \in Attribute
    BY <1>3 DEF Attribute
<1> QED BY <1>1, <1>4 DEF s

LEMMA StrAttr ==
    ASSUME RadiusSizes, NEW t \in Octet \ {0}, NEW v \in Values
    PROVE  R!str_attr(t, v) \in Attribute /\ R!str_attr(t, v).type = t /\ R!str_attr(t, v).value = v
<1>1. v \in Seq(Octet) /\ Len(v) \in Nat /\ Len(v) + 2 <= RadByteMax
    BY ValueTyped
<1>2. R!ToByte(Len(v)) = Len(v)
    <2>1. Len(v) <= RadByteMax
        BY <1>1 DEF RadiusSizes
    <2> QED BY <1>1, <2>1, ByteKept
<1>3. SubSeq(v, 1, Len(v)) = v
    BY <1>1
<1>4. R!str_attr(t, v) = [type |-> t, value |-> v]
    BY <1>2, <1>3, Zenon DEF R!str_attr
<1> QED BY <1>4 DEF Attribute

LEMMA DaemonValue ==
    ASSUME RadiusSizes, RadByteMax >= 8
    PROVE  R!Daemon \in Values
<1> DEFINE S == Octet
<1>1. 100 \in S /\ 104 \in S /\ 99 \in S /\ 112 \in S /\ 0 \in S
    BY DEF Octet
<1> HIDE DEF S
<1>2. <<100, 104, 99, 112, 100, 0>> \in Seq(S) /\ Len(<<100, 104, 99, 112, 100, 0>>) = 6
    BY <1>1
<1> DEFINE d == R!Daemon
<1>3. d \in Seq(S) /\ Len(d) = 6
    BY <1>2 DEF R!Daemon
<1> HIDE DEF d
<1>4. d \in Values
    <2>1. Len(d) + 2 <= RadByteMax
        BY <1>3 DEF RadiusSizes
    <2> QED BY <1>3, <2>1 DEF Values, S
<1> QED BY <1>4 DEF d

\* The i-th of n attributes is the only one of its type.
OnlyOne(p, n, i, t) ==
    /\ n \in Nat /\ DOMAIN p.attributes = 1..n /\ i \in 1..n
    /\ p.attributes[i].type = t /\ \A j \in 1..n : j # i => p.attributes[j].type # t
ValuesOf(p, t) == {x.value : x \in R!attr(p, t)}

LEMMA AttrIs ==
    ASSUME NEW p, NEW t, NEW n, NEW i, OnlyOne(p, n, i, t)
    PROVE  ValuesOf(p, t) = {p.attributes[i].value}
<1> DEFINE a == p.attributes
           at == {k \in DOMAIN a : a[k].type = t}
           first == {j \in at : \A k \in at : j <= k}
<1>1. at = {i} /\ i \in Nat
    BY DEF OnlyOne
<1>2. first = {i}
    BY <1>1
<1>3. R!attr(p, t) = {a[k] : k \in first}
    BY Zenon DEF R!attr
<1> HIDE DEF first, a
<1>4. R!attr(p, t) = {a[i]}
    BY <1>2, <1>3
<1> QED BY <1>4 DEF a, ValuesOf

\* The messages that are sent: what they carry has room in an attribute each.
Accounted == [status : Octet, auth_info : Values, ipaddr : Values, ident : Octet, salt : Seq(Octet)]

LEMMA AccountedFields ==
    ASSUME NEW x \in Accounted
    PROVE  x.status \in Octet /\ x.auth_info \in Values /\ x.ipaddr \in Values
<1> DEFINE A == Octet
           B == Values
           C == Seq(Octet)
<1>1. x \in [status : A, auth_info : B, ipaddr : B, ident : A, salt : C]
    BY DEF Accounted
<1> HIDE DEF A, B, C
<1>2. x.status \in A /\ x.auth_info \in B /\ x.ipaddr \in B
    BY <1>1
<1> QED BY <1>2 DEF A, B

\* The attributes of a request.
IsRequest(a, status, auth_info, ipaddr) ==
    /\ a \in Seq(Attribute) /\ Len(a) = 5
    /\ a[1].type = 40 /\ a[2].type = 44 /\ a[3].type = 30 /\ a[4].type = 31 /\ a[5].type = 4
    /\ a[1].value = <<0, 0, 0, status>> /\ a[2].value = auth_info /\ a[4].value = ipaddr

LEMMA RequestIs ==
    ASSUME RadiusSizes, RadByteMax >= 8, NEW status \in Octet, NEW auth_info \in Values, NEW ipaddr \in Values
    PROVE  LET p == R!create_acct_request(status, auth_info, ipaddr)
           IN p.auth = R!NoAuth /\ IsRequest(p.attributes, status, auth_info, ipaddr)
<1> DEFINE p == R!create_acct_request(status, auth_info, ipaddr)
           a1 == R!int_attr(40, status)
           a2 == R!str_attr(44, auth_info)
           a3 == R!str_attr(30, R!Daemon)
           a4 == R!str_attr(31, ipaddr)
           a5 == R!int_attr(4, 0)
           a == <<a1, a2, a3, a4, a5>>
<1>0. 40 \in Octet \ {0} /\ 44 \in Octet \ {0} /\ 30 \in Octet \ {0} /\ 31 \in Octet \ {0} /\ 4 \in Octet \ {0}
      /\ 0 \in Octet
    BY DEF Octet
<1>1. a1 \in Attribute /\ a1.type = 40 /\ a1.value = <<0, 0, 0, status>>
    BY <1>0, IntAttr
<1>2. a2 \in Attribute /\ a2.type = 44 /\ a2.value = auth_info
    BY <1>0, StrAttr
<1>3. a3 \in Attribute /\ a3.type = 30
    BY <1>0, StrAttr, DaemonValue
<1>4. a4 \in Attribute /\ a4.type = 31 /\ a4.value = ipaddr
    BY <1>0, StrAttr
<1>5. a5 \in Attribute /\ a5.type = 4
    BY <1>0, IntAttr
<1>6. p.auth = R!NoAuth /\ p.attributes = a
    <2>1. p = [code |-> 4, auth |-> R!NoAuth, attributes |-> a]
        BY Zenon DEF R!create_acct_request, R!RAD_ACCT_REQUEST, R!RAD_ATTR_ACCT_STATUS_TYPE,
                     R!RAD_ATTR_ACCT_SESSION_ID, R!RAD_ATTR_CALLED_STATION_ID,
                     R!RAD_ATTR_CALLING_STATION_ID, R!RAD_ATTR_NAS_IP_ADDRESS
    <2> HIDE DEF p, a
    <2> QED BY <2>1
<1> HIDE DEF p, a1, a2, a3, a4, a5
<1>7. a \in Seq(Attribute) /\ Len(a) = 5 /\ a[1] = a1 /\ a[2] = a2 /\ a[3] = a3 /\ a[4] = a4 /\ a[5] = a5
    BY <1>1, <1>2, <1>3, <1>4, <1>5, FiveOf
<1> HIDE DEF a
<1>8. IsRequest(a, status, auth_info, ipaddr)
    BY <1>1, <1>2, <1>3, <1>4, <1>5, <1>7 DEF IsRequest
<1> QED BY <1>6, <1>8 DEF p

LEMMA AcctRead ==
    ASSUME RadiusSizes, RadByteMax >= 8, MaxAttributes >= 5, AcctArgs \subseteq Accounted, CallTyped
    PROVE  AcctAccepted
<1>1. CASE ~Called("acct")
    BY <1>1, Zenon DEF AcctAccepted
<1>2. CASE Called("acct")
    <2> DEFINE r == R!create_acct_request(arg.status, arg.auth_info, arg.ipaddr)
               a == r.attributes
               m == R!unmarshall(r, arg.ident, arg.salt)
               p == R!marshall(m, arg.salt)
    <2>1. arg \in Accounted
        <3>1. arg \in AcctArgs
            BY <1>2, Zenon DEF CallTyped, Called, arg
        <3> QED BY <3>1
    <2>2. arg.status \in Octet /\ arg.auth_info \in Values /\ arg.ipaddr \in Values
        BY <2>1, AccountedFields
    <2>0. r.auth = R!NoAuth /\ IsRequest(a, arg.status, arg.auth_info, arg.ipaddr)
        BY <2>2, RequestIs, Zenon
    <2> HIDE DEF r
    <2>3. /\ a \in Seq(Attribute) /\ Len(a) = 5
          /\ a[1].type = 40 /\ a[2].type = 44 /\ a[3].type = 30 /\ a[4].type = 31 /\ a[5].type = 4
          /\ a[1].value = <<0, 0, 0, arg.status>> /\ a[2].value = arg.auth_info /\ a[4].value = arg.ipaddr
        BY ONLY <2>0 DEF IsRequest
    <2>4. Len(a) <= MaxAttributes /\ a \in Seq(Attribute)
        BY <2>3
    <2>5. p.matches /\ p.attributes = a
        BY ONLY <2>0, <2>4, RadiusSizes, MessageRead, Zenon
    <2> HIDE DEF p
    <2>6. DOMAIN p.attributes = 1..5 /\ Len(p.attributes) = 5
        BY <2>3, <2>5
    <2>7. ValuesOf(p, 44) = {arg.auth_info}
        <3>1. OnlyOne(p, 5, 2, 44)
            BY <2>3, <2>5, <2>6 DEF OnlyOne
        <3>2. ValuesOf(p, 44) = {p.attributes[2].value}
            BY ONLY <3>1, AttrIs, Zenon
        <3> QED BY <2>3, <2>5, <3>2
    <2>8. ValuesOf(p, 31) = {arg.ipaddr}
        <3>1. OnlyOne(p, 5, 4, 31)
            BY <2>3, <2>5, <2>6 DEF OnlyOne
        <3>2. ValuesOf(p, 31) = {p.attributes[4].value}
            BY ONLY <3>1, AttrIs, Zenon
        <3> QED BY <2>3, <2>5, <3>2
    <2>9. ValuesOf(p, 40) = {<<0, 0, 0, arg.status>>}
        <3>1. OnlyOne(p, 5, 1, 40)
            BY <2>3, <2>5, <2>6 DEF OnlyOne
        <3>2. ValuesOf(p, 40) = {p.attributes[1].value}
            BY ONLY <3>1, AttrIs, Zenon
        <3> QED BY <2>3, <2>5, <3>2
    <2> QED BY ONLY <2>5, <2>6, <2>7, <2>8, <2>9, Zenon
            DEF AcctAccepted, ValuesOf, p, m, r, R!RAD_ATTR_ACCT_STATUS_TYPE, R!RAD_ATTR_ACCT_SESSION_ID,
                R!RAD_ATTR_CALLING_STATION_ID
<1> QED BY ONLY <1>1, <1>2, Zenon

\* Every accounting message that unmarshall writes, whatever identifier is in the buffer
\* and with every secret, is read by marshall with an authenticator that matches and with
\* the client, the address and the status that were announced, in five attributes.
THEOREM AccountingAccepted ==
    ASSUME RadiusSizes, RadByteMax >= 8, MaxAttributes >= 5, AcctArgs \subseteq Accounted
    PROVE  CodecsSpec => []AcctAccepted
<1>1. CallTyped => AcctAccepted
    BY AcctRead
<1> QED BY <1>1, Arguments, PTL
----------------------------------------------------------------------------
(* Encodings.                                                               *)

LEMMA DigitBack ==
    ASSUME NEW d \in Nat, d < 16
    PROVE  HexDigit(d) \in Nat /\ HexDigit(d) # LF /\ HexDigit(d) # Pad /\ HexDigit(d) <= 255 /\ HexValue(HexDigit(d)) = d
BY DEF HexDigit, HexValue, LF, Pad

LEMMA OctetIs ==
    ASSUME NEW o \in Octet
    PROVE  o \in Nat /\ o <= 255
BY DEF Octet

LEMMA DigitOctet ==
    ASSUME NEW d \in Nat, d < 16
    PROVE  HexDigit(d) \in Octet
<1> DEFINE x == HexDigit(d)
<1>1. x \in Nat /\ x <= 255
    BY DigitBack
<1> HIDE DEF x
<1>2. x \in Octet
    BY <1>1 DEF Octet
<1> QED BY <1>2 DEF x

LEMMA HexBack ==
    ASSUME NEW o \in Octet
    PROVE  HexByte(HexDigit(o \div 16), HexDigit(o % 16)) = o
<1> DEFINE h == o \div 16
           l == o % 16
           x == HexDigit(h)
           y == HexDigit(l)
<1>1. o \in Nat /\ o <= 255
    BY OctetIs
<1>2. h \in Nat /\ h < 16 /\ l \in Nat /\ l < 16 /\ 16 * h + l = o
    BY <1>1
<1> HIDE DEF h, l
<1>3. HexValue(x) = h /\ HexValue(y) = l
    BY <1>2, DigitBack
<1> HIDE DEF x, y
<1>4. HexByte(x, y) = (16 * h + l) % 256
    BY <1>3 DEF HexByte
<1>5. o % 256 = o
    BY <1>1
<1> QED BY <1>2, <1>4, <1>5 DEF x, y, h, l

LEMMA HexTextIs ==
    ASSUME NEW d \in Seq(Octet)
    PROVE  /\ dsEncodeHex(d) \in Seq(Octet) /\ Len(dsEncodeHex(d)) = 2 * Len(d)
           /\ \A k \in 1..Len(d) : /\ dsEncodeHex(d)[2 * k - 1] = HexDigit(d[k] \div 16)
                                   /\ dsEncodeHex(d)[2 * k] = HexDigit(d[k] % 16)
<1> DEFINE n == Len(d)
           At(i) == HexDigit(IF i % 2 = 1 THEN d[(i + 1) \div 2] \div 16 ELSE d[i \div 2] % 16)
           t == [i \in 1..(2 * n) |-> At(i)]
<1>1. n \in Nat
    BY LenProperties
<1>2. dsEncodeHex(d) = t
    BY Zenon DEF dsEncodeHex
<1>3. ASSUME NEW k \in 1..n
      PROVE  d[k] \in Nat /\ d[k] <= 255
    <2>1. d[k] \in Octet
        BY ElementOfSeq
    <2> QED BY <2>1, OctetIs
<1> HIDE DEF n
<1>4. ASSUME NEW k \in 1..n
      PROVE  /\ 2 * k - 1 \in 1..(2 * n) /\ 2 * k \in 1..(2 * n)
             /\ At(2 * k - 1) = HexDigit(d[k] \div 16) /\ At(2 * k) = HexDigit(d[k] % 16)
    <2>1. (2 * k - 1) % 2 = 1 /\ ((2 * k - 1) + 1) \div 2 = k /\ (2 * k) % 2 = 0 /\ (2 * k) \div 2 = k
        BY <1>1
    <2>2. 2 * k - 1 \in 1..(2 * n) /\ 2 * k \in 1..(2 * n)
        BY <1>1
    <2> QED BY <2>1, <2>2
<1>5. ASSUME NEW i \in 1..(2 * n)
      PROVE  At(i) \in Octet
    <2>1. CASE i % 2 = 1
        <3> DEFINE k == (i + 1) \div 2
        <3>1. k \in 1..n
            BY <1>1, <2>1
        <3> HIDE DEF k
        <3>2. d[k] \div 16 \in Nat /\ d[k] \div 16 < 16
            BY <1>3, <3>1
        <3>3. At(i) = HexDigit(d[k] \div 16)
            BY <2>1 DEF k
        <3> HIDE DEF At
        <3> QED BY ONLY <3>2, <3>3, DigitOctet
    <2>2. CASE ~(i % 2 = 1)
        <3> DEFINE k == i \div 2
        <3>1. k \in 1..n
            BY <1>1, <2>2
        <3> HIDE DEF k
        <3>2. d[k] % 16 \in Nat /\ d[k] % 16 < 16
            BY <1>3, <3>1
        <3>3. At(i) = HexDigit(d[k] % 16)
            BY <2>2 DEF k
        <3> HIDE DEF At
        <3> QED BY ONLY <3>2, <3>3, DigitOctet
    <2> QED BY <2>1, <2>2
<1> HIDE DEF At
<1>6. t \in [1..(2 * n) -> Octet]
    BY <1>5
<1>7. \A k \in 1..n : t[2 * k - 1] = HexDigit(d[k] \div 16) /\ t[2 * k] = HexDigit(d[k] % 16)
    BY <1>4
<1> HIDE DEF t
<1>8. t \in Seq(Octet) /\ Len(t) = 2 * n
    <2> DEFINE m == 2 * n
    <2>1. m \in Nat
        BY <1>1
    <2> HIDE DEF m
    <2>2. t \in [1..m -> Octet]
        BY <1>6 DEF m
    <2>3. t \in Seq(Octet) /\ Len(t) = m
        BY ONLY <2>1, <2>2, OctetsAreSeq
    <2> QED BY <2>3 DEF m
<1> QED BY <1>2, <1>7, <1>8 DEF n

LEMMA HexRoundTrip ==
    ASSUME NEW d \in Seq(Octet)
    PROVE  dsDecodeHex(dsEncodeHex(d)) = d
<1> DEFINE t == dsEncodeHex(d)
           n == Len(d)
           r == dsDecodeHex(t)
<1>1. n \in Nat
    BY LenProperties
<1>2. /\ Len(t) = 2 * n
      /\ \A k \in 1..n : t[2 * k - 1] = HexDigit(d[k] \div 16) /\ t[2 * k] = HexDigit(d[k] % 16)
    BY HexTextIs
<1> HIDE DEF t, n
<1> DEFINE Second(i) == IF 2 * i <= Len(t) THEN t[2 * i] ELSE 0
<1>3. (Len(t) + 1) \div 2 = n /\ \A i \in 1..n : Second(i) = t[2 * i]
    BY <1>1, <1>2
<1>4. r = [i \in 1..n |-> HexByte(t[2 * i - 1], t[2 * i])]
    <2>1. r = [i \in 1..n |-> HexByte(t[2 * i - 1], Second(i))]
        BY <1>3 DEF dsDecodeHex
    <2> HIDE DEF Second, r
    <2> QED BY <1>3, <2>1
<1>5. \A i \in 1..n : r[i] = d[i]
    <2> TAKE i \in 1..n
    <2>1. d[i] \in Octet
        BY ElementOfSeq DEF n
    <2>2. r[i] = HexByte(t[2 * i - 1], t[2 * i])
        BY <1>4
    <2> QED BY <1>2, <2>1, <2>2, HexBack
<1>6. DOMAIN d = 1..n /\ d = [i \in 1..n |-> d[i]]
    BY DEF n
<1>7. r = [i \in 1..n |-> r[i]]
    BY <1>4
<1> HIDE DEF r
<1>8. r = d
    BY <1>5, <1>6, <1>7
<1> QED BY <1>8 DEF r, t

LEMMA SeqOfElements ==
    ASSUME NEW T, NEW w \in Seq(T), NEW S, \A j \in 1..Len(w) : w[j] \in S
    PROVE  w \in Seq(S)
<1> DEFINE n == Len(w)
<1>1. n \in Nat /\ DOMAIN w = 1..n /\ w = [j \in 1..n |-> w[j]]
    OBVIOUS
<1> HIDE DEF n
<1>2. w \in [1..n -> S]
    BY <1>1 DEF n
<1> QED BY <1>1, <1>2, SeqDef

LEMMA CharBack ==
    ASSUME NEW d \in Nat, d < 64
    PROVE  dtable(d) \in Nat /\ dtable(d) <= 255 /\ index_64(dtable(d)) = d
<1> DEFINE c == dtable(d)
<1>1. CASE d < 26
    <2>1. c = 65 + d
        BY <1>1 DEF dtable
    <2> HIDE DEF c
    <2>2. c \in Nat /\ c >= 65 /\ c <= 90
        BY <1>1, <2>1
    <2>3. c \in 65..90 /\ c <= 255
        BY <2>2
    <2>4. index_64(c) = c - 65
        BY <2>3, Zenon DEF index_64
    <2> QED BY <2>1, <2>2, <2>3, <2>4 DEF c
<1>2. CASE d >= 26 /\ d < 52
    <2>1. c = 71 + d
        BY <1>2 DEF dtable
    <2> HIDE DEF c
    <2>2. c \in Nat /\ c >= 97 /\ c <= 122
        BY <1>2, <2>1
    <2>3. c \notin 65..90 /\ c \in 97..122 /\ c <= 255
        BY <2>2
    <2>4. index_64(c) = c - 71
        BY <2>3, Zenon DEF index_64
    <2> QED BY <2>1, <2>2, <2>3, <2>4 DEF c
<1>3. CASE d >= 52 /\ d < 62
    <2>1. c = d - 4
        BY <1>3 DEF dtable
    <2> HIDE DEF c
    <2>2. c \in Nat /\ c >= 48 /\ c <= 57
        BY <1>3, <2>1
    <2>3. c \notin 65..90 /\ c \notin 97..122 /\ c \in 48..57 /\ c <= 255
        BY <2>2
    <2>4. index_64(c) = c + 4
        BY <2>3, Zenon DEF index_64
    <2> QED BY <2>1, <2>2, <2>3, <2>4 DEF c
<1>4. CASE d = 62
    BY <1>4 DEF dtable, index_64
<1>5. CASE d = 63
    BY <1>5 DEF dtable, index_64
<1> QED BY <1>1, <1>2, <1>3, <1>4, <1>5

LEMMA PadIndex == index_64(Pad) = ES /\ Pad \in Nat /\ Pad <= 255 /\ ES # XX /\ ES < 0 /\ XX < 0
BY DEF index_64, Pad, ES, XX

LEMMA Sextets ==
    ASSUME NEW a \in Nat, a <= 255, NEW b \in Nat, b <= 255, NEW c \in Nat, c <= 255
    PROVE  /\ a \div 4 \in Nat /\ a \div 4 < 64
           /\ (a % 4) * 16 + b \div 16 \in Nat /\ (a % 4) * 16 + b \div 16 < 64
           /\ (b % 16) * 4 + c \div 64 \in Nat /\ (b % 16) * 4 + c \div 64 < 64
           /\ c % 64 \in Nat /\ c % 64 < 64
<1>1. a \div 4 \in Nat /\ a \div 4 < 64
    OBVIOUS
<1>2. (a % 4) * 16 + b \div 16 \in Nat /\ (a % 4) * 16 + b \div 16 < 64
    <2>1. a % 4 \in Nat /\ a % 4 < 4
        OBVIOUS
    <2>2. b \div 16 \in Nat /\ b \div 16 < 16
        OBVIOUS
    <2> QED BY <2>1, <2>2
<1>3. (b % 16) * 4 + c \div 64 \in Nat /\ (b % 16) * 4 + c \div 64 < 64
    <2>1. b % 16 \in Nat /\ b % 16 < 16
        OBVIOUS
    <2>2. c \div 64 \in Nat /\ c \div 64 < 4
        OBVIOUS
    <2> QED BY <2>1, <2>2
<1>4. c % 64 \in Nat /\ c % 64 < 64
    OBVIOUS
<1> QED BY <1>1, <1>2, <1>3, <1>4

\* The sextets of three bytes, and the bytes of sextets.
LEMMA FirstByte ==
    ASSUME NEW a \in Nat, NEW b \in Nat, b <= 255
    PROVE  (a \div 4) * 4 + ((a % 4) * 16 + b \div 16) \div 16 = a
<1> DEFINE q == a \div 4
           r == a % 4
           s == b \div 16
<1>1. q \in Nat /\ r \in Nat /\ 4 * q + r = a /\ s \in Nat /\ s < 16
    OBVIOUS
<1> HIDE DEF q, r, s
<1>2. (r * 16 + s) \div 16 = r
    BY <1>1
<1>3. q * 4 + (r * 16 + s) \div 16 = a
    BY <1>1, <1>2
<1> QED BY <1>3 DEF q, r, s

LEMMA SecondByte ==
    ASSUME NEW a \in Nat, NEW b \in Nat, b <= 255, NEW c \in Nat, c <= 255
    PROVE  (((a % 4) * 16 + b \div 16) % 16) * 16 + ((b % 16) * 4 + c \div 64) \div 4 = b
<1> DEFINE q == a % 4
           r == b \div 16
           s == b % 16
           u == c \div 64
<1>1. q \in Nat /\ r \in Nat /\ s \in Nat /\ 16 * r + s = b /\ r < 16 /\ u \in Nat /\ u < 4
    OBVIOUS
<1> HIDE DEF q, r, s, u
<1>2. (q * 16 + r) % 16 = r
    BY <1>1
<1>3. (s * 4 + u) \div 4 = s
    BY <1>1
<1>4. ((q * 16 + r) % 16) * 16 + (s * 4 + u) \div 4 = b
    BY <1>1, <1>2, <1>3
<1> QED BY <1>4 DEF q, r, s, u

LEMMA ThirdByte ==
    ASSUME NEW b \in Nat, NEW c \in Nat, c <= 255
    PROVE  (((b % 16) * 4 + c \div 64) % 4) * 64 + (c % 64) = c
<1> DEFINE q == b % 16
           r == c \div 64
           s == c % 64
<1>1. q \in Nat /\ r \in Nat /\ s \in Nat /\ 64 * r + s = c /\ r < 4
    OBVIOUS
<1> HIDE DEF q, r, s
<1>2. (q * 4 + r) % 4 = r
    BY <1>1
<1>3. ((q * 4 + r) % 4) * 64 + s = c
    BY <1>1, <1>2
<1> QED BY <1>3 DEF q, r, s

\* What is read of a group of m bytes.
Regained(w, c, ig, m) ==
    /\ w \in Seq(Octet) /\ Len(w) = m /\ \A j \in 1..m : w[j] = ig[j]
    /\ (\E j \in 1..4 : c[j] = ES) <=> m # 3

Four(g) == [j \in 1..4 |-> index_64(g[j])]

LEMMA UngroupGroup ==
    ASSUME NEW a \in Octet, NEW b \in Octet, NEW c \in Octet, NEW m \in 1..3, NEW ig,
           ig[1] = a, ig[2] = b, ig[3] = c
    PROVE  Regained(Ungroup(Four(Group(ig, m))), Four(Group(ig, m)), ig, m)
<1> DEFINE s1 == a \div 4
           s2 == (a % 4) * 16 + b \div 16
           s3 == (b % 16) * 4 + c \div 64
           s4 == c % 64
           g == Group(ig, m)
           f == Four(g)
           e3 == IF m > 1 THEN s3 ELSE ES
           e4 == IF m > 2 THEN s4 ELSE ES
           x == f[1] * 4 + f[2] \div 16
           y == (f[2] % 16) * 16 + f[3] \div 4
           z == (f[3] % 4) * 64 + f[4]
           n == IF f[3] = ES THEN 1 ELSE IF f[4] = ES THEN 2 ELSE 3
           t == <<x, y, z>>
<1>1. a \in Nat /\ a <= 255 /\ b \in Nat /\ b <= 255 /\ c \in Nat /\ c <= 255
    BY OctetIs
<1>2. /\ s1 \in Nat /\ s1 < 64 /\ s2 \in Nat /\ s2 < 64
      /\ s3 \in Nat /\ s3 < 64 /\ s4 \in Nat /\ s4 < 64
    BY <1>1, Sextets
<1>3. s1 * 4 + s2 \div 16 = a /\ (s2 % 16) * 16 + s3 \div 4 = b /\ (s3 % 4) * 64 + s4 = c
    BY <1>1, FirstByte, SecondByte, ThirdByte
<1>4. g = <<dtable(s1), dtable(s2), IF m > 1 THEN dtable(s3) ELSE Pad, IF m > 2 THEN dtable(s4) ELSE Pad>>
    BY Zenon DEF Group
<1> HIDE DEF s1, s2, s3, s4, g
<1>5. /\ g[1] = dtable(s1) /\ g[2] = dtable(s2) /\ g[3] = (IF m > 1 THEN dtable(s3) ELSE Pad)
      /\ g[4] = (IF m > 2 THEN dtable(s4) ELSE Pad)
    BY <1>4
<1>6. /\ index_64(dtable(s1)) = s1 /\ index_64(dtable(s2)) = s2 /\ index_64(dtable(s3)) = s3
      /\ index_64(dtable(s4)) = s4 /\ index_64(Pad) = ES
    BY <1>2, CharBack, PadIndex
<1>7. f[1] = s1 /\ f[2] = s2 /\ f[3] = e3 /\ f[4] = e4
    <2>1. f[1] = index_64(g[1]) /\ f[2] = index_64(g[2]) /\ f[3] = index_64(g[3]) /\ f[4] = index_64(g[4])
        BY DEF Four
    <2> HIDE DEF f
    <2> QED BY <1>5, <1>6, <2>1
<1>8. ES < 0 /\ ES \in Int
    BY PadIndex DEF ES
<1>9. f[1] # ES /\ f[2] # ES
    BY <1>2, <1>7, <1>8
<1>10. Ungroup(f) = SubSeq(t, 1, n)
    <2> HIDE DEF f
    <2>1. ES \notin {f[1], f[2]}
        BY <1>9
    <2> QED BY <2>1, Zenon DEF Ungroup, n, t, x, y, z
<1> HIDE DEF f
<1>11. n = m /\ ((\E j \in 1..4 : f[j] = ES) <=> m # 3)
    <2>1. s3 # ES /\ s4 # ES
        BY <1>2, <1>8
    <2>2. CASE m = 1
        BY <1>7, <2>1, <2>2
    <2>3. CASE m = 2
        BY <1>7, <2>1, <2>3
    <2>4. CASE m = 3
        <3>1. f[3] # ES /\ f[4] # ES
            BY <1>7, <2>1, <2>4
        <3> QED BY <1>9, <2>4, <3>1
    <2> QED BY <2>2, <2>3, <2>4
<1>12. x = a /\ (m > 1 => y = b) /\ (m > 2 => z = c)
    BY <1>3, <1>7
<1> HIDE DEF x, y, z, n
<1>13. t[1] = x /\ t[2] = y /\ t[3] = z /\ t \in Seq({x, y, z}) /\ Len(t) = 3
    OBVIOUS
<1> HIDE DEF t
<1> DEFINE w == SubSeq(t, 1, m)
<1>14. Len(w) = m /\ w \in Seq({x, y, z}) /\ \A j \in 1..m : w[j] = t[j]
    BY <1>13
<1> HIDE DEF w
<1>15. \A j \in 1..m : w[j] = ig[j] /\ w[j] \in Octet
    <2>1. CASE m = 1
        BY <1>12, <1>13, <1>14, <2>1
    <2>2. CASE m = 2
        BY <1>12, <1>13, <1>14, <2>2
    <2>3. CASE m = 3
        BY <1>12, <1>13, <1>14, <2>3
    <2> QED BY <2>1, <2>2, <2>3
<1>16. w \in Seq(Octet)
    <2> DEFINE S == Octet
    <2> HIDE DEF S
    <2>1. \A j \in 1..Len(w) : w[j] \in S
        BY <1>14, <1>15 DEF S
    <2>2. w \in Seq(S)
        BY <1>14, <2>1, SeqOfElements
    <2> QED BY <2>2 DEF S
<1>17. Ungroup(f) = w
    BY <1>10, <1>11 DEF w
<1>18. Regained(w, f, ig, m)
    BY <1>11, <1>14, <1>15, <1>16 DEF Regained
<1> QED BY <1>17, <1>18 DEF f, g

LEMMA GroupChars ==
    ASSUME NEW a \in Octet, NEW b \in Octet, NEW c \in Octet, NEW m, NEW ig,
           ig[1] = a, ig[2] = b, ig[3] = c, NEW j \in 1..4
    PROVE  Group(ig, m)[j] \in Octet /\ index_64(Group(ig, m)[j]) # XX
<1> DEFINE s1 == a \div 4
           s2 == (a % 4) * 16 + b \div 16
           s3 == (b % 16) * 4 + c \div 64
           s4 == c % 64
           g == Group(ig, m)
           Good(x) == x \in Octet /\ index_64(x) # XX
<1>1. a \in Nat /\ a <= 255 /\ b \in Nat /\ b <= 255 /\ c \in Nat /\ c <= 255
    BY OctetIs
<1>2. /\ s1 \in Nat /\ s1 < 64 /\ s2 \in Nat /\ s2 < 64
      /\ s3 \in Nat /\ s3 < 64 /\ s4 \in Nat /\ s4 < 64
    BY <1>1, Sextets
<1>3. g = <<dtable(s1), dtable(s2), IF m > 1 THEN dtable(s3) ELSE Pad, IF m > 2 THEN dtable(s4) ELSE Pad>>
    BY Zenon DEF Group
<1> HIDE DEF s1, s2, s3, s4, g
<1>4. ASSUME NEW d \in Nat, d < 64
      PROVE  Good(dtable(d))
    <2> DEFINE x == dtable(d)
    <2>1. x \in Nat /\ x <= 255 /\ index_64(x) = d
        BY <1>4, CharBack
    <2> HIDE DEF x
    <2>2. x \in Octet
        BY <2>1 DEF Octet
    <2>3. index_64(x) # XX
        BY <1>4, <2>1, PadIndex
    <2> QED BY <2>2, <2>3 DEF x
<1>5. Good(Pad)
    BY PadIndex DEF Octet, Pad
<1> HIDE DEF Good
<1>6. Good(dtable(s1)) /\ Good(dtable(s2)) /\ Good(dtable(s3)) /\ Good(dtable(s4))
    BY <1>2, <1>4
<1>7. Good(g[1]) /\ Good(g[2]) /\ Good(g[3]) /\ Good(g[4])
    BY <1>3, <1>5, <1>6
<1>8. Good(g[j])
    BY <1>7
<1> QED BY <1>8 DEF Good, g

\* The function that the characters which are kept are defined by.
KeptUpto(text) ==
    CHOOSE F : F = [i \in 0..Len(text) |->
                      IF i = 0 THEN <<>>
                      ELSE IF index_64(text[i]) = XX THEN F[i - 1] ELSE Append(F[i - 1], text[i])]
KeepStep(s, text, i) == IF index_64(text[i]) = XX THEN s ELSE Append(s, text[i])
KeepStays(S, text) ==
    /\ <<>> \in S /\ Len(text) \in Nat
    /\ \A i \in 1..Len(text) : \A s \in S : KeepStep(s, text, i) \in S

LEMMA KeepRecursion ==
    ASSUME NEW S, NEW text, KeepStays(S, text)
    PROVE  /\ KeptUpto(text) \in [0..Len(text) -> S] /\ KeptUpto(text)[0] = <<>>
           /\ \A i \in 1..Len(text) : KeptUpto(text)[i] = KeepStep(KeptUpto(text)[i - 1], text, i)
<1> DEFINE m == Len(text)
           z == <<>>
           step == [i \in 1..m |-> [s \in S |-> KeepStep(s, text, i)]]
           Solves(F) == F = [i \in 0..m |-> IF i = 0 THEN z ELSE KeepStep(F[i - 1], text, i)]
<1>0. m \in Nat
    BY DEF KeepStays
<1>1. z \in S /\ \A i \in 1..m : \A s \in S : KeepStep(s, text, i) \in S
    BY DEF KeepStays
<1> HIDE DEF m, z
<1>2. step \in [1..m -> [S -> S]]
    BY <1>1
<1>3. PICK f \in [0..m -> S] : f[0] = z /\ \A i \in 1..m : f[i] = step[i][f[i - 1]]
    <2>1. z \in S /\ m \in Nat
        BY <1>0, <1>1
    <2> HIDE DEF step
    <2>2. \E f \in [0..m -> S] : f[0] = z /\ \A i \in 1..m : f[i] = step[i][f[i - 1]]
        BY ONLY <1>2, <2>1, PrimitiveRecursion
    <2> QED BY <2>2, Zenon
<1>4. Solves(f)
    <2>1. ASSUME NEW i \in 0..m
          PROVE  f[i] = IF i = 0 THEN z ELSE KeepStep(f[i - 1], text, i)
        <3>1. CASE i = 0
            BY <1>3, <3>1
        <3>2. CASE i # 0
            <4>1. i \in 1..m /\ f[i - 1] \in S
                BY <1>0, <3>2
            <4>2. f[i] = step[i][f[i - 1]]
                BY <1>3, <4>1
            <4>3. step[i][f[i - 1]] = KeepStep(f[i - 1], text, i)
                <5> DEFINE y == f[i - 1]
                <5>1. y \in S
                    BY <4>1
                <5> HIDE DEF y
                <5>2. step[i][y] = KeepStep(y, text, i)
                    BY <4>1, <5>1
                <5> QED BY <5>2 DEF y
            <4> QED BY <3>2, <4>2, <4>3
        <3> QED BY <3>1, <3>2
    <2>2. f = [i \in 0..m |-> f[i]]
        OBVIOUS
    <2> HIDE DEF step
    <2> QED BY <2>1, <2>2
<1> HIDE DEF step
<1> DEFINE T == KeptUpto(text)
<1>5. Solves(T)
    <2>1. T = CHOOSE F : Solves(F)
        BY Zenon DEF KeptUpto, KeepStep, m, z
    <2> HIDE DEF Solves
    <2> QED BY <1>4, <2>1
<1> HIDE DEF T
<1>6. DOMAIN T = 0..m /\ T = [i \in 0..m |-> T[i]]
    BY <1>5
<1>7. \A i \in 0..m : T[i] = IF i = 0 THEN z ELSE KeepStep(T[i - 1], text, i)
    BY <1>5
<1> HIDE DEF Solves
<1>8. T[0] = z /\ \A i \in 1..m : T[i] = KeepStep(T[i - 1], text, i)
    BY <1>0, <1>7
<1> DEFINE G == {i \in 0..m : T[i] \in S}
<1>9. 0 \in G
    BY <1>0, <1>1, <1>8
<1>10. ASSUME NEW i \in 1..m, i - 1 \in G
       PROVE  i \in G
    BY <1>1, <1>8, <1>10
<1>11. 0..m \subseteq G
    <2> HIDE DEF G
    <2> QED BY <1>0, <1>9, <1>10, BoundedInduction
<1>12. T \in [0..m -> S]
    BY <1>6, <1>11
<1> QED BY <1>8, <1>12 DEF T, m, z


\* f counts the characters that are kept: they are t.
KeepsAs(text, t, f) ==
    /\ f \in [0..Len(text) -> 0..Len(t)] /\ f[0] = 0 /\ f[Len(text)] = Len(t)
    /\ \A i \in 1..Len(text) :
         \/ index_64(text[i]) = XX /\ f[i] = f[i - 1]
         \/ index_64(text[i]) # XX /\ f[i] = f[i - 1] + 1 /\ text[i] = t[f[i]]

LEMMA KeptIs ==
    ASSUME NEW text \in Seq(Octet), NEW t \in Seq(Octet), NEW f, KeepsAs(text, t, f)
    PROVE  KeptUpto(text)[Len(text)] = t
<1> DEFINE S == Seq(Octet)
           K == KeptUpto(text)
           n == Len(text)
           l == Len(t)
<1>1. <<>> \in S /\ n \in Nat /\ l \in Nat
    BY LenProperties
<1>2. ASSUME NEW i \in 1..n, NEW s \in S
      PROVE  KeepStep(s, text, i) \in S
    <2>1. text[i] \in Octet
        BY ElementOfSeq
    <2>2. Append(s, text[i]) \in S
        BY <2>1, AppendProperties
    <2> QED BY <2>2 DEF KeepStep
<1> HIDE DEF S
<1>3. KeepStays(S, text)
    BY <1>1, <1>2 DEF KeepStays
<1>4. K[0] = <<>> /\ \A i \in 1..n : K[i] = KeepStep(K[i - 1], text, i)
    BY ONLY <1>3, KeepRecursion
<1>5. /\ f \in [0..n -> 0..l] /\ f[0] = 0 /\ f[n] = l
      /\ \A i \in 1..n : \/ index_64(text[i]) = XX /\ f[i] = f[i - 1]
                         \/ index_64(text[i]) # XX /\ f[i] = f[i - 1] + 1 /\ text[i] = t[f[i]]
    BY DEF KeepsAs
<1> HIDE DEF K, n, l
<1>11. f \in [0..n -> 0..l] /\ f[0] = 0 /\ f[n] = l
    BY <1>5
<1> DEFINE G == {i \in 0..n : K[i] = SubSeq(t, 1, f[i])}
<1>6. 0 \in G
    <2>1. SubSeq(t, 1, 0) = <<>>
        OBVIOUS
    <2>2. K[0] = SubSeq(t, 1, f[0])
        BY <1>4, <1>11, <2>1
    <2> QED BY <1>1, <2>2
<1>7. ASSUME NEW i \in 1..n, i - 1 \in G
      PROVE  i \in G
    <2>1. K[i - 1] = SubSeq(t, 1, f[i - 1]) /\ K[i] = KeepStep(K[i - 1], text, i)
        BY <1>4, <1>7
    <2>2. f[i] \in 0..l /\ f[i - 1] \in 0..l
        BY <1>1, <1>11
    <2>3. CASE index_64(text[i]) = XX /\ f[i] = f[i - 1]
        <3>1. K[i] = K[i - 1]
            BY <2>1, <2>3 DEF KeepStep
        <3> QED BY <2>1, <2>3, <3>1
    <2>4. CASE index_64(text[i]) # XX /\ f[i] = f[i - 1] + 1 /\ text[i] = t[f[i]]
        <3> DEFINE k == f[i]
        <3>1. k \in 1..Len(t) /\ f[i - 1] = k - 1
            BY <1>1, <2>2, <2>4 DEF l
        <3>2. K[i] = Append(SubSeq(t, 1, k - 1), t[k])
            BY <2>1, <2>4, <3>1 DEF KeepStep
        <3> HIDE DEF k
        <3>3. SubSeq(t, 1, k) = Append(SubSeq(t, 1, k - 1), t[k])
            BY ONLY <3>1, t \in Seq(Octet), PrefixNext
        <3>4. K[i] = SubSeq(t, 1, f[i])
            BY <3>2, <3>3 DEF k
        <3> QED BY <3>4
    <2> QED BY <1>5, <2>3, <2>4
<1>8. 0..n \subseteq G
    <2> HIDE DEF G
    <2> QED BY ONLY <1>1, <1>6, <1>7, BoundedInduction
<1>9. K[n] = SubSeq(t, 1, l)
    <2>1. n \in G
        BY <1>1, <1>8
    <2> QED BY <1>11, <2>1
<1>10. SubSeq(t, 1, l) = t
    BY DEF l
<1> QED BY <1>9, <1>10 DEF K, n

\* What is read of the characters that are kept.
FourAt(t, k) == [j \in 1..4 |-> index_64(t[4 * k - 4 + j])]
Ending(t) == {k \in 1..(Len(t) \div 4) : \E j \in 1..4 : FourAt(t, k)[j] = ES}
Astray(text, t) == Len(t) % 4 # 0 \/ (text # <<>> /\ index_64(text[Len(text)]) = XX)
DecodedUpto(t) ==
    CHOOSE F : F = [k \in 0..(Len(t) \div 4) |->
                      IF k = 0 THEN <<>>
                      ELSE IF \E j \in Ending(t) : j < k THEN F[k - 1] ELSE F[k - 1] \o Ungroup(FourAt(t, k))]
Fours(t) == Len(t) \div 4
DecodeStep(s, t, k) == IF \E j \in Ending(t) : j < k THEN s ELSE s \o Ungroup(FourAt(t, k))
DecodeStays(S, t) ==
    /\ <<>> \in S /\ Fours(t) \in Nat
    /\ \A k \in 1..Fours(t) : \A s \in S : DecodeStep(s, t, k) \in S

LEMMA DecodeIs ==
    ASSUME NEW text, NEW t, t = KeptUpto(text)[Len(text)]
    PROVE  dsDecodeBase64(text) = IF Ending(t) = {} /\ Astray(text, t) THEN {} ELSE {DecodedUpto(t)[Fours(t)]}
<1> DEFINE Result(u) == IF Ending(u) = {} /\ Astray(text, u) THEN {} ELSE {DecodedUpto(u)[Fours(u)]}
<1>1. dsDecodeBase64(text) = Result(KeptUpto(text)[Len(text)])
    BY Zenon DEF dsDecodeBase64, KeptUpto, Ending, Astray, DecodedUpto, FourAt, Fours
<1> HIDE DEF Result
<1>2. dsDecodeBase64(text) = Result(t)
    BY <1>1
<1> QED BY <1>2 DEF Result

LEMMA DecodeRecursion ==
    ASSUME NEW S, NEW t, DecodeStays(S, t)
    PROVE  /\ DecodedUpto(t) \in [0..Fours(t) -> S] /\ DecodedUpto(t)[0] = <<>>
           /\ \A i \in 1..Fours(t) : DecodedUpto(t)[i] = DecodeStep(DecodedUpto(t)[i - 1], t, i)
<1> DEFINE m == Fours(t)
           z == <<>>
           step == [i \in 1..m |-> [s \in S |-> DecodeStep(s, t, i)]]
           Solves(F) == F = [i \in 0..m |-> IF i = 0 THEN z ELSE DecodeStep(F[i - 1], t, i)]
<1>0. m \in Nat
    BY DEF DecodeStays
<1>1. z \in S /\ \A i \in 1..m : \A s \in S : DecodeStep(s, t, i) \in S
    BY DEF DecodeStays
<1> HIDE DEF m, z
<1>2. step \in [1..m -> [S -> S]]
    BY <1>1
<1>3. PICK f \in [0..m -> S] : f[0] = z /\ \A i \in 1..m : f[i] = step[i][f[i - 1]]
    <2>1. z \in S /\ m \in Nat
        BY <1>0, <1>1
    <2> HIDE DEF step
    <2>2. \E f \in [0..m -> S] : f[0] = z /\ \A i \in 1..m : f[i] = step[i][f[i - 1]]
        BY ONLY <1>2, <2>1, PrimitiveRecursion
    <2> QED BY <2>2, Zenon
<1>4. Solves(f)
    <2>1. ASSUME NEW i \in 0..m
          PROVE  f[i] = IF i = 0 THEN z ELSE DecodeStep(f[i - 1], t, i)
        <3>1. CASE i = 0
            BY <1>3, <3>1
        <3>2. CASE i # 0
            <4>1. i \in 1..m /\ f[i - 1] \in S
                BY <1>0, <3>2
            <4>2. f[i] = step[i][f[i - 1]]
                BY <1>3, <4>1
            <4>3. step[i][f[i - 1]] = DecodeStep(f[i - 1], t, i)
                <5> DEFINE y == f[i - 1]
                <5>1. y \in S
                    BY <4>1
                <5> HIDE DEF y
                <5>2. step[i][y] = DecodeStep(y, t, i)
                    BY <4>1, <5>1
                <5> QED BY <5>2 DEF y
            <4> QED BY <3>2, <4>2, <4>3
        <3> QED BY <3>1, <3>2
    <2>2. f = [i \in 0..m |-> f[i]]
        OBVIOUS
    <2> HIDE DEF step
    <2> QED BY <2>1, <2>2
<1> HIDE DEF step
<1> DEFINE T == DecodedUpto(t)
<1>5. Solves(T)
    <2>1. T = CHOOSE F : Solves(F)
        BY Zenon DEF DecodedUpto, DecodeStep, Fours, m, z
    <2> HIDE DEF Solves
    <2> QED BY <1>4, <2>1
<1> HIDE DEF T
<1>6. DOMAIN T = 0..m /\ T = [i \in 0..m |-> T[i]]
    BY <1>5
<1>7. \A i \in 0..m : T[i] = IF i = 0 THEN z ELSE DecodeStep(T[i - 1], t, i)
    BY <1>5
<1> HIDE DEF Solves
<1>8. T[0] = z /\ \A i \in 1..m : T[i] = DecodeStep(T[i - 1], t, i)
    BY <1>0, <1>7
<1> DEFINE G == {i \in 0..m : T[i] \in S}
<1>9. 0 \in G
    BY <1>0, <1>1, <1>8
<1>10. ASSUME NEW i \in 1..m, i - 1 \in G
       PROVE  i \in G
    BY <1>1, <1>8, <1>10
<1>11. 0..m \subseteq G
    <2> HIDE DEF G
    <2> QED BY <1>0, <1>9, <1>10, BoundedInduction
<1>12. T \in [0..m -> S]
    BY <1>6, <1>11
<1> QED BY <1>8, <1>12 DEF T, m, z

\* The groups of data, and the characters of one.
Groups(n) == IF n % 3 = 0 THEN n \div 3 ELSE n \div 3 + 1
Taken(src, k) == [j \in 1..3 |-> IF 3 * k - 3 + j <= Len(src) THEN src[3 * k - 3 + j] ELSE 0]
Size(n, k) == IF 3 * k <= n THEN 3 ELSE n % 3
GroupOf(src, k) == Group(Taken(src, k), Size(Len(src), k))

\* dsEncodeBase64 with the end of the data.
EncodeWith(src, end) ==
    LET groups == IF end = Len(src) /\ end % 3 = 0 THEN end \div 3 ELSE end \div 3 + 1
        At(i) == IF i <= end THEN src[i] ELSE 0
        Chars(k) == Group([j \in 1..3 |-> At(3 * k - 3 + j)], IF 3 * k <= end THEN 3 ELSE end % 3)
    IN [i \in 1..(4 * groups) |-> Chars((i + 3) \div 4)[((i - 1) % 4) + 1]]

NoZero(src) == \A i \in 1..Len(src) : src[i] # 0

LEMMA EncodeIs ==
    ASSUME NEW src \in Seq(Octet), NoZero(src)
    PROVE  dsEncodeBase64(src) =
             [i \in 1..(4 * Groups(Len(src))) |-> GroupOf(src, (i + 3) \div 4)[((i - 1) % 4) + 1]]
<1> DEFINE n == Len(src)
           Ends(i) == (\A j \in 1..i : src[j] # 0) /\ (i = Len(src) \/ src[i + 1] = 0)
           end == CHOOSE i \in 0..Len(src) : Ends(i)
<1>1. n \in Nat
    BY LenProperties
<1>2. end = n
    <2>1. n \in 0..Len(src) /\ Ends(n)
        BY <1>1 DEF NoZero
    <2>2. ASSUME NEW i \in 0..Len(src), Ends(i)
          PROVE  i = n
        <3>1. CASE i # n
            <4>1. i + 1 \in 1..Len(src) /\ src[i + 1] = 0
                BY <1>1, <2>2, <3>1
            <4> QED BY <4>1 DEF NoZero
        <3> QED BY <3>1
    <2> HIDE DEF Ends, n
    <2> QED BY <2>1, <2>2
<1>3. dsEncodeBase64(src) = EncodeWith(src, end)
    BY Zenon DEF dsEncodeBase64, EncodeWith
<1> HIDE DEF end
<1>4. dsEncodeBase64(src) = EncodeWith(src, Len(src))
    BY <1>2, <1>3
<1>5. EncodeWith(src, Len(src)) =
        [i \in 1..(4 * Groups(Len(src))) |-> GroupOf(src, (i + 3) \div 4)[((i - 1) % 4) + 1]]
    BY Zenon DEF EncodeWith, Groups, GroupOf, Taken, Size
<1> QED BY <1>4, <1>5

LEMMA GroupBounds ==
    ASSUME NEW n \in Nat, NEW k \in 1..Groups(n)
    PROVE  /\ Groups(n) \in Nat /\ 3 * k - 3 < n
           /\ Size(n, k) \in 1..3 /\ 3 * k - 3 + Size(n, k) <= n
           /\ (k < Groups(n) => Size(n, k) = 3) /\ (k = Groups(n) => 3 * k - 3 + Size(n, k) = n)
<1> DEFINE q == n \div 3
           r == n % 3
<1>1. q \in Nat /\ r \in Nat /\ r < 3 /\ n = 3 * q + r
    OBVIOUS
<1>2. CASE r = 0
    <2>1. Groups(n) = q
        BY <1>2 DEF Groups
    <2>2. k \in 1..q
        BY <2>1
    <2>3. 3 * k <= n
        BY <1>1, <1>2, <2>2
    <2>4. Size(n, k) = 3
        BY <2>3 DEF Size
    <2> HIDE DEF q, r
    <2> QED BY <1>1, <1>2, <2>1, <2>2, <2>4
<1>3. CASE r # 0
    <2>1. Groups(n) = q + 1
        BY <1>3 DEF Groups
    <2>2. k \in 1..(q + 1)
        BY <2>1
    <2> HIDE DEF q, r
    <2>3. CASE k = q + 1
        <3>1. ~(3 * k <= n)
            BY <1>1, <2>3
        <3>2. Size(n, k) = r
            BY <3>1 DEF Size, r
        <3> QED BY <1>1, <1>3, <2>1, <2>3, <3>2
    <2>4. CASE k # q + 1
        <3>1. 3 * k <= n
            BY <1>1, <2>2, <2>4
        <3>2. Size(n, k) = 3
            BY <3>1 DEF Size
        <3> QED BY <1>1, <2>1, <2>2, <2>4, <3>1, <3>2
    <2> QED BY <2>3, <2>4
<1> QED BY <1>2, <1>3

LEMMA GroupsTyped ==
    ASSUME NEW n \in Nat
    PROVE  Groups(n) \in Nat /\ (Groups(n) = 0 <=> n = 0)
<1>1. n \div 3 \in Nat /\ n % 3 \in Nat /\ n = 3 * (n \div 3) + (n % 3)
    OBVIOUS
<1> DEFINE q == n \div 3
           r == n % 3
<1>2. Groups(n) = IF r = 0 THEN q ELSE q + 1
    BY DEF Groups
<1> HIDE DEF q, r
<1> QED BY <1>1, <1>2 DEF q, r

LEMMA TakenTyped ==
    ASSUME NEW src \in Seq(Octet), NEW k \in 1..Groups(Len(src))
    PROVE  Taken(src, k)[1] \in Octet /\ Taken(src, k)[2] \in Octet /\ Taken(src, k)[3] \in Octet
<1> DEFINE n == Len(src)
           x == Taken(src, k)
<1>1. n \in Nat
    BY LenProperties
<1>2. 0 \in Octet
    BY DEF Octet
<1>3. k \in Nat /\ k >= 1
    <2>1. Groups(n) \in Nat
        BY <1>1, GroupsTyped
    <2> QED BY <2>1
<1>4. ASSUME NEW j \in 1..3
      PROVE  x[j] \in Octet
    <2> DEFINE i == 3 * k - 3 + j
    <2>1. x[j] = IF i <= n THEN src[i] ELSE 0
        BY DEF Taken
    <2>2. i \in Nat /\ i >= 1
        BY <1>3
    <2> HIDE DEF x, i
    <2>3. i <= n => src[i] \in Octet
        BY <1>1, <2>2, ElementOfSeq
    <2> HIDE DEF n
    <2> QED BY <1>2, <2>1, <2>3
<1> HIDE DEF x
<1> QED BY <1>4 DEF x

\* The text that is made of data.
IsBase64(t, src) ==
    /\ t \in Seq(Octet) /\ Len(t) = 4 * Groups(Len(src))
    /\ \A i \in 1..Len(t) : index_64(t[i]) # XX
    /\ \A k \in 1..Groups(Len(src)) : \A j \in 1..4 : t[4 * k - 4 + j] = GroupOf(src, k)[j]

LEMMA TextIs ==
    ASSUME NEW src \in Seq(Octet), NoZero(src)
    PROVE  IsBase64(dsEncodeBase64(src), src)
<1> DEFINE t == dsEncodeBase64(src)
           g == Groups(Len(src))
           At(i) == GroupOf(src, (i + 3) \div 4)[((i - 1) % 4) + 1]
           m == 4 * g
<1>1. t = [i \in 1..m |-> At(i)]
    BY EncodeIs
<1>2. g \in Nat
    BY LenProperties, GroupsTyped
<1> HIDE DEF t, g
<1>3. ASSUME NEW k \in 1..g, NEW j \in 1..4
      PROVE  GroupOf(src, k)[j] \in Octet /\ index_64(GroupOf(src, k)[j]) # XX
    <2> DEFINE ig == Taken(src, k)
    <2>1. ig[1] \in Octet /\ ig[2] \in Octet /\ ig[3] \in Octet
        BY TakenTyped DEF g
    <2> HIDE DEF ig
    <2>2. Group(ig, Size(Len(src), k))[j] \in Octet /\ index_64(Group(ig, Size(Len(src), k))[j]) # XX
        BY <2>1, GroupChars
    <2> QED BY <2>2 DEF ig, GroupOf
<1>4. ASSUME NEW i \in 1..m
      PROVE  At(i) \in Octet /\ index_64(At(i)) # XX
    <2> DEFINE k == (i + 3) \div 4
               j == ((i - 1) % 4) + 1
    <2>1. k \in 1..g /\ j \in 1..4
        BY <1>2
    <2> HIDE DEF k, j
    <2>2. GroupOf(src, k)[j] \in Octet /\ index_64(GroupOf(src, k)[j]) # XX
        BY <1>3, <2>1
    <2> QED BY <2>2 DEF k, j
<1>5. ASSUME NEW k \in 1..g, NEW j \in 1..4
      PROVE  4 * k - 4 + j \in 1..m /\ At(4 * k - 4 + j) = GroupOf(src, k)[j]
    <2>1. (4 * k - 4 + j) + 3 \in Int /\ ((4 * k - 4 + j) + 3) \div 4 = k
        BY <1>2
    <2>2. (((4 * k - 4 + j) - 1) % 4) + 1 = j
        BY <1>2
    <2>3. 4 * k - 4 + j \in 1..m
        BY <1>2
    <2> QED BY <2>1, <2>2, <2>3
<1> HIDE DEF At
<1>6. m \in Nat
    BY <1>2
<1> HIDE DEF m
<1>7. t \in [1..m -> Octet]
    BY <1>1, <1>4
<1>8. t \in Seq(Octet) /\ Len(t) = m
    BY ONLY <1>6, <1>7, OctetsAreSeq
<1>9. \A i \in 1..m : index_64(t[i]) # XX
    BY <1>1, <1>4
<1>10. \A k \in 1..g : \A j \in 1..4 : t[4 * k - 4 + j] = GroupOf(src, k)[j]
    BY <1>1, <1>5
<1>11. IsBase64(t, src)
    BY <1>8, <1>9, <1>10 DEF IsBase64, g, m
<1> QED BY <1>11 DEF t

LEMMA FourIs ==
    ASSUME NEW src \in Seq(Octet), NEW t, IsBase64(t, src), NEW k \in 1..Groups(Len(src))
    PROVE  FourAt(t, k) = Four(GroupOf(src, k))
<1>1. \A j \in 1..4 : t[4 * k - 4 + j] = GroupOf(src, k)[j]
    BY Zenon DEF IsBase64
<1> DEFINE g == GroupOf(src, k)
           At(j) == t[4 * k - 4 + j]
<1>2. \A j \in 1..4 : At(j) = g[j]
    BY <1>1
<1> HIDE DEF g, At
<1>3. [j \in 1..4 |-> index_64(At(j))] = [j \in 1..4 |-> index_64(g[j])]
    BY <1>2
<1> QED BY <1>3, Zenon DEF At, g, FourAt, Four

LEMMA GroupRead ==
    ASSUME NEW src \in Seq(Octet), NEW t, IsBase64(t, src), NEW k \in 1..Groups(Len(src))
    PROVE  Regained(Ungroup(FourAt(t, k)), FourAt(t, k), Taken(src, k), Size(Len(src), k))
<1> DEFINE ig == Taken(src, k)
           m == Size(Len(src), k)
<1>1. ig[1] \in Octet /\ ig[2] \in Octet /\ ig[3] \in Octet
    BY TakenTyped
<1>2. m \in 1..3
    BY LenProperties, GroupBounds
<1>3. FourAt(t, k) = Four(Group(ig, m))
    BY FourIs, Zenon DEF GroupOf
<1> HIDE DEF ig, m
<1>4. Regained(Ungroup(Four(Group(ig, m))), Four(Group(ig, m)), ig, m)
    BY <1>1, <1>2, UngroupGroup
<1> QED BY <1>3, <1>4 DEF ig, m

\* The data up to the k-th group.
Part(src, k) == SubSeq(src, 1, IF k = Groups(Len(src)) THEN Len(src) ELSE 3 * k)

LEMMA PartNext ==
    ASSUME NEW src \in Seq(Octet), NEW k \in 1..Groups(Len(src)), NEW w \in Seq(Octet),
           Len(w) = Size(Len(src), k), \A j \in 1..Len(w) : w[j] = Taken(src, k)[j]
    PROVE  Part(src, k - 1) \o w = Part(src, k)
<1> DEFINE n == Len(src)
           g == Groups(n)
           m == Size(n, k)
           e == IF k = g THEN n ELSE 3 * k
           x == SubSeq(src, 1, 3 * k - 3)
           y == SubSeq(src, 1, e)
           z == x \o w
<1>1. n \in Nat
    BY LenProperties
<1>2. /\ g \in Nat /\ 3 * k - 3 < n /\ m \in 1..3 /\ 3 * k - 3 + m <= n
      /\ (k < g => m = 3) /\ (k = g => 3 * k - 3 + m = n)
    BY <1>1, GroupBounds
<1>3. Part(src, k - 1) = x
    <2>1. k - 1 # g /\ 3 * (k - 1) = 3 * k - 3
        BY <1>2
    <2> QED BY <2>1, Zenon DEF Part
<1>4. Part(src, k) = y
    BY Zenon DEF Part
<1> HIDE DEF g, m
<1>5. k \in Nat /\ k >= 1 /\ k <= g
    BY <1>2 DEF g
<1>6. e \in Nat /\ e = 3 * k - 3 + m /\ e <= n
    BY <1>1, <1>2, <1>5
<1>7. \A i \in 1..n : src[i] \in Octet
    BY ElementOfSeq
<1> DEFINE b == 3 * k - 3
<1>8. b \in Nat /\ b < n /\ e = b + m
    BY <1>2, <1>5, <1>6
<1> HIDE DEF e, b
<1>9. x \in Seq(Octet) /\ Len(x) = b /\ \A i \in 1..b : x[i] = src[i]
    <2>1. x = SubSeq(src, 1, b)
        BY DEF b
    <2>2. \A i \in 1..b : src[i] \in Octet
        BY <1>1, <1>7, <1>8
    <2> HIDE DEF x, n
    <2> QED BY <1>8, <2>1, <2>2, SubSeqProperties DEF n
<1>10. y \in Seq(Octet) /\ Len(y) = e /\ \A i \in 1..e : y[i] = src[i]
    <2>1. \A i \in 1..e : src[i] \in Octet
        BY <1>1, <1>6, <1>7
    <2> QED BY <1>6, <2>1, SubSeqProperties
<1> HIDE DEF x, y, n
<1>11. IsJoin(z, x, w)
    BY ONLY <1>9, w \in Seq(Octet), JoinTwo
<1> HIDE DEF z
<1>12. Len(w) = m
    BY DEF m, n
<1>13. z \in Seq(Octet) /\ Len(z) = e
    BY <1>8, <1>9, <1>11, <1>12 DEF IsJoin
<1>14. ASSUME NEW i \in 1..e
       PROVE  z[i] = y[i]
    <2>1. CASE i <= b
        <3>1. i \in 1..b
            BY <1>8, <2>1
        <3> QED BY <1>9, <1>10, <1>11, <3>1 DEF IsJoin
    <2>2. CASE ~(i <= b)
        <3> DEFINE j == i - b
        <3>1. j \in 1..m /\ j \in 1..3 /\ i = b + j
            BY <1>2, <1>6, <1>8, <2>2
        <3> HIDE DEF j
        <3>2. z[b + j] = w[j]
            BY <1>9, <1>11, <1>12, <3>1 DEF IsJoin
        <3>3. w[j] = Taken(src, k)[j]
            BY <1>12, <3>1
        <3>4. Taken(src, k)[j] = IF 3 * k - 3 + j <= n THEN src[3 * k - 3 + j] ELSE 0
            BY <3>1 DEF Taken, n
        <3>5. 3 * k - 3 + j = i /\ i <= n
            <4>1. 3 * k - 3 = b
                BY DEF b
            <4>2. 3 * k - 3 + j = (3 * k - 3) + j
                BY <1>5, <3>1
            <4> QED BY <1>1, <1>6, <1>8, <3>1, <4>1, <4>2
        <3> QED BY <1>10, <3>1, <3>2, <3>3, <3>4, <3>5
    <2> QED BY <2>1, <2>2
<1>15. z = y
    <2>1. z \in Seq(Octet) /\ y \in Seq(Octet) /\ Len(z) = Len(y) /\ \A i \in 1..Len(z) : z[i] = y[i]
        BY <1>10, <1>13, <1>14
    <2> QED BY ONLY <2>1, SeqEqual
<1> QED BY <1>3, <1>4, <1>15 DEF z

LEMMA DataRead ==
    ASSUME NEW src \in Seq(Octet), NEW t, IsBase64(t, src)
    PROVE  Fours(t) = Groups(Len(src)) /\ DecodedUpto(t)[Fours(t)] = src /\ Len(t) % 4 = 0
<1> DEFINE n == Len(src)
           g == Groups(n)
           D == DecodedUpto(t)
           S == Seq(Octet)
<1>1. n \in Nat /\ g \in Nat
    BY LenProperties, GroupsTyped
<1>2. Len(t) = 4 * g
    BY DEF IsBase64
<1>3. Fours(t) = g /\ Len(t) % 4 = 0
    <2> HIDE DEF g
    <2> QED BY <1>1, <1>2 DEF Fours
<1>4. ASSUME NEW k \in 1..g
      PROVE  Regained(Ungroup(FourAt(t, k)), FourAt(t, k), Taken(src, k), Size(n, k))
    BY GroupRead
<1>5. ASSUME NEW k \in 1..g, NEW j \in Ending(t)
      PROVE  ~(j < k)
    <2>1. j \in 1..g /\ \E i \in 1..4 : FourAt(t, j)[i] = ES
        BY <1>3, Zenon DEF Ending, Fours
    <2>2. Size(n, j) # 3
        BY <1>4, <2>1 DEF Regained
    <2>3. ~(j < g)
        BY <1>1, <2>1, <2>2, GroupBounds
    <2> HIDE DEF g
    <2> QED BY <1>1, <2>1, <2>3
<1>6. ASSUME NEW k \in 1..g, NEW s
      PROVE  DecodeStep(s, t, k) = s \o Ungroup(FourAt(t, k))
    BY <1>5, Zenon DEF DecodeStep
<1>7. <<>> \in S
    OBVIOUS
<1>8. ASSUME NEW k \in 1..g, NEW s \in S
      PROVE  DecodeStep(s, t, k) \in S
    <2>1. Ungroup(FourAt(t, k)) \in Seq(Octet)
        BY <1>4 DEF Regained
    <2> DEFINE u == Ungroup(FourAt(t, k))
    <2> HIDE DEF u
    <2>2. s \o u \in Seq(Octet)
        BY <2>1, ConcatProperties DEF u
    <2> QED BY <1>6, <2>2 DEF u
<1> HIDE DEF S, g
<1>9. DecodeStays(S, t)
    BY <1>1, <1>3, <1>7, <1>8 DEF DecodeStays
<1>10. D[0] = <<>> /\ \A k \in 1..g : D[k] = DecodeStep(D[k - 1], t, k)
    <2>1. D[0] = <<>> /\ \A k \in 1..Fours(t) : D[k] = DecodeStep(D[k - 1], t, k)
        BY ONLY <1>9, DecodeRecursion
    <2> QED BY <1>3, <2>1
<1> HIDE DEF D
<1> DEFINE G == {k \in 0..g : D[k] = Part(src, k)}
<1>11. Part(src, 0) = <<>>
    <2>1. (IF 0 = g THEN n ELSE 3 * 0) = 0
        <3>1. g = 0 <=> n = 0
            BY <1>1, GroupsTyped DEF g
        <3> QED BY <1>1, <3>1
    <2>2. SubSeq(src, 1, 0) = <<>>
        OBVIOUS
    <2>3. Part(src, 0) = SubSeq(src, 1, IF 0 = g THEN n ELSE 3 * 0)
        BY Zenon DEF Part, g
    <2> QED BY <2>1, <2>2, <2>3
<1>12. 0 \in G
    BY <1>1, <1>10, <1>11
<1>13. ASSUME NEW k \in 1..g, k - 1 \in G
       PROVE  k \in G
    <2> DEFINE w == Ungroup(FourAt(t, k))
    <2>1. D[k] = Part(src, k - 1) \o w
        BY <1>6, <1>10, <1>13
    <2>2. w \in Seq(Octet) /\ Len(w) = Size(n, k) /\ \A j \in 1..Size(n, k) : w[j] = Taken(src, k)[j]
        BY <1>4 DEF Regained
    <2> HIDE DEF w
    <2>3. Part(src, k - 1) \o w = Part(src, k)
        <3>1. k \in 1..Groups(Len(src)) /\ Len(w) = Size(Len(src), k) /\ \A j \in 1..Len(w) : w[j] = Taken(src, k)[j]
            BY <2>2 DEF g
        <3> QED BY ONLY <2>2, <3>1, src \in Seq(Octet), PartNext
    <2>4. D[k] = Part(src, k)
        BY ONLY <2>1, <2>3
    <2>5. k \in 0..g
        BY <1>1
    <2> QED BY <2>4, <2>5
<1>14. 0..g \subseteq G
    <2> HIDE DEF G
    <2> QED BY ONLY <1>1, <1>12, <1>13, BoundedInduction
<1>15. D[g] = Part(src, g)
    BY <1>1, <1>14
<1>16. Part(src, g) = src
    <2>1. Part(src, g) = SubSeq(src, 1, n)
        BY Zenon DEF Part, g
    <2> QED BY <2>1
<1> QED BY <1>3, <1>15, <1>16 DEF D, g

\* What is read of a text, as it is or with characters in between that are passed over.
LEMMA TextRead ==
    ASSUME NEW src \in Seq(Octet), NEW t, IsBase64(t, src), NEW text \in Seq(Octet), NEW f, KeepsAs(text, t, f),
           text # <<>> => index_64(text[Len(text)]) # XX
    PROVE  dsDecodeBase64(text) = {src}
<1>1. t \in Seq(Octet)
    BY DEF IsBase64
<1>2. t = KeptUpto(text)[Len(text)]
    BY <1>1, KeptIs
<1>3. DecodedUpto(t)[Fours(t)] = src /\ Len(t) % 4 = 0
    BY DataRead
<1>4. ~Astray(text, t)
    BY <1>3, Zenon DEF Astray
<1>5. dsDecodeBase64(text) = IF Ending(t) = {} /\ Astray(text, t) THEN {} ELSE {DecodedUpto(t)[Fours(t)]}
    BY <1>2, DecodeIs
<1> QED BY <1>3, <1>4, <1>5, Zenon

LEMMA PlainRead ==
    ASSUME NEW src \in Seq(Octet), NoZero(src)
    PROVE  dsDecodeBase64(dsEncodeBase64(src)) = {src}
<1> DEFINE t == dsEncodeBase64(src)
           f == [i \in 0..Len(t) |-> i]
<1>1. IsBase64(t, src)
    BY TextIs
<1> HIDE DEF t
<1>2. t \in Seq(Octet) /\ \A i \in 1..Len(t) : index_64(t[i]) # XX
    BY <1>1, Zenon DEF IsBase64
<1>3. Len(t) \in Nat
    BY <1>2, LenProperties
<1>4. KeepsAs(t, t, f)
    <2>1. f \in [0..Len(t) -> 0..Len(t)] /\ f[0] = 0 /\ f[Len(t)] = Len(t)
        BY <1>3
    <2>2. \A i \in 1..Len(t) : f[i] = f[i - 1] + 1 /\ f[i] = i
        BY <1>3
    <2> HIDE DEF f
    <2> QED BY <1>2, <2>1, <2>2 DEF KeepsAs
<1> HIDE DEF f
<1>5. t # <<>> => index_64(t[Len(t)]) # XX
    BY <1>2, <1>3
<1>6. dsDecodeBase64(t) = {src}
    BY ONLY <1>1, <1>2, <1>4, <1>5, TextRead, src \in Seq(Octet)
<1> QED BY <1>6 DEF t

InLines(text) ==
    [i \in 1..(Len(text) + Len(text) \div 4) |-> IF i % 5 = 1 THEN LF ELSE text[i - (i + 4) \div 5]]

LEMMA LinesRead ==
    ASSUME NEW src \in Seq(Octet), NoZero(src)
    PROVE  dsDecodeBase64(InLines(dsEncodeBase64(src))) = {src}
<1> DEFINE t == dsEncodeBase64(src)
           g == Groups(Len(src))
           m == 5 * g
           At(i) == IF i % 5 = 1 THEN LF ELSE t[i - (i + 4) \div 5]
           c(i) == i - (i + 4) \div 5
           s == [i \in 1..m |-> At(i)]
           f == [i \in 0..m |-> c(i)]
<1>1. IsBase64(t, src)
    BY TextIs
<1>2. g \in Nat
    BY LenProperties, GroupsTyped
<1>0. InLines(t) = [i \in 1..(Len(t) + Len(t) \div 4) |-> At(i)]
    BY Zenon DEF InLines
<1> HIDE DEF t
<1>3. t \in Seq(Octet) /\ Len(t) = 4 * g /\ \A i \in 1..Len(t) : index_64(t[i]) # XX
    BY <1>1, Zenon DEF IsBase64
<1> HIDE DEF g
<1>4. Len(t) + Len(t) \div 4 = m
    BY <1>2, <1>3
<1>5. InLines(t) = s
    <2> HIDE DEF At
    <2> QED BY <1>0, <1>4
<1>6. LF \in Octet /\ index_64(LF) = XX
    BY DEF LF, Octet, index_64, Pad
<1>7. ASSUME NEW i \in 1..m
      PROVE  /\ c(i) \in 0..(4 * g) /\ c(i - 1) \in 0..(4 * g)
             /\ i % 5 = 1 => c(i) = c(i - 1)
             /\ i % 5 # 1 => c(i) = c(i - 1) + 1 /\ c(i) \in 1..(4 * g)
    <2> DEFINE q == (i - 1) \div 5
               r == (i - 1) % 5
    <2>1. q \in Nat /\ r \in Nat /\ r < 5 /\ i = 5 * q + r + 1 /\ q < g
        BY <1>2
    <2> HIDE DEF q, r
    <2>2. c(i) = 4 * q + r
        <3>1. (i + 4) \div 5 = q + 1
            BY <2>1
        <3> QED BY <2>1, <3>1
    <2>3. c(i - 1) = IF r = 0 THEN 4 * q ELSE 4 * q + r - 1
        <3>1. CASE r = 0
            <4>1. ((i - 1) + 4) \div 5 = q
                BY <2>1, <3>1
            <4> QED BY <2>1, <3>1, <4>1
        <3>2. CASE r # 0
            <4>1. ((i - 1) + 4) \div 5 = q + 1
                BY <2>1, <3>2
            <4> QED BY <2>1, <3>2, <4>1
        <3> QED BY <3>1, <3>2
    <2>4. i % 5 = 1 <=> r = 0
        BY <2>1
    <2> DEFINE x == c(i)
               y == c(i - 1)
    <2> HIDE DEF x, y
    <2>5. x = 4 * q + r /\ y = IF r = 0 THEN 4 * q ELSE 4 * q + r - 1
        BY <2>2, <2>3 DEF x, y
    <2>6. /\ x \in 0..(4 * g) /\ y \in 0..(4 * g)
          /\ r = 0 => x = y
          /\ r # 0 => x = y + 1 /\ x \in 1..(4 * g)
        BY <1>2, <2>1, <2>5
    <2> QED BY <2>4, <2>6 DEF x, y
<1>8. ASSUME NEW i \in 1..m
      PROVE  At(i) \in Octet
    <2>1. CASE i % 5 = 1
        BY <1>6, <2>1
    <2>2. CASE i % 5 # 1
        <3> DEFINE x == c(i)
        <3>1. x \in 1..Len(t) /\ At(i) = t[x]
            BY <1>3, <1>7, <2>2
        <3> HIDE DEF x, At
        <3> QED BY <1>3, <3>1, ElementOfSeq
    <2> QED BY <2>1, <2>2
<1>9. m \in Nat /\ c(0) = 0 /\ c(m) = 4 * g
    <2>1. (0 + 4) \div 5 = 0 /\ (5 * g + 4) \div 5 = g
        BY <1>2
    <2> QED BY <1>2, <2>1
<1>10. s \in [1..m -> Octet]
    <2> HIDE DEF At
    <2> QED BY <1>8
<1>11. s \in Seq(Octet) /\ Len(s) = m
    <2> HIDE DEF s, m
    <2> QED BY ONLY <1>9, <1>10, OctetsAreSeq
<1>12. /\ f \in [0..m -> 0..(4 * g)] /\ f[0] = 0 /\ f[m] = 4 * g
       /\ \A i \in 1..m : f[i] = c(i) /\ f[i - 1] = c(i - 1)
    <2>1. ASSUME NEW i \in 0..m
          PROVE  c(i) \in 0..(4 * g)
        <3>1. CASE i = 0
            <4>1. c(i) = 0
                BY <1>9, <3>1
            <4> HIDE DEF c
            <4> QED BY <1>2, <4>1
        <3>2. CASE i # 0
            <4>1. i \in 1..m
                BY <1>9, <3>2
            <4> QED BY <1>7, <4>1
        <3> QED BY <3>1, <3>2
    <2> HIDE DEF c, m
    <2> QED BY <1>9, <2>1
<1>13. ASSUME NEW i \in 1..m
       PROVE  \/ index_64(s[i]) = XX /\ f[i] = f[i - 1]
              \/ index_64(s[i]) # XX /\ f[i] = f[i - 1] + 1 /\ s[i] = t[f[i]]
    <2>1. s[i] = At(i)
        OBVIOUS
    <2>2. CASE i % 5 = 1
        <3>1. s[i] = LF
            BY <2>1, <2>2
        <3> HIDE DEF s, f, c
        <3> QED BY <1>6, <1>7, <1>12, <2>2, <3>1
    <2>3. CASE i % 5 # 1
        <3>1. s[i] = t[c(i)]
            BY <2>1, <2>3
        <3> HIDE DEF s, f, c
        <3>2. c(i) = c(i - 1) + 1 /\ c(i) \in 1..Len(t)
            BY <1>3, <1>7, <2>3
        <3>3. index_64(t[c(i)]) # XX
            BY <1>3, <3>2
        <3> QED BY <1>12, <3>1, <3>2, <3>3
    <2> QED BY <2>2, <2>3
<1> HIDE DEF s, f
<1>14. KeepsAs(s, t, f)
    BY <1>3, <1>11, <1>12, <1>13 DEF KeepsAs
<1>15. s # <<>> => index_64(s[Len(s)]) # XX
    <2> SUFFICES ASSUME s # <<>>
                 PROVE  index_64(s[Len(s)]) # XX
        OBVIOUS
    <2>1. m # 0
        BY <1>11
    <2>2. m \in 1..m /\ m % 5 # 1
        BY <1>2, <1>9, <2>1
    <2>3. f[m] = f[m - 1] + 1
        BY <1>7, <1>12, <2>2
    <2>4. f[m - 1] \in Int
        BY <1>7, <1>12, <2>2
    <2>5. f[m] # f[m - 1]
        BY <2>3, <2>4
    <2>6. index_64(s[m]) # XX
        BY <1>13, <2>2, <2>5
    <2> QED BY <1>11, <2>6
<1>16. dsDecodeBase64(s) = {src}
    BY ONLY <1>1, <1>11, <1>14, <1>15, TextRead, src \in Seq(Octet)
<1> QED BY <1>5, <1>16 DEF t

\* Bytes and how they are written.
QuotedBytes == Octet \X {"plain", "quoted", "break"}
QuotedOf(o) == <<Pad>> \o dsEncodeHex(<<o>>)
WritingOf(x) ==
    CASE x[2] = "quoted" -> QuotedOf(x[1])
      [] x[2] = "plain" -> IF x[1] \in {Pad, 95} THEN QuotedOf(x[1]) ELSE <<x[1]>>
      [] x[2] = "break" -> <<Pad, LF>> \o QuotedOf(x[1])

IsPlain(w, o) == Len(w) = 1 /\ w[1] = o /\ o # Pad /\ o # 95
IsQuoted(w, o) == Len(w) = 3 /\ w[1] = Pad /\ w[2] = HexDigit(o \div 16) /\ w[3] = HexDigit(o % 16)
IsBroken(w, o) ==
    /\ Len(w) = 5 /\ w[1] = Pad /\ w[2] = LF
    /\ w[3] = Pad /\ w[4] = HexDigit(o \div 16) /\ w[5] = HexDigit(o % 16)
Writes(w, o) == w \in Seq(Octet) /\ (IsPlain(w, o) \/ IsQuoted(w, o) \/ IsBroken(w, o))

LEMMA OneOctet ==
    ASSUME NEW o \in Octet
    PROVE  <<o>> \in Seq(Octet) /\ Len(<<o>>) = 1 /\ <<o>>[1] = o
OBVIOUS

LEMMA PadOctet == Pad \in Octet /\ LF \in Octet /\ Pad # LF
BY DEF Pad, LF, Octet

LEMMA QuotedIs ==
    ASSUME NEW o \in Octet
    PROVE  QuotedOf(o) \in Seq(Octet) /\ IsQuoted(QuotedOf(o), o)
<1> DEFINE d == <<o>>
           h == dsEncodeHex(d)
           p == <<Pad>>
           w == p \o h
<1>1. d \in Seq(Octet) /\ Len(d) = 1 /\ d[1] = o
    BY OneOctet
<1> HIDE DEF d
<1>2. /\ h \in Seq(Octet) /\ Len(h) = 2 * Len(d)
      /\ \A k \in 1..Len(d) : h[2 * k - 1] = HexDigit(d[k] \div 16) /\ h[2 * k] = HexDigit(d[k] % 16)
    BY <1>1, HexTextIs
<1> HIDE DEF h
<1>3. Len(h) = 2 /\ h[1] = HexDigit(o \div 16) /\ h[2] = HexDigit(o % 16)
    <2>1. 1 \in 1..Len(d) /\ 2 * 1 - 1 = 1 /\ 2 * 1 = 2
        BY <1>1
    <2>2. h[2 * 1 - 1] = HexDigit(d[1] \div 16) /\ h[2 * 1] = HexDigit(d[1] % 16)
        BY <1>2, <2>1
    <2> QED BY <1>1, <1>2, <2>1, <2>2
<1>4. p \in Seq(Octet) /\ Len(p) = 1 /\ p[1] = Pad
    BY PadOctet, OneOctet
<1> HIDE DEF p
<1>5. IsJoin(w, p, h)
    BY ONLY <1>2, <1>4, JoinTwo
<1> HIDE DEF w
<1>6. w \in Seq(Octet) /\ Len(w) = 3
    BY <1>3, <1>4, <1>5 DEF IsJoin
<1>7. w[1] = Pad
    BY <1>4, <1>5 DEF IsJoin
<1>8. w[1 + 1] = h[1] /\ w[1 + 2] = h[2]
    <2>1. 1 \in 1..Len(h) /\ 2 \in 1..Len(h)
        BY <1>3
    <2> QED BY <1>4, <1>5, <2>1 DEF IsJoin
<1>9. IsQuoted(w, o)
    BY <1>3, <1>6, <1>7, <1>8 DEF IsQuoted
<1> QED BY <1>6, <1>9 DEF w, p, h, d, QuotedOf

LEMMA BrokenIs ==
    ASSUME NEW o \in Octet
    PROVE  <<Pad, LF>> \o QuotedOf(o) \in Seq(Octet) /\ IsBroken(<<Pad, LF>> \o QuotedOf(o), o)
<1> DEFINE b == <<Pad, LF>>
           q == QuotedOf(o)
           w == b \o q
<1>1. b \in Seq(Octet) /\ Len(b) = 2 /\ b[1] = Pad /\ b[2] = LF
    BY PadOctet, TwoOctets
<1>2. q \in Seq(Octet) /\ Len(q) = 3 /\ q[1] = Pad /\ q[2] = HexDigit(o \div 16) /\ q[3] = HexDigit(o % 16)
    BY QuotedIs DEF IsQuoted
<1> HIDE DEF b, q
<1>3. IsJoin(w, b, q)
    BY ONLY <1>1, <1>2, JoinTwo
<1> HIDE DEF w
<1>4. w \in Seq(Octet) /\ Len(w) = 5
    BY <1>1, <1>2, <1>3 DEF IsJoin
<1>5. w[1] = Pad /\ w[2] = LF
    BY <1>1, <1>3 DEF IsJoin
<1>6. w[2 + 1] = q[1] /\ w[2 + 2] = q[2] /\ w[2 + 3] = q[3]
    <2>1. 1 \in 1..Len(q) /\ 2 \in 1..Len(q) /\ 3 \in 1..Len(q)
        BY <1>2
    <2> QED BY <1>1, <1>3, <2>1 DEF IsJoin
<1>7. w[3] = q[1] /\ w[4] = q[2] /\ w[5] = q[3]
    BY <1>6
<1>8. IsBroken(w, o)
    BY <1>2, <1>4, <1>5, <1>7 DEF IsBroken
<1> QED BY <1>4, <1>8 DEF w, b, q

LEMMA WritingIs ==
    ASSUME NEW x \in QuotedBytes
    PROVE  Writes(WritingOf(x), x[1])
<1> DEFINE o == x[1]
           w == WritingOf(x)
<1>1. o \in Octet /\ x[2] \in {"plain", "quoted", "break"}
    BY DEF QuotedBytes
<1>2. CASE x[2] = "quoted"
    <2>1. w = QuotedOf(o)
        BY <1>2 DEF WritingOf
    <2> HIDE DEF w, o
    <2> QED BY <1>1, <2>1, QuotedIs DEF Writes, w, o
<1>3. CASE x[2] = "plain" /\ o \in {Pad, 95}
    <2>1. w = QuotedOf(o)
        BY <1>3 DEF WritingOf
    <2> HIDE DEF w, o
    <2> QED BY <1>1, <2>1, QuotedIs DEF Writes, w, o
<1>4. CASE x[2] = "plain" /\ o \notin {Pad, 95}
    <2>1. w = <<o>>
        BY <1>4 DEF WritingOf
    <2>2. o # Pad /\ o # 95
        BY <1>4
    <2> HIDE DEF w, o
    <2>3. w \in Seq(Octet) /\ Len(w) = 1 /\ w[1] = o
        BY <1>1, <2>1, OneOctet
    <2>4. Writes(w, o)
        BY <2>2, <2>3 DEF Writes, IsPlain
    <2> QED BY <2>4 DEF w, o
<1>5. CASE x[2] = "break"
    <2>1. w = <<Pad, LF>> \o QuotedOf(o)
        BY <1>5 DEF WritingOf
    <2> HIDE DEF w, o
    <2> QED BY <1>1, <2>1, BrokenIs DEF Writes, w, o
<1> QED BY <1>1, <1>2, <1>3, <1>4, <1>5

\* The functions that the text and dsDecodeQ define.
QuotedUpto(a) ==
    CHOOSE F : F = [i \in 0..Len(a) |-> IF i = 0 THEN <<>> ELSE F[i - 1] \o WritingOf(a[i])]
ReadQUpto(text) ==
    CHOOSE F : F = [i \in 0..Len(text) |->
                      IF i = 0 THEN [out |-> <<>>, skip |-> 0] ELSE ReadQ(text, F[i - 1], i)]

QuoteStep(s, a, i) == s \o WritingOf(a[i])
QuoteStays(S, a) ==
    /\ <<>> \in S /\ Len(a) \in Nat
    /\ \A i \in 1..Len(a) : \A s \in S : QuoteStep(s, a, i) \in S
Stand(s, k) == [out |-> s, skip |-> k]
ReadQStays(S, text) ==
    /\ Stand(<<>>, 0) \in S /\ Len(text) \in Nat
    /\ \A i \in 1..Len(text) : \A s \in S : ReadQ(text, s, i) \in S

LEMMA QuoteRecursion ==
    ASSUME NEW S, NEW a, QuoteStays(S, a)
    PROVE  /\ QuotedUpto(a) \in [0..Len(a) -> S] /\ QuotedUpto(a)[0] = <<>>
           /\ \A i \in 1..Len(a) : QuotedUpto(a)[i] = QuoteStep(QuotedUpto(a)[i - 1], a, i)
<1> DEFINE m == Len(a)
           z == <<>>
           step == [i \in 1..m |-> [s \in S |-> QuoteStep(s, a, i)]]
           Solves(F) == F = [i \in 0..m |-> IF i = 0 THEN z ELSE QuoteStep(F[i - 1], a, i)]
<1>0. m \in Nat
    BY DEF QuoteStays
<1>1. z \in S /\ \A i \in 1..m : \A s \in S : QuoteStep(s, a, i) \in S
    BY DEF QuoteStays
<1> HIDE DEF m, z
<1>2. step \in [1..m -> [S -> S]]
    BY <1>1
<1>3. PICK f \in [0..m -> S] : f[0] = z /\ \A i \in 1..m : f[i] = step[i][f[i - 1]]
    <2>1. z \in S /\ m \in Nat
        BY <1>0, <1>1
    <2> HIDE DEF step
    <2>2. \E f \in [0..m -> S] : f[0] = z /\ \A i \in 1..m : f[i] = step[i][f[i - 1]]
        BY ONLY <1>2, <2>1, PrimitiveRecursion
    <2> QED BY <2>2, Zenon
<1>4. Solves(f)
    <2>1. ASSUME NEW i \in 0..m
          PROVE  f[i] = IF i = 0 THEN z ELSE QuoteStep(f[i - 1], a, i)
        <3>1. CASE i = 0
            BY <1>3, <3>1
        <3>2. CASE i # 0
            <4>1. i \in 1..m /\ f[i - 1] \in S
                BY <1>0, <3>2
            <4>2. f[i] = step[i][f[i - 1]]
                BY <1>3, <4>1
            <4>3. step[i][f[i - 1]] = QuoteStep(f[i - 1], a, i)
                <5> DEFINE y == f[i - 1]
                <5>1. y \in S
                    BY <4>1
                <5> HIDE DEF y
                <5>2. step[i][y] = QuoteStep(y, a, i)
                    BY <4>1, <5>1
                <5> QED BY <5>2 DEF y
            <4> QED BY <3>2, <4>2, <4>3
        <3> QED BY <3>1, <3>2
    <2>2. f = [i \in 0..m |-> f[i]]
        OBVIOUS
    <2> HIDE DEF step
    <2> QED BY <2>1, <2>2
<1> HIDE DEF step
<1> DEFINE T == QuotedUpto(a)
<1>5. Solves(T)
    <2>1. T = CHOOSE F : Solves(F)
        BY Zenon DEF QuotedUpto, QuoteStep, m, z
    <2> HIDE DEF Solves
    <2> QED BY <1>4, <2>1
<1> HIDE DEF T
<1>6. DOMAIN T = 0..m /\ T = [i \in 0..m |-> T[i]]
    BY <1>5
<1>7. \A i \in 0..m : T[i] = IF i = 0 THEN z ELSE QuoteStep(T[i - 1], a, i)
    BY <1>5
<1> HIDE DEF Solves
<1>8. T[0] = z /\ \A i \in 1..m : T[i] = QuoteStep(T[i - 1], a, i)
    BY <1>0, <1>7
<1> DEFINE G == {i \in 0..m : T[i] \in S}
<1>9. 0 \in G
    BY <1>0, <1>1, <1>8
<1>10. ASSUME NEW i \in 1..m, i - 1 \in G
       PROVE  i \in G
    BY <1>1, <1>8, <1>10
<1>11. 0..m \subseteq G
    <2> HIDE DEF G
    <2> QED BY <1>0, <1>9, <1>10, BoundedInduction
<1>12. T \in [0..m -> S]
    BY <1>6, <1>11
<1> QED BY <1>8, <1>12 DEF T, m, z

LEMMA ReadQRecursion ==
    ASSUME NEW S, NEW text, ReadQStays(S, text)
    PROVE  /\ ReadQUpto(text) \in [0..Len(text) -> S] /\ ReadQUpto(text)[0] = Stand(<<>>, 0)
           /\ \A i \in 1..Len(text) : ReadQUpto(text)[i] = ReadQ(text, ReadQUpto(text)[i - 1], i)
<1> DEFINE m == Len(text)
           z == Stand(<<>>, 0)
           step == [i \in 1..m |-> [s \in S |-> ReadQ(text, s, i)]]
           Solves(F) == F = [i \in 0..m |-> IF i = 0 THEN z ELSE ReadQ(text, F[i - 1], i)]
<1>0. m \in Nat
    BY DEF ReadQStays
<1>1. z \in S /\ \A i \in 1..m : \A s \in S : ReadQ(text, s, i) \in S
    BY DEF ReadQStays
<1> HIDE DEF m, z
<1>2. step \in [1..m -> [S -> S]]
    BY <1>1
<1>3. PICK f \in [0..m -> S] : f[0] = z /\ \A i \in 1..m : f[i] = step[i][f[i - 1]]
    <2>1. z \in S /\ m \in Nat
        BY <1>0, <1>1
    <2> HIDE DEF step
    <2>2. \E f \in [0..m -> S] : f[0] = z /\ \A i \in 1..m : f[i] = step[i][f[i - 1]]
        BY ONLY <1>2, <2>1, PrimitiveRecursion
    <2> QED BY <2>2, Zenon
<1>4. Solves(f)
    <2>1. ASSUME NEW i \in 0..m
          PROVE  f[i] = IF i = 0 THEN z ELSE ReadQ(text, f[i - 1], i)
        <3>1. CASE i = 0
            BY <1>3, <3>1
        <3>2. CASE i # 0
            <4>1. i \in 1..m /\ f[i - 1] \in S
                BY <1>0, <3>2
            <4>2. f[i] = step[i][f[i - 1]]
                BY <1>3, <4>1
            <4>3. step[i][f[i - 1]] = ReadQ(text, f[i - 1], i)
                <5> DEFINE y == f[i - 1]
                <5>1. y \in S
                    BY <4>1
                <5> HIDE DEF y
                <5>2. step[i][y] = ReadQ(text, y, i)
                    BY <4>1, <5>1
                <5> QED BY <5>2 DEF y
            <4> QED BY <3>2, <4>2, <4>3
        <3> QED BY <3>1, <3>2
    <2>2. f = [i \in 0..m |-> f[i]]
        OBVIOUS
    <2> HIDE DEF step
    <2> QED BY <2>1, <2>2
<1> HIDE DEF step
<1> DEFINE T == ReadQUpto(text)
<1>5. Solves(T)
    <2>1. T = CHOOSE F : Solves(F)
        BY Zenon DEF ReadQUpto, Stand, m, z
    <2> HIDE DEF Solves
    <2> QED BY <1>4, <2>1
<1> HIDE DEF T
<1>6. DOMAIN T = 0..m /\ T = [i \in 0..m |-> T[i]]
    BY <1>5
<1>7. \A i \in 0..m : T[i] = IF i = 0 THEN z ELSE ReadQ(text, T[i - 1], i)
    BY <1>5
<1> HIDE DEF Solves
<1>8. T[0] = z /\ \A i \in 1..m : T[i] = ReadQ(text, T[i - 1], i)
    BY <1>0, <1>7
<1> DEFINE G == {i \in 0..m : T[i] \in S}
<1>9. 0 \in G
    BY <1>0, <1>1, <1>8
<1>10. ASSUME NEW i \in 1..m, i - 1 \in G
       PROVE  i \in G
    BY <1>1, <1>8, <1>10
<1>11. 0..m \subseteq G
    <2> HIDE DEF G
    <2> QED BY <1>0, <1>9, <1>10, BoundedInduction
<1>12. T \in [0..m -> S]
    BY <1>6, <1>11
<1> QED BY <1>8, <1>12 DEF T, m, z


LEMMA DecodeQIs ==
    ASSUME NEW text
    PROVE  dsDecodeQ(text) = LET end == ReadQUpto(text)[Len(text)] IN IF end.skip > 0 THEN {} ELSE {end.out}
BY Zenon DEF dsDecodeQ, ReadQUpto

LEMMA QuotedDefined ==
    ASSUME NEW a \in Seq(QuotedBytes)
    PROVE  /\ QuotedUpto(a) \in [0..Len(a) -> Seq(Octet)] /\ QuotedUpto(a)[0] = <<>>
           /\ \A i \in 1..Len(a) : IsJoin(QuotedUpto(a)[i], QuotedUpto(a)[i - 1], WritingOf(a[i]))
<1> DEFINE S == Seq(Octet)
           U == QuotedUpto(a)
<1>1. <<>> \in S /\ Len(a) \in Nat
    BY LenProperties
<1>2. ASSUME NEW i \in 1..Len(a), NEW s \in S
      PROVE  IsJoin(QuoteStep(s, a, i), s, WritingOf(a[i])) /\ QuoteStep(s, a, i) \in S
    <2>1. a[i] \in QuotedBytes
        BY ElementOfSeq
    <2>2. WritingOf(a[i]) \in Seq(Octet)
        BY <2>1, WritingIs DEF Writes
    <2>3. IsJoin(s \o WritingOf(a[i]), s, WritingOf(a[i]))
        BY ONLY <2>2, s \in Seq(Octet), JoinTwo
    <2>4. IsJoin(QuoteStep(s, a, i), s, WritingOf(a[i]))
        BY <2>3 DEF QuoteStep
    <2> QED BY <2>4 DEF IsJoin
<1> HIDE DEF S
<1>3. QuoteStays(S, a)
    BY <1>1, <1>2 DEF QuoteStays
<1>4. U \in [0..Len(a) -> S] /\ U[0] = <<>> /\ \A i \in 1..Len(a) : U[i] = QuoteStep(U[i - 1], a, i)
    BY ONLY <1>3, QuoteRecursion
<1> HIDE DEF U
<1>5. ASSUME NEW i \in 1..Len(a)
      PROVE  IsJoin(U[i], U[i - 1], WritingOf(a[i]))
    <2>1. U[i - 1] \in S /\ U[i] = QuoteStep(U[i - 1], a, i)
        BY <1>1, <1>4
    <2>2. IsJoin(QuoteStep(U[i - 1], a, i), U[i - 1], WritingOf(a[i]))
        BY <1>2, <2>1
    <2> QED BY <2>1, <2>2
<1> QED BY <1>4, <1>5 DEF S, U

\* One character: passed over, plain, the first of a quoted byte, before a line break.
LEMMA ReadSkipped ==
    ASSUME NEW text, NEW s, NEW k \in Nat, k > 0, NEW i
    PROVE  ReadQ(text, Stand(s, k), i) = Stand(s, k - 1)
<1> DEFINE st == Stand(s, k)
<1>1. st.skip = k /\ st.out = s
    BY DEF Stand
<1>2. ReadQ(text, st, i) = [st EXCEPT !.skip = st.skip - 1]
    <2>1. st.skip > 0
        BY <1>1
    <2> HIDE DEF st
    <2> QED BY <2>1, Zenon DEF ReadQ
<1>3. [st EXCEPT !.skip = st.skip - 1] = Stand(s, k - 1)
    BY <1>1 DEF Stand
<1> QED BY <1>2, <1>3

LEMMA ReadPlain ==
    ASSUME NEW text, NEW s, NEW i, text[i] # Pad, text[i] # 95
    PROVE  ReadQ(text, Stand(s, 0), i) = Stand(Append(s, text[i]), 0)
<1> DEFINE st == Stand(s, 0)
           o == text[i]
           r == Append(s, o)
<1>1. st.skip = 0 /\ st.out = s
    BY DEF Stand
<1>2. ~(st.skip > 0) /\ (IF o = 95 THEN 32 ELSE o) = o
    BY <1>1
<1>3. ReadQ(text, st, i) = [st EXCEPT !.out = Append(st.out, IF o = 95 THEN 32 ELSE o)]
    <2> HIDE DEF st
    <2> QED BY <1>2, Zenon DEF ReadQ
<1>4. ReadQ(text, st, i) = [st EXCEPT !.out = r]
    <2> HIDE DEF st
    <2> QED BY <1>1, <1>2, <1>3
<1> HIDE DEF r
<1>5. [st EXCEPT !.out = r] = Stand(r, 0)
    BY DEF Stand
<1> QED BY <1>4, <1>5 DEF r

LEMMA ReadQuoted ==
    ASSUME NEW text, NEW s, NEW i, text[i] = Pad, i # Len(text), i + 1 # Len(text), text[i + 1] # LF
    PROVE  ReadQ(text, Stand(s, 0), i) = Stand(Append(s, HexByte(text[i + 1], text[i + 2])), 2)
<1> DEFINE st == Stand(s, 0)
<1>1. st.skip = 0 /\ st.out = s
    BY DEF Stand
<1>2. ~(st.skip > 0)
    BY <1>1
<1> HIDE DEF st
<1>3. ReadQ(text, st, i) = [out |-> Append(st.out, HexByte(text[i + 1], text[i + 2])), skip |-> 2]
    BY <1>2, Zenon DEF ReadQ
<1>4. ReadQ(text, st, i) = Stand(Append(s, HexByte(text[i + 1], text[i + 2])), 2)
    BY <1>1, <1>3, Zenon DEF Stand
<1> QED BY <1>4 DEF st

LEMMA ReadBreak ==
    ASSUME NEW text, NEW s, NEW i, text[i] = Pad, i # Len(text), text[i + 1] = LF
    PROVE  ReadQ(text, Stand(s, 0), i) = Stand(s, 1)
<1> DEFINE st == Stand(s, 0)
<1>1. st.skip = 0 /\ st.out = s
    BY DEF Stand
<1>2. ~(st.skip > 0)
    BY <1>1
<1>3. ReadQ(text, st, i) = [st EXCEPT !.skip = 1]
    <2> HIDE DEF st
    <2> QED BY <1>2, Zenon DEF ReadQ
<1>4. [st EXCEPT !.skip = 1] = Stand(s, 1)
    BY DEF Stand
<1> QED BY <1>3, <1>4

QStates == [out : Seq(Nat), skip : Nat]

LEMMA ReadQDefined ==
    ASSUME NEW text \in Seq(Octet)
    PROVE  /\ ReadQUpto(text)[0] = Stand(<<>>, 0)
           /\ \A i \in 1..Len(text) : ReadQUpto(text)[i] = ReadQ(text, ReadQUpto(text)[i - 1], i)
<1> DEFINE S == QStates
<1>1. Stand(<<>>, 0) \in S /\ Len(text) \in Nat
    <2>1. Len(text) \in Nat
        BY LenProperties
    <2>2. <<>> \in Seq(Nat)
        OBVIOUS
    <2> QED BY <2>1, <2>2 DEF Stand, QStates
<1>2. ASSUME NEW i \in 1..Len(text), NEW s \in S
      PROVE  ReadQ(text, s, i) \in S
    <2>1. s.out \in Seq(Nat) /\ s.skip \in Nat /\ s = Stand(s.out, s.skip)
        BY DEF QStates, Stand
    <2> DEFINE u == s.out
               k == s.skip
    <2>2. ASSUME NEW v \in Seq(Nat), NEW j \in Nat
          PROVE  Stand(v, j) \in S
        BY DEF Stand, QStates
    <2>3. text[i] \in Nat /\ \A j \in 1..Len(text) : text[j] \in Nat
        <3>1. \A j \in 1..Len(text) : text[j] \in Octet
            BY ElementOfSeq
        <3> QED BY <3>1, OctetIs
    <2> HIDE DEF S, u, k
    <2>4. CASE k > 0
        <3>1. ReadQ(text, Stand(u, k), i) = Stand(u, k - 1)
            BY <2>1, <2>4, ReadSkipped DEF u, k
        <3>2. k - 1 \in Nat
            BY <2>1, <2>4 DEF k
        <3> QED BY <2>1, <2>2, <3>1, <3>2 DEF u, k
    <2>5. CASE ~(k > 0)
        <3>1. k = 0 /\ s = Stand(u, 0) /\ u \in Seq(Nat)
            BY <2>1, <2>5 DEF u, k
        <3>2. ASSUME NEW v \in Seq(Nat)
              PROVE  [s EXCEPT !.out = v] \in S /\ [s EXCEPT !.skip = 1] \in S /\ [s EXCEPT !.skip = 2] \in S
            <4>1. [s EXCEPT !.out = v] = Stand(v, 0)
                BY <3>1 DEF Stand
            <4>2. [s EXCEPT !.skip = 1] = Stand(u, 1)
                BY <3>1 DEF Stand
            <4>3. [s EXCEPT !.skip = 2] = Stand(u, 2)
                BY <3>1 DEF Stand
            <4>4. 0 \in Nat /\ 1 \in Nat /\ 2 \in Nat
                OBVIOUS
            <4>5. Stand(v, 0) \in S /\ Stand(u, 1) \in S /\ Stand(u, 2) \in S
                BY <2>2, <3>1, <4>4
            <4> QED BY <4>1, <4>2, <4>3, <4>5, Zenon
        <3>3. CASE text[i] = Pad /\ (i = Len(text) \/ text[i + 1] = LF \/ i + 1 = Len(text))
            <4>1. ReadQ(text, s, i) \in {[s EXCEPT !.skip = 1], [s EXCEPT !.skip = 2]}
                <5>1. ~(s.skip > 0)
                    BY <2>5 DEF k
                <5> QED BY <3>3, <5>1 DEF ReadQ
            <4> QED BY <3>1, <3>2, <4>1
        <3>4. CASE text[i] = Pad /\ ~(i = Len(text) \/ text[i + 1] = LF \/ i + 1 = Len(text))
            <4> DEFINE x == HexByte(text[i + 1], text[i + 2])
            <4>1. i + 1 \in 1..Len(text) /\ i + 2 \in 1..Len(text)
                BY <1>1, <3>4
            <4>2. x \in Nat
                <5> DEFINE c == text[i + 1]
                           d == text[i + 2]
                <5>1. c \in Nat /\ d \in Nat
                    BY <2>3, <4>1
                <5> HIDE DEF c, d
                <5>2. HexByte(c, d) \in Nat
                    <6>1. HexValue(c) \in Int /\ HexValue(d) \in Int
                        BY <5>1 DEF HexValue
                    <6> QED BY <6>1 DEF HexByte
                <5> QED BY <5>2 DEF c, d
            <4>3. ReadQ(text, s, i) = Stand(Append(u, x), 2)
                BY <3>1, <3>4, ReadQuoted
            <4> HIDE DEF x
            <4>4. Append(u, x) \in Seq(Nat) /\ 2 \in Nat
                BY <3>1, <4>2, AppendProperties
            <4> QED BY <2>2, <4>3, <4>4
        <3>5. CASE text[i] # Pad
            <4> DEFINE x == IF text[i] = 95 THEN 32 ELSE text[i]
                       v == Append(s.out, x)
            <4>1. v \in Seq(Nat)
                <5>1. x \in Nat
                    BY <2>3
                <5> HIDE DEF x
                <5> QED BY <2>1, <5>1, AppendProperties
            <4>2. ReadQ(text, s, i) = [s EXCEPT !.out = v]
                <5>1. ~(s.skip > 0)
                    BY <2>5 DEF k
                <5> QED BY <3>5, <5>1, Zenon DEF ReadQ
            <4> HIDE DEF v
            <4> QED BY <3>2, <4>1, <4>2
        <3> QED BY <3>3, <3>4, <3>5
    <2> QED BY <2>4, <2>5
<1> HIDE DEF S
<1>3. ReadQStays(S, text)
    BY <1>1, <1>2 DEF ReadQStays
<1> DEFINE U == ReadQUpto(text)
<1>4. U[0] = Stand(<<>>, 0) /\ \A i \in 1..Len(text) : U[i] = ReadQ(text, U[i - 1], i)
    BY ONLY <1>3, ReadQRecursion
<1> QED BY <1>4

\* What is written for the first bytes is the beginning of the whole text.
LEMMA QuotedBegin ==
    ASSUME NEW a \in Seq(QuotedBytes), NEW i \in 0..Len(a)
    PROVE  Begins(QuotedUpto(a)[Len(a)], QuotedUpto(a)[i])
<1> DEFINE n == Len(a)
           U == QuotedUpto(a)
           G == {k \in 0..n : Begins(U[n], U[k])}
<1>1. n \in Nat
    BY LenProperties
<1>2. U \in [0..n -> Seq(Octet)] /\ \A k \in 1..n : IsJoin(U[k], U[k - 1], WritingOf(a[k]))
    BY QuotedDefined
<1> HIDE DEF n, U
<1>3. n \in G
    BY <1>1 DEF Begins
<1>4. ASSUME NEW k \in 1..n, k \in G
      PROVE  k - 1 \in G
    <2>1. k - 1 \in 0..n /\ k \in 0..n
        BY <1>1
    <2> DEFINE x == U[k - 1]
               y == U[k]
               w == WritingOf(a[k])
    <2>2. IsJoin(y, x, w) /\ x \in Seq(Octet)
        BY <1>2, <2>1
    <2>3. w \in Seq(Octet)
        <3>1. a[k] \in QuotedBytes
            BY ElementOfSeq DEF n
        <3> QED BY <3>1, WritingIs DEF Writes
    <2>4. Begins(U[n], y)
        BY <1>4
    <2> HIDE DEF x, y, w
    <2>5. Len(x) \in Nat /\ Len(w) \in Nat
        BY <2>2, <2>3, LenProperties
    <2>6. Begins(U[n], x)
        <3>1. Len(y) = Len(x) + Len(w) /\ \A j \in 1..Len(x) : y[j] = x[j]
            BY <2>2 DEF IsJoin
        <3>2. U[n] \in Seq(Octet) /\ Len(U[n]) \in Nat
            BY <1>1, <1>2, LenProperties
        <3> QED BY <2>4, <2>5, <3>1, <3>2 DEF Begins
    <2> QED BY <2>1, <2>6 DEF x
<1>5. 0..n \subseteq G
    <2> HIDE DEF G
    <2> QED BY <1>1, <1>3, <1>4, DownwardInduction
<1>6. i \in 0..n
    BY DEF n
<1>7. Begins(U[n], U[i])
    BY <1>5, <1>6
<1> QED BY <1>7 DEF n, U

\* A run over a text: every position follows from the one before.
RunsOver(r, text) == \A i \in 1..Len(text) : r[i] = ReadQ(text, r[i - 1], i)

\* From '=' over two digits, the byte is read.
LEMMA RunQuoted ==
    ASSUME NEW text, Len(text) \in Nat, NEW r, RunsOver(r, text), NEW p \in Nat, p + 3 <= Len(text),
           NEW o \in Octet, text[p + 1] = Pad,
           text[p + 2] = HexDigit(o \div 16), text[p + 3] = HexDigit(o % 16),
           NEW s, r[p] = Stand(s, 0)
    PROVE  r[p + 3] = Stand(Append(s, o), 0)
<1> DEFINE i == p + 1
           h == o \div 16
           l == o % 16
           q == Append(s, o)
<1>1. h \in Nat /\ h < 16 /\ l \in Nat /\ l < 16
    <2>1. o \in Nat /\ o <= 255
        BY OctetIs
    <2> QED BY <2>1
<1>2. HexDigit(h) # LF
    BY <1>1, DigitBack
<1>3. /\ i \in 1..Len(text) /\ p + 2 \in 1..Len(text) /\ p + 3 \in 1..Len(text)
      /\ i - 1 = p /\ (p + 2) - 1 = i /\ (p + 3) - 1 = p + 2 /\ i + 1 = p + 2 /\ i + 2 = p + 3
      /\ i # Len(text) /\ i + 1 # Len(text)
    OBVIOUS
<1>4. text[i] = Pad /\ text[i + 1] # LF
    BY <1>2, <1>3
<1>5. HexByte(text[i + 1], text[i + 2]) = o
    <2>1. text[i + 1] = HexDigit(h) /\ text[i + 2] = HexDigit(l)
        BY <1>3
    <2>2. HexByte(HexDigit(h), HexDigit(l)) = o
        BY HexBack
    <2> QED BY <2>1, <2>2
<1>6. r[i] = Stand(q, 2)
    <2>1. r[i] = ReadQ(text, r[i - 1], i)
        BY <1>3 DEF RunsOver
    <2>2. r[i] = ReadQ(text, Stand(s, 0), i)
        BY <1>3, <2>1
    <2> HIDE DEF i
    <2>3. ReadQ(text, Stand(s, 0), i) = Stand(Append(s, HexByte(text[i + 1], text[i + 2])), 2)
        BY ONLY <1>3, <1>4, ReadQuoted
    <2> QED BY <1>5, <2>2, <2>3
<1> HIDE DEF q
<1>7. r[p + 2] = Stand(q, 1)
    <2>1. r[p + 2] = ReadQ(text, r[(p + 2) - 1], p + 2)
        BY <1>3 DEF RunsOver
    <2>2. r[p + 2] = ReadQ(text, Stand(q, 2), p + 2)
        BY <1>3, <1>6, <2>1
    <2>3. ReadQ(text, Stand(q, 2), p + 2) = Stand(q, 2 - 1)
        BY ReadSkipped
    <2> QED BY <2>2, <2>3
<1>8. r[p + 3] = Stand(q, 0)
    <2>1. r[p + 3] = ReadQ(text, r[(p + 3) - 1], p + 3)
        BY <1>3 DEF RunsOver
    <2>2. r[p + 3] = ReadQ(text, Stand(q, 1), p + 3)
        BY <1>3, <1>7, <2>1
    <2>3. ReadQ(text, Stand(q, 1), p + 3) = Stand(q, 1 - 1)
        BY ReadSkipped
    <2> QED BY <2>2, <2>3
<1> QED BY <1>8 DEF q

\* From '=' over the end of the line, nothing is.
LEMMA RunBreak ==
    ASSUME NEW text, Len(text) \in Nat, NEW r, RunsOver(r, text), NEW p \in Nat, p + 2 <= Len(text),
           text[p + 1] = Pad, text[p + 2] = LF, NEW s, r[p] = Stand(s, 0)
    PROVE  r[p + 2] = Stand(s, 0)
<1> DEFINE i == p + 1
<1>1. /\ i \in 1..Len(text) /\ p + 2 \in 1..Len(text)
      /\ i - 1 = p /\ (p + 2) - 1 = i /\ i + 1 = p + 2 /\ i # Len(text)
    OBVIOUS
<1>2. text[i] = Pad /\ text[i + 1] = LF
    BY <1>1
<1>3. r[i] = Stand(s, 1)
    <2>1. r[i] = ReadQ(text, r[i - 1], i)
        BY <1>1 DEF RunsOver
    <2>2. r[i] = ReadQ(text, Stand(s, 0), i)
        BY <1>1, <2>1
    <2> HIDE DEF i
    <2>3. ReadQ(text, Stand(s, 0), i) = Stand(s, 1)
        BY ONLY <1>1, <1>2, ReadBreak
    <2> QED BY <2>2, <2>3
<1>4. r[p + 2] = ReadQ(text, r[(p + 2) - 1], p + 2)
    BY <1>1 DEF RunsOver
<1>5. r[p + 2] = ReadQ(text, Stand(s, 1), p + 2)
    BY <1>1, <1>3, <1>4
<1>6. ReadQ(text, Stand(s, 1), p + 2) = Stand(s, 1 - 1)
    BY ReadSkipped
<1> QED BY <1>5, <1>6

Follows(text, p, w) == p + Len(w) <= Len(text) /\ \A j \in 1..Len(w) : text[p + j] = w[j]

\* However a byte is written, it is what is read.
LEMMA RunWriting ==
    ASSUME NEW text, Len(text) \in Nat, NEW r, RunsOver(r, text), NEW p \in Nat,
           NEW o \in Octet, NEW w, Writes(w, o), Follows(text, p, w),
           NEW s, r[p] = Stand(s, 0)
    PROVE  r[p + Len(w)] = Stand(Append(s, o), 0)
<1>0. p + Len(w) <= Len(text) /\ \A j \in 1..Len(w) : text[p + j] = w[j]
    BY DEF Follows
<1>1. CASE IsPlain(w, o)
    <2> DEFINE i == p + 1
    <2>1. Len(w) = 1 /\ text[i] = o /\ o # Pad /\ o # 95
        BY <1>0, <1>1 DEF IsPlain
    <2>2. i \in 1..Len(text) /\ i - 1 = p
        BY <1>0, <2>1
    <2>3. r[i] = ReadQ(text, r[i - 1], i)
        BY <2>2 DEF RunsOver
    <2>4. r[i] = ReadQ(text, Stand(s, 0), i)
        BY <2>2, <2>3
    <2>5. text[i] # Pad /\ text[i] # 95
        BY <2>1
    <2>6. i = p + Len(w)
        BY <2>1
    <2> HIDE DEF i
    <2>7. ReadQ(text, Stand(s, 0), i) = Stand(Append(s, text[i]), 0)
        BY ONLY <2>5, ReadPlain
    <2> QED BY <2>1, <2>4, <2>6, <2>7
<1>2. CASE IsQuoted(w, o)
    <2>1. Len(w) = 3 /\ w[1] = Pad /\ w[2] = HexDigit(o \div 16) /\ w[3] = HexDigit(o % 16)
        BY <1>2 DEF IsQuoted
    <2>2. text[p + 1] = w[1] /\ text[p + 2] = w[2] /\ text[p + 3] = w[3] /\ p + 3 <= Len(text)
        BY <1>0, <2>1
    <2>3. r[p + 3] = Stand(Append(s, o), 0)
        <3>1. text[p + 1] = Pad /\ text[p + 2] = HexDigit(o \div 16) /\ text[p + 3] = HexDigit(o % 16)
            BY <2>1, <2>2
        <3> QED BY ONLY Len(text) \in Nat, RunsOver(r, text), p \in Nat, o \in Octet, r[p] = Stand(s, 0),
                        <2>2, <3>1, RunQuoted
    <2> QED BY <2>1, <2>3
<1>3. CASE IsBroken(w, o)
    <2> DEFINE q == p + 2
    <2>1. /\ Len(w) = 5 /\ w[1] = Pad /\ w[2] = LF
          /\ w[3] = Pad /\ w[4] = HexDigit(o \div 16) /\ w[5] = HexDigit(o % 16)
        BY <1>3 DEF IsBroken
    <2>2. /\ text[p + 1] = w[1] /\ text[p + 2] = w[2] /\ p + 2 <= Len(text)
          /\ text[p + 3] = w[3] /\ text[p + 4] = w[4] /\ text[p + 5] = w[5] /\ p + 5 <= Len(text)
        BY <1>0, <2>1
    <2>3. r[p + 2] = Stand(s, 0)
        BY <2>1, <2>2, RunBreak
    <2>4. q + 1 = p + 3 /\ q + 2 = p + 4 /\ q + 3 = p + 5 /\ q \in Nat /\ q = p + 2
        OBVIOUS
    <2> HIDE DEF q
    <2>5. /\ text[q + 1] = Pad /\ text[q + 2] = HexDigit(o \div 16) /\ text[q + 3] = HexDigit(o % 16)
          /\ q + 3 <= Len(text) /\ r[q] = Stand(s, 0)
        BY <2>1, <2>2, <2>3, <2>4
    <2>6. r[q + 3] = Stand(Append(s, o), 0)
        BY ONLY Len(text) \in Nat, RunsOver(r, text), o \in Octet, <2>4, <2>5, RunQuoted
    <2> QED BY <2>1, <2>4, <2>6
<1> QED BY <1>1, <1>2, <1>3 DEF Writes

BytesMeant(a, i) == [j \in 1..i |-> a[j][1]]

LEMMA OneMoreByte ==
    ASSUME NEW a \in Seq(QuotedBytes), NEW i \in 1..Len(a)
    PROVE  BytesMeant(a, i) = Append(BytesMeant(a, i - 1), a[i][1])
<1> DEFINE n == i - 1
           s == BytesMeant(a, n)
           t == BytesMeant(a, i)
           o == a[i][1]
           F(j) == a[j][1]
<1>1. n \in Nat /\ i = n + 1 /\ Len(a) \in Nat /\ 1..n \subseteq 1..Len(a)
    BY LenProperties
<1>2. \A j \in 1..Len(a) : F(j) \in Octet
    <2>1. \A j \in 1..Len(a) : a[j] \in QuotedBytes
        BY ElementOfSeq
    <2> QED BY <2>1 DEF QuotedBytes
<1>3. s = [j \in 1..n |-> F(j)] /\ t = [j \in 1..i |-> F(j)] /\ F(i) = o
    BY DEF BytesMeant
<1> HIDE DEF n, s, t, o, F
<1>4. s \in Seq(Octet) /\ Len(s) = n /\ \A j \in 1..n : s[j] = F(j)
    BY <1>1, <1>2, <1>3
<1>5. o \in Octet
    BY <1>2, <1>3
<1> DEFINE u == Append(s, o)
<1>6. /\ u \in Seq(Octet) /\ Len(u) = n + 1 /\ u[n + 1] = o
      /\ \A j \in 1..n : u[j] = s[j]
    BY <1>4, <1>5, AppendProperties
<1> HIDE DEF u
<1>7. u = [j \in 1..i |-> u[j]]
    BY <1>1, <1>6
<1>8. ASSUME NEW j \in 1..i
      PROVE  u[j] = F(j)
    <2>1. CASE j = i
        BY <1>1, <1>3, <1>6, <2>1
    <2>2. CASE j # i
        <3>1. j \in 1..n
            BY <1>1, <2>2
        <3> QED BY <1>4, <1>6, <3>1
    <2> QED BY <2>1, <2>2
<1>9. t = u
    BY <1>3, <1>7, <1>8
<1> QED BY <1>9 DEF t, u, s, o, n

\* All the bytes, however they are written, are read.
LEMMA QuotedRead ==
    ASSUME NEW a \in Seq(QuotedBytes)
    PROVE  dsDecodeQ(QuotedUpto(a)[Len(a)]) = {BytesMeant(a, Len(a))}
<1> DEFINE n == Len(a)
           U == QuotedUpto(a)
           text == U[n]
           r == ReadQUpto(text)
           G == {i \in 0..n : r[Len(U[i])] = Stand(BytesMeant(a, i), 0)}
<1>1. n \in Nat
    BY LenProperties
<1>2. /\ U \in [0..n -> Seq(Octet)] /\ U[0] = <<>>
      /\ \A k \in 1..n : IsJoin(U[k], U[k - 1], WritingOf(a[k]))
    BY QuotedDefined
<1>3. \A i \in 0..n : Begins(U[n], U[i])
    BY QuotedBegin
<1> HIDE DEF n, U
<1>4. text \in Seq(Octet) /\ Len(text) \in Nat
    BY <1>1, <1>2, LenProperties
<1> HIDE DEF text
<1>5. r[0] = Stand(<<>>, 0) /\ RunsOver(r, text)
    BY <1>4, ReadQDefined DEF RunsOver
<1> HIDE DEF r
<1>6. 0 \in G
    <2>1. Len(U[0]) = 0
        BY <1>2
    <2>2. BytesMeant(a, 0) = <<>>
        BY DEF BytesMeant
    <2> QED BY <1>1, <1>5, <2>1, <2>2
<1>7. ASSUME NEW i \in 1..n, i - 1 \in G
      PROVE  i \in G
    <2> DEFINE x == U[i - 1]
               y == U[i]
               w == WritingOf(a[i])
               o == a[i][1]
               p == Len(x)
               s == BytesMeant(a, i - 1)
    <2>0. i \in 0..n /\ i - 1 \in 0..n
        BY <1>1
    <2>1. a[i] \in QuotedBytes
        BY ElementOfSeq DEF n
    <2>2. o \in Octet /\ Writes(w, o)
        BY <2>1, WritingIs DEF QuotedBytes
    <2>3. IsJoin(y, x, w) /\ x \in Seq(Octet)
        BY <1>2, <2>0
    <2>4. Begins(text, y)
        BY <1>3, <2>0 DEF text
    <2>5. r[p] = Stand(s, 0)
        BY <1>7
    <2>6. BytesMeant(a, i) = Append(s, o)
        BY OneMoreByte DEF n
    <2> HIDE DEF w, o, s, x, y
    <2>7. p \in Nat /\ Len(w) \in Nat
        BY <2>2, <2>3, LenProperties DEF Writes
    <2>8. Len(y) = p + Len(w) /\ \A j \in 1..Len(w) : y[p + j] = w[j]
        BY <2>3 DEF IsJoin
    <2>9. Len(y) <= Len(text) /\ \A j \in 1..Len(y) : text[j] = y[j]
        BY <2>4 DEF Begins
    <2> HIDE DEF p
    <2>10. p + Len(w) <= Len(text)
        BY <2>8, <2>9
    <2>11. \A j \in 1..Len(w) : text[p + j] = w[j]
        <3> TAKE j \in 1..Len(w)
        <3>1. p + j \in 1..Len(y)
            BY <2>7, <2>8
        <3> QED BY <2>8, <2>9, <3>1
    <2>12. r[p + Len(w)] = Stand(Append(s, o), 0)
        <3>1. Follows(text, p, w)
            BY <2>10, <2>11 DEF Follows
        <3> QED BY ONLY <1>4, <1>5, <2>2, <2>5, <2>7, <3>1, RunWriting
    <2>13. r[Len(y)] = Stand(BytesMeant(a, i), 0)
        BY <2>6, <2>8, <2>12
    <2> QED BY <2>0, <2>13 DEF y
<1>8. 0..n \subseteq G
    <2> HIDE DEF G
    <2> QED BY <1>1, <1>6, <1>7, BoundedInduction
<1>9. r[Len(text)] = Stand(BytesMeant(a, n), 0)
    BY <1>1, <1>8 DEF text
<1> DEFINE end == r[Len(text)]
<1>10. end.skip = 0 /\ end.out = BytesMeant(a, n)
    BY <1>9 DEF Stand
<1>11. dsDecodeQ(text) = IF end.skip > 0 THEN {} ELSE {end.out}
    BY DecodeQIs, Zenon DEF r
<1>12. dsDecodeQ(text) = {BytesMeant(a, n)}
    <2> HIDE DEF end
    <2>1. ~(end.skip > 0)
        BY <1>10
    <2> QED BY <1>10, <1>11, <2>1
<1> QED BY <1>12 DEF text, U, n

LEMMA EncodingsRead ==
    ASSUME DataArgs \subseteq Seq(Octet), QuotedArgs \subseteq Seq(QuotedBytes), CallTyped
    PROVE  EncodingRoundTrip
<1> DEFINE Data == /\ dsDecodeHex(dsEncodeHex(arg)) = arg
                   /\ (\A i \in DOMAIN arg : arg[i] # 0) =>
                        /\ dsDecodeBase64(dsEncodeBase64(arg)) = {arg}
                        /\ dsDecodeBase64(InLines(dsEncodeBase64(arg))) = {arg}
           Quoted == dsDecodeQ(QuotedUpto(arg)[Len(arg)]) = {[i \in DOMAIN arg |-> arg[i][1]]}
<1>1. ASSUME Called("encode")
      PROVE  Data
    <2> DEFINE d == arg
    <2>1. d \in Seq(Octet)
        <3>1. d \in DataArgs
            BY <1>1, Zenon DEF CallTyped, Called, arg
        <3> QED BY <3>1
    <2> HIDE DEF d
    <2>2. dsDecodeHex(dsEncodeHex(d)) = d
        BY <2>1, HexRoundTrip
    <2>3. ASSUME \A i \in DOMAIN d : d[i] # 0
          PROVE  dsDecodeBase64(dsEncodeBase64(d)) = {d} /\ dsDecodeBase64(InLines(dsEncodeBase64(d))) = {d}
        <3>1. NoZero(d)
            BY <2>1, <2>3 DEF NoZero
        <3> QED BY <2>1, <3>1, PlainRead, LinesRead
    <2> QED BY ONLY <2>2, <2>3, Zenon DEF d
<1>2. ASSUME Called("quoted")
      PROVE  Quoted
    <2> DEFINE a == arg
    <2>1. a \in Seq(QuotedBytes)
        <3>1. a \in QuotedArgs
            BY <1>2, Zenon DEF CallTyped, Called, arg
        <3> QED BY <3>1
    <2> HIDE DEF a
    <2>2. dsDecodeQ(QuotedUpto(a)[Len(a)]) = {BytesMeant(a, Len(a))}
        BY <2>1, QuotedRead
    <2>3. DOMAIN a = 1..Len(a)
        BY <2>1, LenProperties
    <2>4. BytesMeant(a, Len(a)) = [i \in DOMAIN a |-> a[i][1]]
        BY <2>3, Zenon DEF BytesMeant
    <2> QED BY ONLY <2>2, <2>4 DEF a
<1>3. EncodingRoundTrip <=> (Called("encode") => Data) /\ (Called("quoted") => Quoted)
    BY Zenon DEF EncodingRoundTrip, InLines, QuotedUpto, WritingOf, QuotedOf
<1> HIDE DEF Data, Quoted
<1> QED BY ONLY <1>1, <1>2, <1>3, Zenon

\* Bytes of every kind and number survive dsEncodeHex and dsDecodeHex; those without a
\* zero byte survive dsEncodeBase64 and dsDecodeBase64, also when the text is broken into
\* lines of a group each; and dsDecodeQ reads every text in which bytes are quoted, plain
\* or behind soft line breaks, in any order, as the bytes that were meant.
THEOREM EncodingsReadBack ==
    ASSUME DataArgs \subseteq Seq(Octet), QuotedArgs \subseteq Seq(QuotedBytes)
    PROVE  CodecsSpec => []EncodingRoundTrip
<1>1. CallTyped => EncodingRoundTrip
    BY EncodingsRead
<1> QED BY <1>1, Arguments, PTL
----------------------------------------------------------------------------
(* Messages of the log.                                                     *)

LogOps == {"push", "pop", "print", "values"}
LogCall == LogOps \X STRING \X Nat

\* The parts of a log, and the line that is being written.
LogIs(s, v, l, o) == [stack |-> s, verbosity |-> v, lines |-> l, open |-> o]
LineIs(n, k) == [name |-> n, parts |-> k]
Names == STRING \cup {"sys"}
LineSet == [name : Names, parts : Nat]

LEMMA SubSeqBegins ==
    ASSUME NEW T, NEW s, NEW n \in Nat, \A i \in 1..n : s[i] \in T
    PROVE  SubSeq(s, 1, n) \in Seq(T) /\ Len(SubSeq(s, 1, n)) = n /\ \A i \in 1..n : SubSeq(s, 1, n)[i] = s[i]
<1> DEFINE f == SubSeq(s, 1, n)
<1>1. /\ f \in Seq(T) /\ Len(f) = IF 1 <= n THEN n - 1 + 1 ELSE 0
      /\ \A i \in 1..(n - 1 + 1) : f[i] = s[1 + i - 1]
    BY SubSeqProperties
<1> HIDE DEF f
<1>2. f \in Seq(T) /\ Len(f) = n /\ \A i \in 1..n : f[i] = s[i]
    BY <1>1
<1> QED BY <1>2 DEF f

LEMMA LastOf ==
    ASSUME NEW T, NEW s \in Seq(T), NEW e \in T
    PROVE  /\ Append(s, e) \in Seq(T) /\ Len(Append(s, e)) = Len(s) + 1
           /\ Last(Append(s, e)) = e /\ Front(Append(s, e)) = s /\ Append(s, e) # <<>>
<1> DEFINE u == Append(s, e)
           n == Len(s)
           f == SubSeq(u, 1, n)
<1>1. /\ u \in Seq(T) /\ Len(u) = n + 1 /\ u[n + 1] = e /\ n \in Nat
      /\ \A i \in 1..n : u[i] = s[i]
    BY AppendProperties, LenProperties
<1> HIDE DEF u
<1>2. Last(u) = e
    BY <1>1 DEF Last
<1>3. f \in Seq(T) /\ Len(f) = n /\ \A i \in 1..n : f[i] = u[i]
    <2>1. \A i \in 1..n : u[i] \in T
        BY <1>1, ElementOfSeq
    <2> HIDE DEF n
    <2>2. SubSeq(u, 1, n) \in Seq(T) /\ Len(SubSeq(u, 1, n)) = n /\ \A i \in 1..n : SubSeq(u, 1, n)[i] = u[i]
        BY <1>1, <2>1, SubSeqBegins
    <2> QED BY <2>2
<1>4. f = s
    <2>1. \A i \in 1..n : f[i] = s[i]
        BY <1>1, <1>3
    <2> HIDE DEF f
    <2>2. Len(s) = n
        OBVIOUS
    <2> HIDE DEF n
    <2> QED BY <1>1, <1>3, <2>1, <2>2, SeqEqual
<1>5. Len(u) - 1 = n
    BY <1>1
<1>6. Front(u) = s
    BY <1>4, <1>5, Zenon DEF Front
<1>7. u # <<>>
    BY <1>1
<1> QED BY <1>1, <1>2, <1>6, <1>7 DEF u

LEMMA FrontIs ==
    ASSUME NEW T, NEW s \in Seq(T), s # <<>>
    PROVE  /\ Len(s) \in Nat /\ Len(s) >= 1 /\ Last(s) \in T
           /\ Front(s) \in Seq(T) /\ Len(Front(s)) = Len(s) - 1
           /\ \A i \in 1..(Len(s) - 1) : Front(s)[i] = s[i]
<1> DEFINE n == Len(s)
           f == SubSeq(s, 1, n - 1)
<1>1. n \in Nat /\ n >= 1
    BY LenProperties, EmptySeq
<1>2. Last(s) \in T
    <2>1. n \in 1..n
        BY <1>1
    <2>2. s[n] \in T
        BY <2>1, ElementOfSeq
    <2> QED BY <2>2 DEF Last
<1>3. f \in Seq(T) /\ Len(f) = n - 1 /\ \A i \in 1..(n - 1) : f[i] = s[i]
    <2> DEFINE m == n - 1
    <2>1. m \in Nat /\ \A i \in 1..m : s[i] \in T
        BY <1>1, ElementOfSeq
    <2> HIDE DEF m
    <2>2. SubSeq(s, 1, m) \in Seq(T) /\ Len(SubSeq(s, 1, m)) = m /\ \A i \in 1..m : SubSeq(s, 1, m)[i] = s[i]
        BY <2>1, SubSeqBegins
    <2> QED BY <2>2 DEF m
<1>4. Front(s) = f
    BY Zenon DEF Front
<1> HIDE DEF f
<1> QED BY <1>1, <1>2, <1>3, <1>4

\* What each operation does to the parts.
LEMMA LogFields ==
    ASSUME NEW s, NEW v, NEW l, NEW o
    PROVE  /\ LogIs(s, v, l, o).stack = s /\ LogIs(s, v, l, o).verbosity = v
           /\ LogIs(s, v, l, o).lines = l /\ LogIs(s, v, l, o).open = o
BY DEF LogIs

\* A log between two calls, and one with a line that has no end yet.
Closed(s, v, l) == LogIs(s, v, l, FALSE)
Opened(s, v, l) == LogIs(s, v, l, TRUE)
WriteWhole(log, p) == log_write(log, TRUE, TRUE, p)
WriteBegin(log) == log_write(log, TRUE, FALSE, 0)
WritePart(log) == log_write(log, FALSE, FALSE, 0)
WriteEnd(log) == log_write(log, FALSE, TRUE, 0)

StackSet(log, x, y) == [log EXCEPT !.stack = x, !.verbosity = y]
LinesSet(log, x, y) == [log EXCEPT !.lines = x, !.open = y]

LEMMA StackChanged ==
    ASSUME NEW s, NEW v, NEW l, NEW o, NEW x, NEW y
    PROVE  StackSet(LogIs(s, v, l, o), x, y) = LogIs(x, y, l, o)
<1>1. [LogIs(s, v, l, o) EXCEPT !.stack = x] = LogIs(x, v, l, o)
    BY DEF LogIs
<1>2. [LogIs(x, v, l, o) EXCEPT !.verbosity = y] = LogIs(x, y, l, o)
    BY DEF LogIs
<1> QED BY <1>1, <1>2 DEF StackSet

LEMMA LinesChanged ==
    ASSUME NEW s, NEW v, NEW l, NEW o, NEW x, NEW y
    PROVE  LinesSet(LogIs(s, v, l, o), x, y) = LogIs(s, v, x, y)
<1>1. [LogIs(s, v, l, o) EXCEPT !.lines = x] = LogIs(s, v, x, o)
    BY DEF LogIs
<1>2. [LogIs(s, v, x, o) EXCEPT !.open = y] = LogIs(s, v, x, y)
    BY DEF LogIs
<1> QED BY <1>1, <1>2 DEF LinesSet

LEMMA ClosedFields ==
    ASSUME NEW s, NEW v, NEW l
    PROVE  Closed(s, v, l).stack = s /\ Closed(s, v, l).verbosity = v /\ Closed(s, v, l).lines = l
<1> DEFINE d == FALSE
<1> HIDE DEF d
<1>1. LogIs(s, v, l, d).stack = s /\ LogIs(s, v, l, d).verbosity = v /\ LogIs(s, v, l, d).lines = l
    BY LogFields
<1> QED BY <1>1, Zenon DEF d, Closed

LEMMA ClosedOpen ==
    ASSUME NEW s, NEW v, NEW l
    PROVE  ~Closed(s, v, l).open
<1> DEFINE d == FALSE
<1> HIDE DEF d
<1>1. LogIs(s, v, l, d).open = d
    BY LogFields
<1>2. Closed(s, v, l).open = FALSE
    BY <1>1, Zenon DEF d, Closed
<1> QED BY <1>2

LEMMA ClosedChanged ==
    ASSUME NEW s, NEW v, NEW l, NEW x, NEW y
    PROVE  StackSet(Closed(s, v, l), x, y) = Closed(x, y, l)
<1> DEFINE d == FALSE
<1> HIDE DEF d
<1>1. StackSet(LogIs(s, v, l, d), x, y) = LogIs(x, y, l, d)
    BY StackChanged
<1> QED BY <1>1, Zenon DEF d, Closed

LEMMA PushIs ==
    ASSUME NEW rc, NEW s, NEW v, NEW l, NEW c, c[1] = "push"
    PROVE  Done(rc, Closed(s, v, l), c) =
             IF Len(s) = MaxStack THEN Closed(s, v, l)
             ELSE Closed(Append(s, c[2]), verbosity(rc, c[2]), l)
<1> DEFINE log == Closed(s, v, l)
           n == c[2]
           x == verbosity(rc, n)
<1>1. Done(rc, log, c) = push_component(rc, log, n)
    BY DEF Done
<1>2. push_component(rc, log, n) =
        IF Len(s) = MaxStack THEN log ELSE StackSet(log, Append(s, n), x)
    <2>1. log.stack = s
        BY ClosedFields
    <2> HIDE DEF log
    <2> QED BY <2>1, Zenon DEF push_component, StackSet
<1> HIDE DEF x
<1>3. StackSet(log, Append(s, n), x) = Closed(Append(s, n), x, l)
    BY ClosedChanged
<1> HIDE DEF log
<1> QED BY <1>1, <1>2, <1>3, Zenon DEF log, x

LEMMA PopIs ==
    ASSUME NEW rc, NEW s, NEW v, NEW l, NEW c, c[1] = "pop"
    PROVE  Done(rc, Closed(s, v, l), c) =
             IF Len(s) = 1 THEN Closed(s, v, l)
             ELSE Closed(Front(s), verbosity(rc, Last(Front(s))), l)
<1> DEFINE log == Closed(s, v, l)
           f == Front(s)
           x == verbosity(rc, Last(f))
<1>1. Done(rc, log, c) = pop_component(rc, log)
    BY DEF Done
<1>2. log.stack = s
    BY ClosedFields
<1>3. pop_component(rc, log) =
        IF Len(s) = 1 THEN log ELSE StackSet(log, f, x)
    <2> HIDE DEF log
    <2> QED BY <1>2, Zenon DEF pop_component, StackSet
<1> HIDE DEF x, f
<1>4. StackSet(log, f, x) = Closed(f, x, l)
    BY ClosedChanged
<1> HIDE DEF log
<1> QED BY <1>1, <1>3, <1>4, Zenon DEF log, x, f

LEMMA ClosedWritten ==
    ASSUME NEW s, NEW v, NEW l, NEW x, NEW y
    PROVE  LinesSet(Closed(s, v, l), x, y) = LogIs(s, v, x, y)
<1> DEFINE d == FALSE
<1> HIDE DEF d
<1>1. LinesSet(LogIs(s, v, l, d), x, y) = LogIs(s, v, x, y)
    BY LinesChanged
<1> QED BY <1>1, Zenon DEF d, Closed

LEMMA BannerWhole ==
    ASSUME NEW s, NEW v, NEW l, NEW p, p = 0 \/ ~(v < p)
    PROVE  WriteWhole(Closed(s, v, l), p) = Closed(s, v, Append(l, LineIs(Last(s), 1)))
<1> DEFINE log == Closed(s, v, l)
           n == Last(s)
           y == [name |-> n, parts |-> 0]
           z == Append(l, [y EXCEPT !.parts = @ + 1])
<1>1. log.stack = s /\ log.verbosity = v /\ log.lines = l
    BY ClosedFields
<1>2. log_write(log, TRUE, TRUE, p) = LinesSet(log, z, FALSE)
    <2> HIDE DEF log
    <2>1. current_name(log) = n
        BY <1>1 DEF current_name
    <2>2. ~(p # 0 /\ log.verbosity < p)
        BY <1>1
    <2>3. log_write(log, TRUE, TRUE, p) = LinesSet(log, z, ~TRUE)
        BY <1>1, <2>1, <2>2, Zenon DEF log_write, LinesSet
    <2>4. ~TRUE = FALSE
        OBVIOUS
    <2> QED BY <2>3, <2>4, Zenon
<1> HIDE DEF n
<1>3. [y EXCEPT !.parts = @ + 1] = LineIs(n, 1)
    BY DEF LineIs
<1>4. z = Append(l, LineIs(n, 1))
    BY <1>3
<1> HIDE DEF z
<1>5. LinesSet(log, z, FALSE) = LogIs(s, v, z, FALSE)
    <2> DEFINE d == FALSE
    <2> HIDE DEF d
    <2>1. LinesSet(log, z, d) = LogIs(s, v, z, d)
        BY ClosedWritten
    <2> QED BY <2>1, Zenon DEF d
<1> QED BY ONLY <1>2, <1>4, <1>5, Zenon DEF n, log, WriteWhole, Closed

LEMMA BannerBegun ==
    ASSUME NEW s, NEW v, NEW l
    PROVE  WriteBegin(Closed(s, v, l)) = Opened(s, v, Append(l, LineIs(Last(s), 1)))
<1> DEFINE p == 0
           log == Closed(s, v, l)
           n == Last(s)
           y == [name |-> n, parts |-> 0]
           z == Append(l, [y EXCEPT !.parts = @ + 1])
<1>1. log.stack = s /\ log.verbosity = v /\ log.lines = l
    BY ClosedFields
<1>2. log_write(log, TRUE, FALSE, p) = LinesSet(log, z, TRUE)
    <2> HIDE DEF log
    <2>1. current_name(log) = n
        BY <1>1 DEF current_name
    <2>2. ~(p # 0 /\ log.verbosity < p)
        OBVIOUS
    <2>3. log_write(log, TRUE, FALSE, p) = LinesSet(log, z, ~FALSE)
        BY <1>1, <2>1, <2>2, Zenon DEF log_write, LinesSet
    <2>4. ~FALSE = TRUE
        OBVIOUS
    <2> QED BY <2>3, <2>4, Zenon
<1> HIDE DEF n
<1>3. [y EXCEPT !.parts = @ + 1] = LineIs(n, 1)
    BY DEF LineIs
<1>4. z = Append(l, LineIs(n, 1))
    BY <1>3
<1> HIDE DEF z
<1>5. LinesSet(log, z, TRUE) = LogIs(s, v, z, TRUE)
    <2> DEFINE d == TRUE
    <2> HIDE DEF d
    <2>1. LinesSet(log, z, d) = LogIs(s, v, z, d)
        BY ClosedWritten
    <2> QED BY <2>1, Zenon DEF d
<1> QED BY ONLY <1>2, <1>4, <1>5, Zenon DEF n, log, WriteBegin, Opened, p

LEMMA BelowVerbosity ==
    ASSUME NEW log, NEW p, p # 0, log.verbosity < p
    PROVE  WriteWhole(log, p) = log
BY Zenon DEF log_write, WriteWhole

LEMMA PrintIs ==
    ASSUME NEW rc, NEW s, NEW v, NEW l, NEW c, c[1] = "print"
    PROVE  Done(rc, Closed(s, v, l), c) =
             IF c[3] # 0 /\ v < c[3] THEN Closed(s, v, l)
             ELSE Closed(s, v, Append(l, LineIs(Last(s), 1)))
<1> DEFINE log == Closed(s, v, l)
           p == c[3]
<1>1. Done(rc, log, c) = print(log, p)
    BY DEF Done
<1>2. print(log, p) = WriteWhole(log, p)
    BY Zenon DEF print, WriteWhole
<1> HIDE DEF p
<1>3. CASE p # 0 /\ v < p
    <2>1. log.verbosity < p
        BY <1>3, ClosedFields
    <2> HIDE DEF log
    <2> QED BY <1>1, <1>2, <1>3, <2>1, BelowVerbosity, Zenon DEF log, p
<1>4. CASE ~(p # 0 /\ v < p)
    <2>1. WriteWhole(log, p) = Closed(s, v, Append(l, LineIs(Last(s), 1)))
        <3>1. p = 0 \/ ~(v < p)
            BY <1>4
        <3> QED BY <3>1, BannerWhole
    <2> HIDE DEF log
    <2> QED BY <1>1, <1>2, <1>4, <2>1, Zenon DEF log, p
<1> QED BY <1>3, <1>4

\* Text behind the last line.
LEMMA AddedOpen ==
    ASSUME NEW s, NEW v, NEW l \in Seq(LineSet), NEW n \in Names, NEW k \in Nat
    PROVE  WritePart(Opened(s, v, Append(l, LineIs(n, k)))) = Opened(s, v, Append(l, LineIs(n, k + 1)))
<1> DEFINE y == LineIs(n, k)
           u == Append(l, y)
           o == TRUE
           log == LogIs(s, v, u, o)
           z == Append(l, LineIs(n, k + 1))
<1>1. y \in LineSet
    BY DEF LineIs, LineSet
<1>2. [y EXCEPT !.parts = @ + 1] = LineIs(n, k + 1)
    BY DEF LineIs
<1> HIDE DEF y, o
<1>3. Last(u) = y /\ Front(u) = l
    BY ONLY <1>1, l \in Seq(LineSet), LastOf
<1> HIDE DEF u
<1>4. log.lines = u
    BY LogFields
<1>5. log_write(log, FALSE, FALSE, 0) = LinesSet(log, z, TRUE)
    <2> HIDE DEF log
    <2>1. log_write(log, FALSE, FALSE, 0) = LinesSet(log, Append(l, [y EXCEPT !.parts = @ + 1]), ~FALSE)
        BY <1>3, <1>4, Zenon DEF log_write, LinesSet
    <2>2. ~FALSE = TRUE
        OBVIOUS
    <2> QED BY <1>2, <2>1, <2>2, Zenon
<1> HIDE DEF z
<1>6. LinesSet(log, z, TRUE) = LogIs(s, v, z, TRUE)
    <2> DEFINE d == TRUE
    <2> HIDE DEF d
    <2>1. LinesSet(log, z, d) = LogIs(s, v, z, d)
        BY LinesChanged
    <2> QED BY <2>1, Zenon DEF d
<1> QED BY ONLY <1>5, <1>6, Zenon DEF z, u, y, o, log, WritePart, Opened, Opened

LEMMA AddedEnded ==
    ASSUME NEW s, NEW v, NEW l \in Seq(LineSet), NEW n \in Names, NEW k \in Nat
    PROVE  WriteEnd(Opened(s, v, Append(l, LineIs(n, k)))) = Closed(s, v, Append(l, LineIs(n, k + 1)))
<1> DEFINE y == LineIs(n, k)
           u == Append(l, y)
           o == TRUE
           log == LogIs(s, v, u, o)
           z == Append(l, LineIs(n, k + 1))
<1>1. y \in LineSet
    BY DEF LineIs, LineSet
<1>2. [y EXCEPT !.parts = @ + 1] = LineIs(n, k + 1)
    BY DEF LineIs
<1> HIDE DEF y, o
<1>3. Last(u) = y /\ Front(u) = l
    BY ONLY <1>1, l \in Seq(LineSet), LastOf
<1> HIDE DEF u
<1>4. log.lines = u
    BY LogFields
<1>5. log_write(log, FALSE, TRUE, 0) = LinesSet(log, z, FALSE)
    <2> HIDE DEF log
    <2>1. log_write(log, FALSE, TRUE, 0) = LinesSet(log, Append(l, [y EXCEPT !.parts = @ + 1]), ~TRUE)
        BY <1>3, <1>4, Zenon DEF log_write, LinesSet
    <2>2. ~TRUE = FALSE
        OBVIOUS
    <2> QED BY <1>2, <2>1, <2>2, Zenon
<1> HIDE DEF z
<1>6. LinesSet(log, z, FALSE) = LogIs(s, v, z, FALSE)
    <2> DEFINE d == FALSE
    <2> HIDE DEF d
    <2>1. LinesSet(log, z, d) = LogIs(s, v, z, d)
        BY LinesChanged
    <2> QED BY <2>1, Zenon DEF d
<1> QED BY ONLY <1>5, <1>6, Zenon DEF z, u, y, o, log, WriteEnd, Closed, Opened

\* A line that is written in parts.
AddedUpto(log, n) ==
    CHOOSE F : F = [i \in 0..n |-> IF i = 0 THEN WriteBegin(log) ELSE WritePart(F[i - 1])]
AddStays(S, log, n) ==
    /\ WriteBegin(log) \in S /\ n \in Nat
    /\ \A i \in 1..n : \A s \in S : WritePart(s) \in S

LEMMA AddedRecursion ==
    ASSUME NEW S, NEW log, NEW n, AddStays(S, log, n)
    PROVE  /\ AddedUpto(log, n) \in [0..n -> S] /\ AddedUpto(log, n)[0] = WriteBegin(log)
           /\ \A i \in 1..n : AddedUpto(log, n)[i] = WritePart(AddedUpto(log, n)[i - 1])
<1> DEFINE m == n
           z == WriteBegin(log)
           step == [i \in 1..m |-> [s \in S |-> WritePart(s)]]
           Solves(F) == F = [i \in 0..m |-> IF i = 0 THEN z ELSE WritePart(F[i - 1])]
<1>0. m \in Nat
    BY DEF AddStays
<1>1. z \in S /\ \A i \in 1..m : \A s \in S : WritePart(s) \in S
    BY DEF AddStays
<1> HIDE DEF m, z
<1>2. step \in [1..m -> [S -> S]]
    BY <1>1
<1>3. PICK f \in [0..m -> S] : f[0] = z /\ \A i \in 1..m : f[i] = step[i][f[i - 1]]
    <2>1. z \in S /\ m \in Nat
        BY <1>0, <1>1
    <2> HIDE DEF step
    <2>2. \E f \in [0..m -> S] : f[0] = z /\ \A i \in 1..m : f[i] = step[i][f[i - 1]]
        BY ONLY <1>2, <2>1, PrimitiveRecursion
    <2> QED BY <2>2, Zenon
<1>4. Solves(f)
    <2>1. ASSUME NEW i \in 0..m
          PROVE  f[i] = IF i = 0 THEN z ELSE WritePart(f[i - 1])
        <3>1. CASE i = 0
            BY <1>3, <3>1
        <3>2. CASE i # 0
            <4>1. i \in 1..m /\ f[i - 1] \in S
                BY <1>0, <3>2
            <4>2. f[i] = step[i][f[i - 1]]
                BY <1>3, <4>1
            <4>3. step[i][f[i - 1]] = WritePart(f[i - 1])
                <5> DEFINE y == f[i - 1]
                <5>1. y \in S
                    BY <4>1
                <5> HIDE DEF y
                <5>2. step[i][y] = WritePart(y)
                    BY <4>1, <5>1
                <5> QED BY <5>2 DEF y
            <4> QED BY <3>2, <4>2, <4>3
        <3> QED BY <3>1, <3>2
    <2>2. f = [i \in 0..m |-> f[i]]
        OBVIOUS
    <2> HIDE DEF step
    <2> QED BY <2>1, <2>2
<1> HIDE DEF step
<1> DEFINE T == AddedUpto(log, n)
<1>5. Solves(T)
    <2>1. T = CHOOSE F : Solves(F)
        BY Zenon DEF AddedUpto, m, z
    <2> HIDE DEF Solves
    <2> QED BY <1>4, <2>1
<1> HIDE DEF T
<1>6. DOMAIN T = 0..m /\ T = [i \in 0..m |-> T[i]]
    BY <1>5
<1>7. \A i \in 0..m : T[i] = IF i = 0 THEN z ELSE WritePart(T[i - 1])
    BY <1>5
<1> HIDE DEF Solves
<1>8. T[0] = z /\ \A i \in 1..m : T[i] = WritePart(T[i - 1])
    BY <1>0, <1>7
<1> DEFINE G == {i \in 0..m : T[i] \in S}
<1>9. 0 \in G
    BY <1>0, <1>1, <1>8
<1>10. ASSUME NEW i \in 1..m, i - 1 \in G
       PROVE  i \in G
    BY <1>1, <1>8, <1>10
<1>11. 0..m \subseteq G
    <2> HIDE DEF G
    <2> QED BY <1>0, <1>9, <1>10, BoundedInduction
<1>12. T \in [0..m -> S]
    BY <1>6, <1>11
<1> QED BY <1>8, <1>12 DEF T, m, z

LEMMA ValuesAre ==
    ASSUME NEW log, NEW n
    PROVE  print_values(log, n) = WriteEnd(AddedUpto(log, n)[n])
BY Zenon DEF print_values, AddedUpto, WriteBegin, WritePart, WriteEnd

LEMMA ValuesIs ==
    ASSUME NEW rc, NEW s, NEW v, NEW l \in Seq(LineSet), NEW c, c[1] = "values", c[3] \in Nat,
           Last(s) \in Names
    PROVE  Done(rc, Closed(s, v, l), c) = Closed(s, v, Append(l, LineIs(Last(s), c[3] + 2)))
<1> DEFINE log == Closed(s, v, l)
           n == c[3]
           w == Last(s)
           Begun(k) == Opened(s, v, Append(l, LineIs(w, k)))
           S == {Begun(k) : k \in Nat}
           A == AddedUpto(log, n)
           G == {i \in 0..n : A[i] = Begun(i + 1)}
<1>1. Done(rc, log, c) = print_values(log, n)
    BY DEF Done
<1>2. n \in Nat /\ w \in Names
    OBVIOUS
<1>3. WriteBegin(log) = Begun(1)
    BY BannerBegun
<1> HIDE DEF n, w, log
<1>4. ASSUME NEW k \in Nat
      PROVE  WriteEnd(Begun(k)) = Closed(s, v, Append(l, LineIs(w, k + 1)))
    BY <1>2, AddedEnded
<1>5. ASSUME NEW k \in Nat
      PROVE  WritePart(Begun(k)) = Begun(k + 1) /\ k + 1 \in Nat
    BY <1>2, AddedOpen
<1> HIDE DEF Begun
<1>6. AddStays(S, log, n)
    <2>1. Begun(1) \in S
        OBVIOUS
    <2>2. ASSUME NEW x \in S
          PROVE  WritePart(x) \in S
        <3>1. PICK k \in Nat : x = Begun(k)
            OBVIOUS
        <3>2. WritePart(x) = Begun(k + 1) /\ k + 1 \in Nat
            BY <1>5, <3>1
        <3> QED BY <3>2
    <2> HIDE DEF S
    <2> QED BY <1>2, <1>3, <2>1, <2>2 DEF AddStays
<1> HIDE DEF S
<1>7. A[0] = WriteBegin(log) /\ \A i \in 1..n : A[i] = WritePart(A[i - 1])
    BY ONLY <1>6, AddedRecursion
<1> HIDE DEF A
<1>8. 0 \in G
    <2>1. 0 + 1 = 1 /\ 0 \in 0..n
        BY <1>2
    <2>2. A[0] = Begun(1)
        BY <1>3, <1>7
    <2> QED BY <2>1, <2>2
<1>9. ASSUME NEW i \in 1..n, i - 1 \in G
      PROVE  i \in G
    <2>1. A[i - 1] = Begun((i - 1) + 1) /\ (i - 1) + 1 = i /\ i \in Nat /\ i \in 0..n
        BY <1>2, <1>9
    <2>2. A[i - 1] = Begun(i)
        BY <2>1
    <2>3. A[i] = WritePart(Begun(i))
        BY <1>7, <2>2
    <2>4. A[i] = Begun(i + 1)
        BY <1>5, <2>1, <2>3
    <2> QED BY <2>1, <2>4
<1>10. 0..n \subseteq G
    <2> HIDE DEF G
    <2> QED BY <1>2, <1>8, <1>9, BoundedInduction
<1>11. A[n] = Begun(n + 1) /\ n + 1 \in Nat /\ (n + 1) + 1 = n + 2
    BY <1>2, <1>10
<1>12. WriteEnd(A[n]) = Closed(s, v, Append(l, LineIs(w, n + 2)))
    BY <1>4, <1>11
<1>13. print_values(log, n) = WriteEnd(A[n])
    BY ONLY ValuesAre, Zenon DEF A
<1> QED BY ONLY <1>1, <1>12, <1>13, Zenon DEF log, w, n

\* The log after every call.
LogUpto(rc, c) == CHOOSE F : F = [i \in 0..Len(c) |-> IF i = 0 THEN NewLog ELSE Done(rc, F[i - 1], c[i])]
LogStep(s, rc, c, i) == Done(rc, s, c[i])
LogStays(S, rc, c) ==
    /\ NewLog \in S /\ Len(c) \in Nat
    /\ \A i \in 1..Len(c) : \A s \in S : LogStep(s, rc, c, i) \in S

LEMMA LogRecursion ==
    ASSUME NEW S, NEW rc, NEW c, LogStays(S, rc, c)
    PROVE  /\ LogUpto(rc, c) \in [0..Len(c) -> S] /\ LogUpto(rc, c)[0] = NewLog
           /\ \A i \in 1..Len(c) : LogUpto(rc, c)[i] = LogStep(LogUpto(rc, c)[i - 1], rc, c, i)
<1> DEFINE m == Len(c)
           z == NewLog
           step == [i \in 1..m |-> [s \in S |-> LogStep(s, rc, c, i)]]
           Solves(F) == F = [i \in 0..m |-> IF i = 0 THEN z ELSE LogStep(F[i - 1], rc, c, i)]
<1>0. m \in Nat
    BY DEF LogStays
<1>1. z \in S /\ \A i \in 1..m : \A s \in S : LogStep(s, rc, c, i) \in S
    BY DEF LogStays
<1> HIDE DEF m, z
<1>2. step \in [1..m -> [S -> S]]
    BY <1>1
<1>3. PICK f \in [0..m -> S] : f[0] = z /\ \A i \in 1..m : f[i] = step[i][f[i - 1]]
    <2>1. z \in S /\ m \in Nat
        BY <1>0, <1>1
    <2> HIDE DEF step
    <2>2. \E f \in [0..m -> S] : f[0] = z /\ \A i \in 1..m : f[i] = step[i][f[i - 1]]
        BY ONLY <1>2, <2>1, PrimitiveRecursion
    <2> QED BY <2>2, Zenon
<1>4. Solves(f)
    <2>1. ASSUME NEW i \in 0..m
          PROVE  f[i] = IF i = 0 THEN z ELSE LogStep(f[i - 1], rc, c, i)
        <3>1. CASE i = 0
            BY <1>3, <3>1
        <3>2. CASE i # 0
            <4>1. i \in 1..m /\ f[i - 1] \in S
                BY <1>0, <3>2
            <4>2. f[i] = step[i][f[i - 1]]
                BY <1>3, <4>1
            <4>3. step[i][f[i - 1]] = LogStep(f[i - 1], rc, c, i)
                <5> DEFINE y == f[i - 1]
                <5>1. y \in S
                    BY <4>1
                <5> HIDE DEF y
                <5>2. step[i][y] = LogStep(y, rc, c, i)
                    BY <4>1, <5>1
                <5> QED BY <5>2 DEF y
            <4> QED BY <3>2, <4>2, <4>3
        <3> QED BY <3>1, <3>2
    <2>2. f = [i \in 0..m |-> f[i]]
        OBVIOUS
    <2> HIDE DEF step
    <2> QED BY <2>1, <2>2
<1> HIDE DEF step
<1> DEFINE T == LogUpto(rc, c)
<1>5. Solves(T)
    <2>1. T = CHOOSE F : Solves(F)
        BY Zenon DEF LogUpto, LogStep, m, z
    <2> HIDE DEF Solves
    <2> QED BY <1>4, <2>1
<1> HIDE DEF T
<1>6. DOMAIN T = 0..m /\ T = [i \in 0..m |-> T[i]]
    BY <1>5
<1>7. \A i \in 0..m : T[i] = IF i = 0 THEN z ELSE LogStep(T[i - 1], rc, c, i)
    BY <1>5
<1> HIDE DEF Solves
<1>8. T[0] = z /\ \A i \in 1..m : T[i] = LogStep(T[i - 1], rc, c, i)
    BY <1>0, <1>7
<1> DEFINE G == {i \in 0..m : T[i] \in S}
<1>9. 0 \in G
    BY <1>0, <1>1, <1>8
<1>10. ASSUME NEW i \in 1..m, i - 1 \in G
       PROVE  i \in G
    BY <1>1, <1>8, <1>10
<1>11. 0..m \subseteq G
    <2> HIDE DEF G
    <2> QED BY <1>0, <1>9, <1>10, BoundedInduction
<1>12. T \in [0..m -> S]
    BY <1>6, <1>11
<1> QED BY <1>8, <1>12 DEF T, m, z

LEMMA LogAfterIs ==
    ASSUME NEW rc, NEW c
    PROVE  LogAfter(rc, c) = LogUpto(rc, c)[Len(c)]
BY Zenon DEF LogAfter, LogUpto

Levels(rc) == \A m \in DOMAIN rc : rc[m] \in Nat
Stacks == Seq(Names) \ {<<>>}

LEMMA LevelNat ==
    ASSUME NEW rc, Levels(rc), NEW m
    PROVE  verbosity(rc, m) \in Nat
BY DEF verbosity, Levels

LEMMA CallFields ==
    ASSUME NEW c \in LogCall
    PROVE  c[1] \in LogOps /\ c[2] \in Names /\ c[3] \in Nat
BY DEF LogCall, Names

\* Between two calls every line has its end.
ClosedLogs == {Closed(x[1], x[2], x[3]) : x \in Stacks \X Nat \X Seq(LineSet)}

LEMMA ClosedIn ==
    ASSUME NEW s \in Stacks, NEW v \in Nat, NEW l \in Seq(LineSet)
    PROVE  Closed(s, v, l) \in ClosedLogs
<1> DEFINE x == <<s, v, l>>
<1>1. x \in Stacks \X Nat \X Seq(LineSet) /\ x[1] = s /\ x[2] = v /\ x[3] = l
    OBVIOUS
<1> HIDE DEF x
<1> QED BY <1>1 DEF ClosedLogs

LEMMA ClosedParts ==
    ASSUME NEW g \in ClosedLogs
    PROVE  /\ g = Closed(g.stack, g.verbosity, g.lines)
           /\ g.stack \in Stacks /\ g.verbosity \in Nat /\ g.lines \in Seq(LineSet)
<1>1. PICK x \in Stacks \X Nat \X Seq(LineSet) : g = Closed(x[1], x[2], x[3])
    BY DEF ClosedLogs
<1> DEFINE s == x[1]
           v == x[2]
           l == x[3]
<1>2. s \in Stacks /\ v \in Nat /\ l \in Seq(LineSet) /\ g = Closed(s, v, l)
    BY <1>1
<1> HIDE DEF s, v, l
<1>3. g.stack = s /\ g.verbosity = v /\ g.lines = l
    BY <1>2, ClosedFields
<1> QED BY <1>2, <1>3

LEMMA LineIn ==
    ASSUME NEW s \in Stacks, NEW l \in Seq(LineSet), NEW k \in Nat
    PROVE  Append(l, LineIs(Last(s), k)) \in Seq(LineSet) /\ Last(s) \in Names
<1>1. Last(s) \in Names
    BY FrontIs DEF Stacks
<1>2. LineIs(Last(s), k) \in LineSet
    BY <1>1 DEF LineIs, LineSet
<1> QED BY <1>1, <1>2, AppendProperties

LEMMA DoneClosed ==
    ASSUME NEW rc, Levels(rc), NEW g \in ClosedLogs, NEW c \in LogCall
    PROVE  Done(rc, g, c) \in ClosedLogs
<1> DEFINE s == g.stack
           v == g.verbosity
           l == g.lines
<1>1. g = Closed(s, v, l) /\ s \in Stacks /\ v \in Nat /\ l \in Seq(LineSet)
    BY ClosedParts
<1>2. c[1] \in LogOps /\ c[2] \in Names /\ c[3] \in Nat
    BY CallFields
<1> HIDE DEF s, v, l
<1>3. CASE c[1] = "push"
    <2>1. Done(rc, g, c) = IF Len(s) = MaxStack THEN g ELSE Closed(Append(s, c[2]), verbosity(rc, c[2]), l)
        BY <1>1, <1>3, PushIs
    <2>2. Append(s, c[2]) \in Stacks
        BY <1>1, <1>2, LastOf DEF Stacks
    <2>3. Closed(Append(s, c[2]), verbosity(rc, c[2]), l) \in ClosedLogs
        BY <1>1, <2>2, LevelNat, ClosedIn
    <2> QED BY <2>1, <2>3
<1>4. CASE c[1] = "pop"
    <2> DEFINE f == Front(s)
    <2>1. Done(rc, g, c) = IF Len(s) = 1 THEN g ELSE Closed(f, verbosity(rc, Last(f)), l)
        BY <1>1, <1>4, PopIs
    <2>2. CASE Len(s) = 1
        BY <2>1, <2>2
    <2>3. CASE Len(s) # 1
        <3>1. Len(s) \in Nat /\ Len(s) >= 1 /\ f \in Seq(Names) /\ Len(f) = Len(s) - 1
            BY <1>1, FrontIs DEF Stacks
        <3>2. Len(f) # 0
            BY <2>3, <3>1
        <3>3. f \in Stacks
            BY <3>1, <3>2, EmptySeq DEF Stacks
        <3> HIDE DEF f
        <3>4. Closed(f, verbosity(rc, Last(f)), l) \in ClosedLogs
            BY <1>1, <3>3, LevelNat, ClosedIn
        <3> QED BY <2>1, <2>3, <3>4
    <2> QED BY <2>2, <2>3
<1>5. CASE c[1] = "print"
    <2>1. Done(rc, g, c) = IF c[3] # 0 /\ v < c[3] THEN g ELSE Closed(s, v, Append(l, LineIs(Last(s), 1)))
        BY <1>1, <1>5, PrintIs
    <2>2. Closed(s, v, Append(l, LineIs(Last(s), 1))) \in ClosedLogs
        <3>1. 1 \in Nat
            OBVIOUS
        <3> QED BY <1>1, <3>1, LineIn, ClosedIn
    <2> QED BY <2>1, <2>2
<1>6. CASE c[1] = "values"
    <2>1. Last(s) \in Names /\ c[3] + 2 \in Nat
        BY <1>1, <1>2, FrontIs DEF Stacks
    <2>2. Done(rc, g, c) = Closed(s, v, Append(l, LineIs(Last(s), c[3] + 2)))
        BY <1>1, <1>2, <1>6, <2>1, ValuesIs
    <2>3. Closed(s, v, Append(l, LineIs(Last(s), c[3] + 2))) \in ClosedLogs
        BY <1>1, <2>1, LineIn, ClosedIn
    <2> QED BY <2>2, <2>3
<1> QED BY <1>2, <1>3, <1>4, <1>5, <1>6 DEF LogOps

LEMMA NewLogIs ==
    /\ NewLog = Closed(<<"sys">>, 99, <<>>) /\ NewLog \in ClosedLogs
    /\ NewLog.stack = <<"sys">> /\ NewLog.verbosity = 99
<1> DEFINE s == <<"sys">>
           l == <<>>
<1>1. NewLog = Closed(s, 99, l)
    BY Zenon DEF NewLog, Closed, LogIs
<1>2. s \in Stacks /\ l \in Seq(LineSet) /\ 99 \in Nat
    <2>1. "sys" \in Names
        BY DEF Names
    <2>2. s \in Seq(Names) /\ Len(s) = 1
        BY <2>1
    <2>3. <<>> \in Seq(LineSet) /\ Len(<<>>) = 0 /\ 99 \in Nat
        BY EmptySeq
    <2>4. s # <<>>
        BY <2>2, <2>3
    <2> QED BY <2>2, <2>3, <2>4 DEF Stacks
<1> HIDE DEF s, l
<1>3. Closed(s, 99, l) \in ClosedLogs
    BY <1>2, ClosedIn
<1>4. Closed(s, 99, l).stack = s /\ Closed(s, 99, l).verbosity = 99
    BY ClosedFields
<1> QED BY <1>1, <1>3, <1>4 DEF s, l

LEMMA LogDefined ==
    ASSUME NEW rc, Levels(rc), NEW c \in Seq(LogCall)
    PROVE  /\ LogUpto(rc, c) \in [0..Len(c) -> ClosedLogs] /\ LogUpto(rc, c)[0] = NewLog
           /\ \A i \in 1..Len(c) : LogUpto(rc, c)[i] = Done(rc, LogUpto(rc, c)[i - 1], c[i])
<1> DEFINE S == ClosedLogs
<1>1. NewLog \in S /\ Len(c) \in Nat
    BY NewLogIs, LenProperties
<1>2. ASSUME NEW i \in 1..Len(c), NEW s \in S
      PROVE  LogStep(s, rc, c, i) \in S
    <2>1. c[i] \in LogCall
        BY ElementOfSeq
    <2> QED BY <2>1, DoneClosed DEF LogStep
<1> HIDE DEF S
<1>3. LogStays(S, rc, c)
    BY <1>1, <1>2 DEF LogStays
<1>4. /\ LogUpto(rc, c) \in [0..Len(c) -> S] /\ LogUpto(rc, c)[0] = NewLog
      /\ \A i \in 1..Len(c) : LogUpto(rc, c)[i] = LogStep(LogUpto(rc, c)[i - 1], rc, c, i)
    BY ONLY <1>3, LogRecursion
<1> QED BY <1>4, Zenon DEF S, LogStep

\* The calls before the last one do what they do without it.
LEMMA LogBefore ==
    ASSUME NEW rc, Levels(rc), NEW c \in Seq(LogCall), c # <<>>
    PROVE  LogAfter(rc, Front(c)) = LogUpto(rc, c)[Len(c) - 1]
<1> DEFINE f == Front(c)
           n == Len(c) - 1
           U == LogUpto(rc, c)
           V == LogUpto(rc, f)
           G == {i \in 0..n : V[i] = U[i]}
<1>1. Len(c) = n + 1 /\ n \in Nat /\ f \in Seq(LogCall) /\ Len(f) = n /\ \A i \in 1..n : f[i] = c[i]
    BY FrontIs
<1>2. U[0] = NewLog /\ \A i \in 1..(n + 1) : U[i] = Done(rc, U[i - 1], c[i])
    BY <1>1, LogDefined
<1>3. V[0] = NewLog /\ \A i \in 1..n : V[i] = Done(rc, V[i - 1], f[i])
    <2> HIDE DEF f, n
    <2>1. /\ V[0] = NewLog
          /\ \A i \in 1..Len(f) : V[i] = Done(rc, V[i - 1], f[i])
        BY <1>1, LogDefined
    <2> QED BY <1>1, <2>1
<1>4. LogAfter(rc, f) = V[Len(f)]
    BY LogAfterIs
<1> HIDE DEF f, n, U, V
<1>5. 0 \in G
    BY <1>1, <1>2, <1>3
<1>6. ASSUME NEW i \in 1..n, i - 1 \in G
      PROVE  i \in G
    <2>1. i \in 1..(n + 1) /\ i \in 0..n
        BY <1>1
    <2>2. V[i - 1] = U[i - 1]
        BY <1>6
    <2>3. V[i] = U[i]
        BY <1>1, <1>2, <1>3, <2>1, <2>2
    <2> QED BY <2>1, <2>3
<1>7. 0..n \subseteq G
    <2> HIDE DEF G
    <2> QED BY <1>1, <1>5, <1>6, BoundedInduction
<1>8. V[n] = U[n]
    BY <1>1, <1>7
<1>9. LogAfter(rc, f) = U[n]
    BY <1>1, <1>4, <1>8
<1> QED BY <1>9 DEF f, n, U

\* Scopes: how many are open, and which.
IsPush(c, i) == c[i][1] = "push"
IsPop(c, i) == c[i][1] = "pop"
CallsOf(c, w, i) == {j \in 1..i : c[j][1] = w}
ScopeDepth(c, i) == Cardinality(CallsOf(c, "push", i)) - Cardinality(CallsOf(c, "pop", i))
Pushed(c, i) == \E j \in 1..i : IsPush(c, j)
OpenAt(c, j, i) == IsPush(c, j) /\ \A k \in j..i : ScopeDepth(c, k) >= ScopeDepth(c, j)

LEMMA CountStep ==
    ASSUME NEW c, NEW w, NEW i \in Nat \ {0}
    PROVE  /\ Cardinality(CallsOf(c, w, i - 1)) \in Nat
           /\ c[i][1] = w => Cardinality(CallsOf(c, w, i)) = Cardinality(CallsOf(c, w, i - 1)) + 1
           /\ c[i][1] # w => Cardinality(CallsOf(c, w, i)) = Cardinality(CallsOf(c, w, i - 1))
<1> DEFINE p == CallsOf(c, w, i - 1)
           q == CallsOf(c, w, i)
<1>1. (\A j \in 1..i : j = i \/ j \in 1..(i - 1)) /\ (\A j \in 1..(i - 1) : j \in 1..i /\ j # i) /\ i \in 1..i
    OBVIOUS
<1>2. IsFiniteSet(p) /\ Cardinality(p) \in Nat
    <2>1. IsFiniteSet(1..(i - 1))
        BY FS_Interval
    <2>2. p \subseteq 1..(i - 1)
        BY DEF CallsOf
    <2> HIDE DEF p
    <2> QED BY <2>1, <2>2, FS_Subset, FS_CardinalityType
<1>3. i \notin p
    BY <1>1 DEF CallsOf
<1>4. ASSUME c[i][1] = w
      PROVE  Cardinality(q) = Cardinality(p) + 1
    <2>1. q = p \cup {i}
        BY <1>1, <1>4 DEF CallsOf
    <2> HIDE DEF p, q
    <2> QED BY <1>2, <1>3, <2>1, FS_AddElement
<1>5. ASSUME c[i][1] # w
      PROVE  Cardinality(q) = Cardinality(p)
    <2>1. q = p
        BY <1>1, <1>5 DEF CallsOf
    <2> HIDE DEF p, q
    <2> QED BY <2>1
<1> HIDE DEF p, q
<1> QED BY <1>2, <1>4, <1>5 DEF p, q

\* How many are open: one more behind a push, one less behind a pop.
DepthStep(c, i) ==
    /\ ScopeDepth(c, i - 1) \in Int /\ ScopeDepth(c, i) \in Int
    /\ IsPush(c, i) => ScopeDepth(c, i) = ScopeDepth(c, i - 1) + 1
    /\ IsPop(c, i) => ScopeDepth(c, i) = ScopeDepth(c, i - 1) - 1
    /\ ~IsPush(c, i) /\ ~IsPop(c, i) => ScopeDepth(c, i) = ScopeDepth(c, i - 1)

LEMMA DepthSteps ==
    ASSUME NEW c, NEW i \in Nat \ {0}
    PROVE  DepthStep(c, i) /\ ~(IsPush(c, i) /\ IsPop(c, i))
<1> DEFINE a == Cardinality(CallsOf(c, "push", i - 1))
           b == Cardinality(CallsOf(c, "pop", i - 1))
           x == Cardinality(CallsOf(c, "push", i))
           y == Cardinality(CallsOf(c, "pop", i))
<1>1. a \in Nat /\ (IsPush(c, i) => x = a + 1) /\ (~IsPush(c, i) => x = a)
    BY CountStep DEF IsPush
<1>2. b \in Nat /\ (IsPop(c, i) => y = b + 1) /\ (~IsPop(c, i) => y = b)
    BY CountStep DEF IsPop
<1>3. ScopeDepth(c, i - 1) = a - b /\ ScopeDepth(c, i) = x - y
    BY DEF ScopeDepth
<1>4. ~(IsPush(c, i) /\ IsPop(c, i))
    BY DEF IsPush, IsPop
<1> HIDE DEF a, b, x, y
<1>5. CASE IsPush(c, i)
    <2>1. x = a + 1 /\ y = b
        BY <1>1, <1>2, <1>4, <1>5
    <2>2. x - y = (a - b) + 1 /\ a - b \in Int /\ x - y \in Int
        BY <1>1, <1>2, <2>1
    <2> QED BY <1>3, <1>4, <1>5, <2>2 DEF DepthStep
<1>6. CASE IsPop(c, i)
    <2>1. x = a /\ y = b + 1
        BY <1>1, <1>2, <1>4, <1>6
    <2>2. x - y = (a - b) - 1 /\ a - b \in Int /\ x - y \in Int
        BY <1>1, <1>2, <2>1
    <2> QED BY <1>3, <1>4, <1>6, <2>2 DEF DepthStep
<1>7. CASE ~IsPush(c, i) /\ ~IsPop(c, i)
    <2>1. x = a /\ y = b
        BY <1>1, <1>2, <1>7
    <2>2. x - y = a - b /\ a - b \in Int /\ x - y \in Int
        BY <1>1, <1>2, <2>1
    <2> QED BY <1>3, <1>4, <1>7, <2>2 DEF DepthStep
<1> QED BY <1>5, <1>6, <1>7

LEMMA NoDepth ==
    ASSUME NEW c
    PROVE  ScopeDepth(c, 0) = 0
<1>1. \A w : CallsOf(c, w, 0) = {}
    BY DEF CallsOf
<1>2. Cardinality({}) = 0
    BY FS_EmptySet
<1>3. 0 - 0 = 0
    OBVIOUS
<1> QED BY <1>1, <1>2, <1>3 DEF ScopeDepth

LEMMA PushedStep ==
    ASSUME NEW c, NEW i \in Nat \ {0}
    PROVE  Pushed(c, i) <=> Pushed(c, i - 1) \/ IsPush(c, i)
<1>1. (\A j \in 1..i : j = i \/ j \in 1..(i - 1)) /\ (\A j \in 1..(i - 1) : j \in 1..i) /\ i \in 1..i
    OBVIOUS
<1> QED BY <1>1 DEF Pushed

\* What a call does to the stack and the verbosity.
StackAfter(rc, g, h, c) ==
    /\ c[1] = "push" /\ Len(g.stack) = MaxStack => h = g
    /\ c[1] = "push" /\ Len(g.stack) # MaxStack =>
          h.stack = Append(g.stack, c[2]) /\ h.verbosity = verbosity(rc, c[2])
    /\ c[1] = "pop" /\ Len(g.stack) = 1 => h = g
    /\ c[1] = "pop" /\ Len(g.stack) # 1 =>
          h.stack = Front(g.stack) /\ h.verbosity = verbosity(rc, Last(Front(g.stack)))
    /\ c[1] # "push" /\ c[1] # "pop" => h.stack = g.stack /\ h.verbosity = g.verbosity

LEMMA DoneStack ==
    ASSUME NEW rc, NEW g \in ClosedLogs, NEW c \in LogCall
    PROVE  StackAfter(rc, g, Done(rc, g, c), c)
<1> DEFINE s == g.stack
           v == g.verbosity
           l == g.lines
           h == Done(rc, g, c)
<1>1. g = Closed(s, v, l) /\ s \in Stacks /\ v \in Nat /\ l \in Seq(LineSet)
    BY ClosedParts
<1>2. c[1] \in LogOps /\ c[2] \in Names /\ c[3] \in Nat
    BY CallFields
<1> HIDE DEF s, v, l
<1>3. CASE c[1] = "push"
    <2>1. h = IF Len(s) = MaxStack THEN g ELSE Closed(Append(s, c[2]), verbosity(rc, c[2]), l)
        BY <1>1, <1>3, PushIs
    <2> HIDE DEF h
    <2>2. Len(s) # MaxStack => h.stack = Append(s, c[2]) /\ h.verbosity = verbosity(rc, c[2])
        <3> DEFINE t == Append(s, c[2])
                   x == verbosity(rc, c[2])
        <3>1. Len(s) # MaxStack => h = Closed(t, x, l)
            BY <2>1
        <3> HIDE DEF t, x
        <3>2. Closed(t, x, l).stack = t /\ Closed(t, x, l).verbosity = x
            BY ClosedFields
        <3> QED BY <3>1, <3>2 DEF t, x
    <2> QED BY <1>3, <2>1, <2>2 DEF StackAfter, s, h
<1>4. CASE c[1] = "pop"
    <2>1. h = IF Len(s) = 1 THEN g ELSE Closed(Front(s), verbosity(rc, Last(Front(s))), l)
        BY <1>1, <1>4, PopIs
    <2> HIDE DEF h
    <2>2. Len(s) # 1 => h.stack = Front(s) /\ h.verbosity = verbosity(rc, Last(Front(s)))
        BY <2>1, ClosedFields
    <2> QED BY <1>4, <2>1, <2>2 DEF StackAfter, s, h
<1>5. CASE c[1] = "print"
    <2>1. h = IF c[3] # 0 /\ v < c[3] THEN g ELSE Closed(s, v, Append(l, LineIs(Last(s), 1)))
        BY <1>1, <1>5, PrintIs
    <2> HIDE DEF h
    <2>2. h.stack = s /\ h.verbosity = v
        BY <2>1, ClosedFields DEF s, v
    <2> QED BY <1>5, <2>2 DEF StackAfter, s, v, h
<1>6. CASE c[1] = "values"
    <2>1. Last(s) \in Names
        BY <1>1, FrontIs DEF Stacks
    <2>2. h = Closed(s, v, Append(l, LineIs(Last(s), c[3] + 2)))
        BY <1>1, <1>2, <1>6, <2>1, ValuesIs
    <2> HIDE DEF h
    <2>3. h.stack = s /\ h.verbosity = v
        BY <2>2, ClosedFields
    <2> QED BY <1>6, <2>3 DEF StackAfter, s, v, h
<1> QED BY <1>2, <1>3, <1>4, <1>5, <1>6 DEF LogOps

\* The stack is never deeper than the scopes, and the verbosity is that of its top, from
\* the first scope on.
LowAt(rc, c, g, i) ==
    /\ g.stack[1] = "sys" /\ Len(g.stack) - 1 <= ScopeDepth(c, i)
    /\ Pushed(c, i) => g.verbosity = verbosity(rc, Last(g.stack))
    /\ ~Pushed(c, i) => Len(g.stack) = 1 /\ g.verbosity = 99 /\ ScopeDepth(c, i) = 0

LEMMA LowStep ==
    ASSUME MaxStack \in Nat, MaxStack >= 2, NEW rc, NEW c \in Seq(LogCall), NEW i \in 1..Len(c),
           NEW g \in ClosedLogs, LowAt(rc, c, g, i - 1), ScopeDepth(c, i) >= 0
    PROVE  LowAt(rc, c, Done(rc, g, c[i]), i)
<1> DEFINE h == Done(rc, g, c[i])
           s == g.stack
           t == h.stack
           d == ScopeDepth(c, i - 1)
           e == ScopeDepth(c, i)
           w == c[i][2]
<1> SUFFICES LowAt(rc, c, h, i)
    OBVIOUS
<1>1. i \in Nat \ {0} /\ c[i] \in LogCall
    BY ElementOfSeq, LenProperties
<1>2. StackAfter(rc, g, h, c[i])
    BY <1>1, DoneStack
<1>3. /\ DepthStep(c, i) /\ ~(IsPush(c, i) /\ IsPop(c, i))
      /\ (Pushed(c, i) <=> Pushed(c, i - 1) \/ IsPush(c, i))
    BY <1>1, DepthSteps, PushedStep
<1>4. s \in Seq(Names) /\ s # <<>> /\ Len(s) \in Nat /\ Len(s) >= 1
    BY ClosedParts, FrontIs DEF Stacks
<1>5. /\ s[1] = "sys" /\ Len(s) - 1 <= d
      /\ Pushed(c, i - 1) => g.verbosity = verbosity(rc, Last(s))
      /\ ~Pushed(c, i - 1) => Len(s) = 1 /\ g.verbosity = 99 /\ d = 0
    BY DEF LowAt
<1>6. w \in Names
    BY <1>1, CallFields
<1>7. /\ d \in Int /\ e \in Int /\ e >= 0 /\ (IsPush(c, i) => e = d + 1) /\ (IsPop(c, i) => e = d - 1)
      /\ (~IsPush(c, i) /\ ~IsPop(c, i) => e = d)
    BY <1>3 DEF DepthStep
<1> HIDE DEF h, s, d, e, w
<1>8. CASE IsPush(c, i) /\ Len(s) = MaxStack
    <2>1. h = g
        BY <1>2, <1>8 DEF StackAfter, IsPush, s
    <2>2. Pushed(c, i - 1)
        BY <1>5, <1>8
    <2>3. Len(s) - 1 <= e
        BY <1>4, <1>5, <1>7, <1>8
    <2> QED BY <1>3, <1>5, <2>1, <2>2, <2>3, Zenon DEF LowAt, s, e
<1>9. CASE IsPush(c, i) /\ Len(s) # MaxStack
    <2>1. t = Append(s, w) /\ h.verbosity = verbosity(rc, w)
        BY <1>2, <1>9 DEF StackAfter, IsPush, s, w
    <2>2. Len(t) = Len(s) + 1 /\ Last(t) = w
        BY <1>4, <1>6, <2>1, LastOf
    <2>3. t[1] = s[1]
        <3>1. 1 \in 1..Len(s)
            BY <1>4
        <3> QED BY <1>4, <1>6, <2>1, <3>1, AppendProperties
    <2>4. Len(t) - 1 <= e
        BY <1>4, <1>5, <1>7, <1>9, <2>2
    <2> HIDE DEF t
    <2> QED BY <1>3, <1>5, <1>9, <2>1, <2>2, <2>3, <2>4, Zenon DEF LowAt, t, e
<1>10. CASE IsPop(c, i) /\ Len(s) = 1
    <2>1. h = g
        BY <1>2, <1>10 DEF StackAfter, IsPop, s
    <2>2. Pushed(c, i - 1)
        BY <1>5, <1>7, <1>10
    <2>3. Len(s) - 1 <= e
        BY <1>7, <1>10
    <2> QED BY <1>3, <1>5, <2>1, <2>2, <2>3, Zenon DEF LowAt, s, e
<1>11. CASE IsPop(c, i) /\ Len(s) # 1
    <2>1. t = Front(s) /\ h.verbosity = verbosity(rc, Last(t))
        BY <1>2, <1>11 DEF StackAfter, IsPop, s
    <2>2. Len(t) = Len(s) - 1 /\ \A k \in 1..(Len(s) - 1) : t[k] = s[k]
        BY <1>4, <2>1, FrontIs
    <2>3. t[1] = s[1]
        <3>0. Len(s) \in Nat /\ Len(s) >= 1 /\ Len(s) # 1
            BY <1>4, <1>11
        <3>1. Len(s) >= 2
            <4> DEFINE n == Len(s)
            <4>1. n \in Nat /\ n >= 1 /\ n # 1
                BY <3>0
            <4> HIDE DEF n
            <4>2. n >= 2
                BY <4>1
            <4> QED BY <4>2 DEF n
        <3>2. 1 \in 1..(Len(s) - 1)
            BY <1>4, <3>1
        <3> QED BY <2>2, <3>2
    <2>4. Pushed(c, i - 1)
        BY <1>5, <1>11
    <2>5. Len(t) - 1 <= e
        BY <1>4, <1>5, <1>7, <1>11, <2>2
    <2> HIDE DEF t
    <2> QED BY <1>3, <1>5, <2>1, <2>3, <2>4, <2>5, Zenon DEF LowAt, t, e
<1>12. CASE ~IsPush(c, i) /\ ~IsPop(c, i)
    <2>1. t = s /\ h.verbosity = g.verbosity
        BY <1>2, <1>12 DEF StackAfter, IsPush, IsPop, s
    <2>2. e = d /\ (Pushed(c, i) <=> Pushed(c, i - 1))
        BY <1>3, <1>7, <1>12
    <2> HIDE DEF t
    <2>3. Len(t) - 1 <= e /\ (~Pushed(c, i) => e = 0)
        BY <1>5, <2>1, <2>2
    <2> QED BY <1>5, <2>1, <2>2, <2>3, Zenon DEF LowAt, t, e
<1> QED BY <1>8, <1>9, <1>10, <1>11, <1>12

\* While the scopes fit, the stack holds those that are open.
HeldAt(c, g, i) ==
    /\ Len(g.stack) = ScopeDepth(c, i) + 1
    /\ \A j \in 1..i : OpenAt(c, j, i) => g.stack[ScopeDepth(c, j) + 1] = c[j][2]

LEMMA HeldStep ==
    ASSUME MaxStack \in Nat, NEW rc, NEW c \in Seq(LogCall), NEW i \in 1..Len(c),
           NEW g \in ClosedLogs, HeldAt(c, g, i - 1), ScopeDepth(c, i) >= 0, ScopeDepth(c, i) < MaxStack,
           \A j \in 0..Len(c) : ScopeDepth(c, j) \in Nat
    PROVE  HeldAt(c, Done(rc, g, c[i]), i)
<1> DEFINE h == Done(rc, g, c[i])
           s == g.stack
           t == h.stack
           d == ScopeDepth(c, i - 1)
           e == ScopeDepth(c, i)
           w == c[i][2]
<1> SUFFICES HeldAt(c, h, i)
    OBVIOUS
<1>1. i \in Nat \ {0} /\ c[i] \in LogCall /\ Len(c) \in Nat
    BY ElementOfSeq, LenProperties
<1>2. StackAfter(rc, g, h, c[i])
    BY <1>1, DoneStack
<1>3. DepthStep(c, i) /\ ~(IsPush(c, i) /\ IsPop(c, i))
    BY <1>1, DepthSteps
<1>4. s \in Seq(Names) /\ s # <<>> /\ Len(s) \in Nat /\ Len(s) >= 1
    BY ClosedParts, FrontIs DEF Stacks
<1>5. Len(s) = d + 1 /\ \A j \in 1..(i - 1) : OpenAt(c, j, i - 1) => s[ScopeDepth(c, j) + 1] = c[j][2]
    BY DEF HeldAt
<1>6. w \in Names
    BY <1>1, CallFields
<1>7. /\ d \in Nat /\ e \in Nat /\ e < MaxStack
      /\ (IsPush(c, i) => e = d + 1) /\ (IsPop(c, i) => e = d - 1)
      /\ (~IsPush(c, i) /\ ~IsPop(c, i) => e = d)
    <2>1. i \in 0..Len(c) /\ i - 1 \in 0..Len(c)
        BY <1>1
    <2> QED BY <1>3, <2>1 DEF DepthStep
\* A scope that is open was open before, and is not above the top.
<1>8. ASSUME NEW j \in 1..i, j # i, OpenAt(c, j, i)
      PROVE  /\ s[ScopeDepth(c, j) + 1] = c[j][2]
             /\ ScopeDepth(c, j) \in Nat /\ ScopeDepth(c, j) <= d /\ ScopeDepth(c, j) <= e
    <2>1. j \in 1..(i - 1) /\ j \in 0..Len(c) /\ i \in j..i /\ i - 1 \in j..i
        BY <1>1, <1>8
    <2>2. \A k \in j..(i - 1) : k \in j..i
        BY <1>1
    <2>3. OpenAt(c, j, i - 1)
        BY <1>8, <2>2 DEF OpenAt
    <2>4. ScopeDepth(c, j) <= d /\ ScopeDepth(c, j) <= e /\ ScopeDepth(c, j) \in Nat
        BY <1>7, <1>8, <2>1 DEF OpenAt
    <2> QED BY <1>5, <2>1, <2>3, <2>4
<1> HIDE DEF h, s, d, e, w
<1>9. CASE IsPush(c, i)
    <2>0. Len(s) # MaxStack
        BY <1>4, <1>5, <1>7, <1>9
    <2>1. t = Append(s, w)
        BY <1>2, <1>9, <2>0 DEF StackAfter, IsPush, s, w
    <2>2. Len(t) = Len(s) + 1 /\ t[Len(s) + 1] = w /\ \A k \in 1..Len(s) : t[k] = s[k]
        BY <1>4, <1>6, <2>1, AppendProperties
    <2>3. Len(t) = e + 1
        BY <1>5, <1>7, <1>9, <2>2
    <2>4. ASSUME NEW j \in 1..i, OpenAt(c, j, i)
          PROVE  t[ScopeDepth(c, j) + 1] = c[j][2]
        <3>1. CASE j = i
            <4>1. ScopeDepth(c, j) + 1 = Len(s) + 1 /\ c[j][2] = w
                BY <1>5, <1>7, <1>9, <3>1 DEF e, w
            <4> QED BY <2>2, <4>1
        <3>2. CASE j # i
            <4> DEFINE k == ScopeDepth(c, j)
            <4>1. s[k + 1] = c[j][2] /\ k \in Nat /\ k <= d
                BY <1>8, <2>4, <3>2
            <4> HIDE DEF k
            <4>2. k + 1 \in 1..Len(s)
                BY <1>5, <1>7, <4>1
            <4>3. t[k + 1] = c[j][2]
                BY <2>2, <4>1, <4>2
            <4> QED BY <4>3 DEF k
        <3> QED BY <3>1, <3>2
    <2> HIDE DEF t
    <2> QED BY <2>3, <2>4, Zenon DEF HeldAt, t, e
<1>10. CASE IsPop(c, i)
    <2>0. Len(s) # 1
        BY <1>4, <1>5, <1>7, <1>10
    <2>1. t = Front(s)
        BY <1>2, <1>10, <2>0 DEF StackAfter, IsPop, s
    <2>2. Len(t) = Len(s) - 1 /\ \A k \in 1..(Len(s) - 1) : t[k] = s[k]
        BY <1>4, <2>1, FrontIs
    <2>3. Len(t) = e + 1
        BY <1>5, <1>7, <1>10, <2>2
    <2>4. ASSUME NEW j \in 1..i, OpenAt(c, j, i)
          PROVE  t[ScopeDepth(c, j) + 1] = c[j][2]
        <3> DEFINE k == ScopeDepth(c, j)
        <3>1. j # i
            BY <1>3, <1>10, <2>4 DEF OpenAt
        <3>2. s[k + 1] = c[j][2] /\ k \in Nat /\ k <= e
            BY <1>8, <2>4, <3>1
        <3> HIDE DEF k
        <3>3. k + 1 \in 1..(Len(s) - 1)
            BY <1>5, <1>7, <1>10, <3>2
        <3>4. t[k + 1] = c[j][2]
            BY <2>2, <3>2, <3>3
        <3> QED BY <3>4 DEF k
    <2> HIDE DEF t
    <2> QED BY <2>3, <2>4, Zenon DEF HeldAt, t, e
<1>11. CASE ~IsPush(c, i) /\ ~IsPop(c, i)
    <2>1. t = s
        BY <1>2, <1>11 DEF StackAfter, IsPush, IsPop, s
    <2>2. Len(t) = e + 1
        BY <1>5, <1>7, <1>11, <2>1
    <2>3. ASSUME NEW j \in 1..i, OpenAt(c, j, i)
          PROVE  t[ScopeDepth(c, j) + 1] = c[j][2]
        <3>1. j # i
            BY <1>11, <2>3 DEF OpenAt
        <3> QED BY <1>8, <2>1, <2>3, <3>1
    <2> HIDE DEF t
    <2> QED BY <2>2, <2>3, Zenon DEF HeldAt, t, e
<1> QED BY <1>9, <1>10, <1>11

\* Scopes in pairs: what is left was entered, and no scope has the name of the daemon.
InPairs(c) ==
    /\ \A i \in 1..Len(c) : ScopeDepth(c, i) >= 0
    /\ \A i \in 1..Len(c) : IsPush(c, i) => c[i][2] # "sys"

LEMMA DepthNat ==
    ASSUME NEW c, Len(c) \in Nat, InPairs(c)
    PROVE  \A i \in 0..Len(c) : ScopeDepth(c, i) \in Nat
<1> TAKE i \in 0..Len(c)
<1>1. CASE i = 0
    BY <1>1, NoDepth
<1>2. CASE i # 0
    <2>1. i \in Nat \ {0} /\ i \in 1..Len(c)
        BY <1>2
    <2>2. ScopeDepth(c, i) \in Int
        BY <2>1, DepthSteps DEF DepthStep
    <2>3. ScopeDepth(c, i) >= 0
        BY <2>1 DEF InPairs
    <2> QED BY <2>2, <2>3
<1> QED BY <1>1, <1>2

LEMMA LowAlways ==
    ASSUME MaxStack \in Nat, MaxStack >= 2, NEW rc, Levels(rc), NEW c \in Seq(LogCall), InPairs(c)
    PROVE  \A i \in 0..Len(c) : LowAt(rc, c, LogUpto(rc, c)[i], i)
<1> DEFINE n == Len(c)
           U == LogUpto(rc, c)
           G == {i \in 0..n : LowAt(rc, c, U[i], i)}
<1>1. n \in Nat
    BY LenProperties
<1>2. /\ U \in [0..n -> ClosedLogs] /\ U[0] = NewLog
      /\ \A i \in 1..n : U[i] = Done(rc, U[i - 1], c[i])
    BY LogDefined
<1> HIDE DEF U
<1>3. 0 \in G
    <2> DEFINE s == <<"sys">>
    <2>1. U[0].stack = s /\ U[0].verbosity = 99
        BY <1>2, NewLogIs
    <2>2. s[1] = "sys" /\ Len(s) = 1
        OBVIOUS
    <2>3. ~Pushed(c, 0)
        BY DEF Pushed
    <2>4. ScopeDepth(c, 0) = 0
        BY NoDepth
    <2> HIDE DEF s
    <2>5. Len(s) - 1 <= ScopeDepth(c, 0)
        BY <2>2, <2>4
    <2>6. LowAt(rc, c, U[0], 0)
        BY <2>1, <2>2, <2>3, <2>4, <2>5, Zenon DEF LowAt
    <2> QED BY <1>1, <2>6
<1>4. ASSUME NEW i \in 1..n, i - 1 \in G
      PROVE  i \in G
    <2>1. i - 1 \in 0..n /\ i \in 0..n
        BY <1>1
    <2>2. U[i - 1] \in ClosedLogs /\ U[i] = Done(rc, U[i - 1], c[i])
        BY <1>2, <2>1
    <2>3. LowAt(rc, c, U[i - 1], i - 1) /\ ScopeDepth(c, i) >= 0
        BY <1>4 DEF InPairs
    <2>4. LowAt(rc, c, Done(rc, U[i - 1], c[i]), i)
        BY <2>2, <2>3, LowStep
    <2> QED BY <2>1, <2>2, <2>4
<1>5. 0..n \subseteq G
    <2> HIDE DEF G, n
    <2> QED BY <1>1, <1>3, <1>4, BoundedInduction
<1> QED BY <1>5 DEF U

\* From a moment without scopes on.
LEMMA HeldAlways ==
    ASSUME MaxStack \in Nat, MaxStack >= 2, NEW rc, Levels(rc), NEW c \in Seq(LogCall), InPairs(c),
           NEW b \in 0..Len(c), ScopeDepth(c, b) = 0,
           NEW n \in b..Len(c), \A i \in b..n : ScopeDepth(c, i) < MaxStack
    PROVE  HeldAt(c, LogUpto(rc, c)[n], n)
<1> DEFINE U == LogUpto(rc, c)
           G == {i \in 0..n : i < b \/ HeldAt(c, U[i], i)}
<1>1. Len(c) \in Nat /\ n \in Nat /\ b \in Nat /\ n <= Len(c) /\ b <= n
    BY LenProperties
<1>2. /\ U \in [0..Len(c) -> ClosedLogs]
      /\ \A i \in 1..Len(c) : U[i] = Done(rc, U[i - 1], c[i])
    BY LogDefined
<1>3. \A i \in 0..Len(c) : ScopeDepth(c, i) \in Nat
    BY <1>1, DepthNat
<1>4. \A i \in 0..Len(c) : LowAt(rc, c, U[i], i)
    BY LowAlways
<1> HIDE DEF U
\* Without scopes there is only the daemon.
<1>5. HeldAt(c, U[b], b)
    <2> DEFINE s == U[b].stack
    <2>1. s \in Stacks /\ Len(s) \in Nat /\ Len(s) >= 1
        BY <1>2, ClosedParts, FrontIs DEF Stacks
    <2>2. Len(s) - 1 <= 0
        BY <1>4 DEF LowAt
    <2>3. Len(s) = ScopeDepth(c, b) + 1
        <3> DEFINE m == Len(s)
        <3>1. m \in Nat /\ m >= 1 /\ m - 1 <= 0
            BY <2>1, <2>2
        <3> HIDE DEF m
        <3>2. m = 0 + 1
            BY <3>1
        <3> QED BY <3>2 DEF m
    <2>4. ASSUME NEW j \in 1..b
          PROVE  ~OpenAt(c, j, b)
        <3>1. j \in Nat \ {0} /\ j - 1 \in 0..Len(c) /\ j \in 0..Len(c) /\ b \in j..b
            BY <1>1
        <3>2. DepthStep(c, j)
            BY <3>1, DepthSteps
        <3>3. ScopeDepth(c, j - 1) \in Nat
            BY <1>3, <3>1
        <3>4. ASSUME OpenAt(c, j, b) PROVE FALSE
            <4>1. ScopeDepth(c, j) = ScopeDepth(c, j - 1) + 1
                BY <3>2, <3>4 DEF OpenAt, DepthStep
            <4>2. 0 >= ScopeDepth(c, j)
                BY <3>1, <3>4 DEF OpenAt
            <4> QED BY <3>3, <4>1, <4>2
        <3> QED BY <3>4
    <2> HIDE DEF s
    <2> QED BY <2>3, <2>4, Zenon DEF HeldAt, s
<1>6. 0 \in G
    BY <1>1, <1>5
<1>7. ASSUME NEW i \in 1..n, i - 1 \in G
      PROVE  i \in G
    <2>1. i \in 0..n /\ i \in 1..Len(c) /\ i - 1 \in 0..Len(c) /\ i \in Nat
        BY <1>1
    <2>2. CASE i < b
        BY <2>1, <2>2
    <2>3. CASE i = b
        BY <1>5, <2>1, <2>3
    <2>4. CASE i > b
        <3>1. ~(i - 1 < b) /\ i \in b..n
            BY <1>1, <2>1, <2>4
        <3>2. HeldAt(c, U[i - 1], i - 1)
            BY <1>7, <3>1
        <3>3. U[i - 1] \in ClosedLogs /\ U[i] = Done(rc, U[i - 1], c[i])
            BY <1>2, <2>1
        <3>4. ScopeDepth(c, i) >= 0 /\ ScopeDepth(c, i) < MaxStack
            BY <2>1, <3>1 DEF InPairs
        <3>5. HeldAt(c, Done(rc, U[i - 1], c[i]), i)
            BY <1>3, <2>1, <3>2, <3>3, <3>4, HeldStep
        <3> QED BY <2>1, <3>3, <3>5
    <2> QED BY <1>1, <2>1, <2>2, <2>3, <2>4
<1>8. 0..n \subseteq G
    <2> HIDE DEF G
    <2> QED BY <1>1, <1>6, <1>7, BoundedInduction
<1>9. n \in 0..n /\ ~(n < b)
    BY <1>1
<1>10. HeldAt(c, U[n], n)
    BY <1>8, <1>9
<1> QED BY <1>10 DEF U

\* The innermost scope that is open is as deep as they are.
LEMMA Innermost ==
    ASSUME NEW c, NEW n \in Nat, \A i \in 0..n : ScopeDepth(c, i) \in Nat, ScopeDepth(c, n) # 0
    PROVE  \E j \in 1..n : /\ OpenAt(c, j, n) /\ ScopeDepth(c, j) = ScopeDepth(c, n)
                           /\ \A k \in j..n : ScopeDepth(c, k) >= ScopeDepth(c, n)
<1> DEFINE e == ScopeDepth(c, n)
           T == {j \in 0..n : \A k \in j..n : ScopeDepth(c, k) >= e}
<1>1. e \in Nat /\ e > 0
    BY n \in 0..n
<1>2. n \in T
    BY <1>1
<1>3. T \subseteq Nat /\ T # {}
    BY <1>2
<1>4. PICK j \in T : \A i \in T : j <= i
    <2> HIDE DEF T
    <2> QED BY <1>3, LeastNatural
<1>5. j \in 0..n /\ \A k \in j..n : ScopeDepth(c, k) >= e
    OBVIOUS
<1>6. j # 0
    <2>1. 0 \in 0..n /\ ScopeDepth(c, 0) = 0
        BY NoDepth
    <2>2. 0 \notin T
        BY <1>1, <2>1
    <2> QED BY <2>2
<1>7. j - 1 \in 0..n /\ j \in Nat \ {0} /\ j \in 1..n /\ j \in j..n
    BY <1>5, <1>6
<1>8. j - 1 \notin T
    <2> HIDE DEF T
    <2> QED BY <1>4, <1>7
<1>9. ~(ScopeDepth(c, j - 1) >= e)
    <2>1. PICK k \in (j - 1)..n : ~(ScopeDepth(c, k) >= e)
        BY <1>7, <1>8
    <2>2. k = j - 1 \/ k \in j..n
        BY <1>7
    <2> QED BY <1>5, <2>1, <2>2
<1>10. ScopeDepth(c, j - 1) \in Nat /\ ScopeDepth(c, j) \in Nat /\ ScopeDepth(c, j) >= e
    BY <1>5, <1>7
<1>11. DepthStep(c, j) /\ ~(IsPush(c, j) /\ IsPop(c, j))
    BY <1>7, DepthSteps
<1> DEFINE x == ScopeDepth(c, j - 1)
           y == ScopeDepth(c, j)
<1>12. /\ x \in Nat /\ y \in Nat /\ y >= e /\ ~(x >= e)
       /\ (IsPush(c, j) => y = x + 1) /\ (IsPop(c, j) => y = x - 1)
       /\ (~IsPush(c, j) /\ ~IsPop(c, j) => y = x)
    BY <1>9, <1>10, <1>11 DEF DepthStep
<1> HIDE DEF x, y, e, T
<1>13. IsPush(c, j) /\ y = e
    BY <1>1, <1>12
<1>14. \A k \in j..n : ScopeDepth(c, k) >= y
    BY <1>5, <1>13
<1>15. OpenAt(c, j, n)
    BY <1>13, <1>14, Zenon DEF OpenAt, y
<1> QED BY <1>5, <1>7, <1>13, <1>15 DEF y, e

LEMMA GreatestIs ==
    ASSUME NEW n \in Nat, NEW T, T \subseteq 0..n, T # {}
    PROVE  Max(T) \in T /\ \A y \in T : Max(T) >= y
<1> DEFINE Gaps == {i \in 0..n : n - i \in T}
<1>1. Gaps \subseteq Nat
    OBVIOUS
<1>2. Gaps # {}
    <2>1. PICK y \in T : TRUE
        OBVIOUS
    <2>2. n - y \in 0..n /\ n - (n - y) = y
        OBVIOUS
    <2> QED BY <2>1, <2>2
<1>3. PICK i \in Gaps : \A k \in Gaps : i <= k
    <2> HIDE DEF Gaps
    <2> QED BY <1>1, <1>2, LeastNatural
<1>4. ASSUME NEW y \in T
      PROVE  n - i >= y
    <2>1. n - y \in 0..n /\ n - (n - y) = y /\ y \in Nat
        OBVIOUS
    <2>2. n - y \in Gaps
        BY <2>1
    <2>3. i <= n - y /\ i \in Nat
        BY <1>3, <2>2
    <2> QED BY <2>1, <2>3
<1>5. \E x \in T : \A y \in T : x >= y
    BY <1>3, <1>4
<1> QED BY <1>5 DEF Max

LEMMA NoneInSeq == SetToSeq({}) = <<>>
<1>1. Cardinality({}) = 0
    BY FS_EmptySet
<1>2. \A f \in [1..0 -> {}] : f = <<>>
    OBVIOUS
<1>3. <<>> \in [1..0 -> {}] /\ IsInjective(<<>>)
    BY DEF IsInjective
<1>4. SetToSeq({}) = CHOOSE f \in [1..0 -> {}] : IsInjective(f)
    BY <1>1, Zenon DEF SetToSeq
<1>5. (CHOOSE f \in [1..0 -> {}] : IsInjective(f)) \in [1..0 -> {}]
    BY <1>3
<1> QED BY <1>2, <1>4, <1>5

LEMMA OneInSeq ==
    ASSUME NEW x
    PROVE  SetToSeq({x}) = <<x>>
<1> DEFINE F == [1..1 -> {x}]
<1>1. Cardinality({x}) = 1
    BY FS_Singleton
<1>2. \A f \in F : f = <<x>>
    <2> TAKE f \in F
    <2>1. f = [i \in 1..1 |-> x]
        OBVIOUS
    <2>2. <<x>> = [i \in 1..1 |-> x]
        OBVIOUS
    <2> QED BY <2>1, <2>2
<1>3. <<x>> \in F /\ IsInjective(<<x>>)
    BY DEF IsInjective
<1>4. SetToSeq({x}) = CHOOSE f \in F : IsInjective(f)
    BY <1>1, Zenon DEF SetToSeq
<1> HIDE DEF F
<1>5. (CHOOSE f \in F : IsInjective(f)) \in F
    BY <1>3
<1> QED BY <1>2, <1>4, <1>5

\* What a message is expected to be.
ScopesAt(c, n) == {j \in 1..n : OpenAt(c, j, n)}
NameAt(c, n) == IF ScopesAt(c, n) = {} THEN "sys" ELSE c[Max(ScopesAt(c, n))][2]
FitsAt(c, n) == \A i \in Max({i \in 0..n : ScopeDepth(c, i) = 0})..n : ScopeDepth(c, i) < MaxStack
LevelAt(rc, c, n) ==
    IF NameAt(c, n) = "sys" /\ ~\E j \in 1..n : IsPop(c, j) THEN 99 ELSE verbosity(rc, NameAt(c, n))
ShownFor(name, level, msg) ==
    IF msg[1] = "values" THEN {LineIs(name, msg[3] + 2)}
    ELSE {LineIs(name, 1) : x \in {y \in {msg[3]} : y <= level}}

\* A scope is left only when one was entered; when all are left there was a pop.
LEMMA PopsBehindPushes ==
    ASSUME NEW rc, NEW c, NEW n \in Nat, NEW U, \A i \in 0..n : LowAt(rc, c, U[i], i),
           \A i \in 0..n : ScopeDepth(c, i) \in Nat
    PROVE  /\ (\E j \in 1..n : IsPop(c, j)) => Pushed(c, n)
           /\ ScopeDepth(c, n) = 0 /\ ~(\E j \in 1..n : IsPop(c, j)) => ~Pushed(c, n)
<1>1. ASSUME NEW j \in 1..n, IsPop(c, j)
      PROVE  Pushed(c, n)
    <2>1. j - 1 \in 0..n /\ j \in 0..n /\ j \in Nat \ {0}
        OBVIOUS
    <2>2. DepthStep(c, j) /\ ScopeDepth(c, j) \in Nat /\ ScopeDepth(c, j - 1) \in Nat
        BY <2>1, DepthSteps
    <2>3. ScopeDepth(c, j - 1) # 0
        BY <1>1, <2>2 DEF DepthStep
    <2>4. Pushed(c, j - 1)
        BY <2>1, <2>3 DEF LowAt
    <2>5. \A k \in 1..(j - 1) : k \in 1..n
        BY <2>1
    <2> QED BY <2>4, <2>5 DEF Pushed
<1>2. ASSUME ScopeDepth(c, n) = 0, ~(\E j \in 1..n : IsPop(c, j))
      PROVE  ~Pushed(c, n)
    <2> DEFINE p == CallsOf(c, "push", n)
    <2>1. CallsOf(c, "pop", n) = {}
        BY <1>2, Zenon DEF CallsOf, IsPop
    <2>2. Cardinality({}) = 0
        BY FS_EmptySet
    <2>3. IsFiniteSet(p)
        <3>1. IsFiniteSet(1..n)
            BY FS_Interval
        <3>2. p \subseteq 1..n
            BY DEF CallsOf
        <3> HIDE DEF p
        <3> QED BY <3>1, <3>2, FS_Subset
    <2>4. Cardinality(p) \in Nat
        BY <2>3, FS_CardinalityType
    <2>5. Cardinality(p) - 0 = 0
        BY <1>2, <2>1, <2>2 DEF ScopeDepth
    <2> HIDE DEF p
    <2>6. Cardinality(p) = 0
        BY <2>4, <2>5
    <2>7. p = {}
        BY <2>3, <2>6, FS_EmptySet
    <2> QED BY <2>7, Zenon DEF p, CallsOf, Pushed, IsPush
<1> QED BY <1>1, <1>2

\* The top of the stack is the innermost scope, and the verbosity is its.
LEMMA TopNamed ==
    ASSUME MaxStack \in Nat, MaxStack >= 2, NEW rc, Levels(rc), NEW c \in Seq(LogCall), InPairs(c),
           NEW n \in 0..Len(c), FitsAt(c, n)
    PROVE  /\ Last(LogUpto(rc, c)[n].stack) = NameAt(c, n)
           /\ LogUpto(rc, c)[n].verbosity = LevelAt(rc, c, n)
<1> DEFINE U == LogUpto(rc, c)
           g == U[n]
           s == g.stack
           e == ScopeDepth(c, n)
           Z == {i \in 0..n : ScopeDepth(c, i) = 0}
           b == Max(Z)
           O == ScopesAt(c, n)
<1>1. Len(c) \in Nat /\ n \in Nat /\ n <= Len(c)
    BY LenProperties
<1>2. U \in [0..Len(c) -> ClosedLogs]
    BY LogDefined
<1>3. \A i \in 0..Len(c) : ScopeDepth(c, i) \in Nat
    BY <1>1, DepthNat
<1>4. \A i \in 0..Len(c) : LowAt(rc, c, U[i], i)
    BY LowAlways
<1>5. b \in Z
    <2>1. 0 \in Z
        BY <1>1, NoDepth
    <2>2. Z \subseteq 0..n /\ Z # {}
        BY <2>1
    <2> HIDE DEF Z
    <2> QED BY <1>1, <2>2, GreatestIs
<1>6. \A i \in b..n : ScopeDepth(c, i) < MaxStack
    BY Zenon DEF FitsAt
<1>7. b \in 0..Len(c) /\ ScopeDepth(c, b) = 0 /\ n \in b..Len(c)
    <2>1. b \in 0..n /\ ScopeDepth(c, b) = 0
        BY <1>5
    <2> HIDE DEF b
    <2> QED BY <1>1, <2>1
<1> HIDE DEF b, Z
<1>8. HeldAt(c, g, n)
    BY <1>6, <1>7, HeldAlways
<1>9. LowAt(rc, c, g, n) /\ e \in Nat
    BY <1>3, <1>4
<1>10. s \in Stacks
    BY <1>2, ClosedParts
<1>11. Last(s) = s[e + 1]
    BY <1>8, Zenon DEF Last, HeldAt
<1>12. \A i \in 0..n : LowAt(rc, c, U[i], i) /\ ScopeDepth(c, i) \in Nat
    BY <1>1, <1>3, <1>4
<1> HIDE DEF U
<1>13. /\ (\E j \in 1..n : IsPop(c, j)) => Pushed(c, n)
       /\ e = 0 /\ ~(\E j \in 1..n : IsPop(c, j)) => ~Pushed(c, n)
    BY <1>1, <1>12, PopsBehindPushes
<1>14. /\ s[1] = "sys"
       /\ Pushed(c, n) => g.verbosity = verbosity(rc, Last(s))
       /\ ~Pushed(c, n) => g.verbosity = 99 /\ e = 0
    BY <1>9 DEF LowAt
<1> HIDE DEF g, s, e
<1>15. CASE e = 0
    <2>1. ASSUME NEW j \in 1..n, OpenAt(c, j, n)
          PROVE  FALSE
        <3>1. j \in Nat \ {0} /\ j - 1 \in 0..n /\ n \in j..n
            BY <1>1
        <3>2. DepthStep(c, j) /\ ScopeDepth(c, j - 1) \in Nat
            BY <1>12, <3>1, DepthSteps
        <3>3. ScopeDepth(c, j) = ScopeDepth(c, j - 1) + 1
            BY <2>1, <3>2 DEF OpenAt, DepthStep
        <3>4. 0 >= ScopeDepth(c, j)
            BY <1>15, <2>1, <3>1 DEF OpenAt, e
        <3> QED BY <3>2, <3>3, <3>4
    <2>2. O = {}
        BY <2>1 DEF ScopesAt
    <2>3. NameAt(c, n) = "sys"
        BY <2>2, Zenon DEF NameAt
    <2>4. Last(s) = "sys"
        BY <1>11, <1>14, <1>15
    <2>5. g.verbosity = LevelAt(rc, c, n)
        BY <1>13, <1>14, <1>15, <2>3, <2>4, Zenon DEF LevelAt
    <2> QED BY <2>3, <2>4, <2>5 DEF g, s, U
<1>16. CASE e # 0
    <2>1. PICK j \in 1..n : /\ OpenAt(c, j, n) /\ ScopeDepth(c, j) = e
                            /\ \A k \in j..n : ScopeDepth(c, k) >= e
        BY <1>1, <1>12, <1>16, Innermost DEF e
    <2> DEFINE M == Max(O)
    <2>2. M \in O /\ M >= j
        <3>1. O \subseteq 0..n /\ j \in O
            BY <1>1, <2>1 DEF ScopesAt
        <3> HIDE DEF O
        <3> QED BY <1>1, <3>1, GreatestIs
    <2>3. M \in 1..n /\ OpenAt(c, M, n) /\ O # {}
        BY <2>2 DEF ScopesAt
    <2>4. NameAt(c, n) = c[M][2]
        BY <2>3, Zenon DEF NameAt
    <2> HIDE DEF M, O
    <2>5. M \in j..n /\ n \in M..n /\ M \in 0..n /\ M \in 1..Len(c)
        BY <1>1, <2>2, <2>3
    <2>6. ScopeDepth(c, M) >= e /\ e >= ScopeDepth(c, M) /\ ScopeDepth(c, M) \in Nat
        BY <1>12, <2>1, <2>3, <2>5 DEF OpenAt, e
    <2>7. ScopeDepth(c, M) = e
        <3> DEFINE d == ScopeDepth(c, M)
        <3>1. d >= e /\ e >= d /\ d \in Nat /\ e \in Nat
            BY <1>9, <2>6 DEF e
        <3> HIDE DEF d
        <3>2. d = e
            BY <3>1
        <3> QED BY <3>2 DEF d
    <2>8. s[ScopeDepth(c, M) + 1] = c[M][2]
        BY <1>8, <2>3, Zenon DEF HeldAt, s
    <2>9. Last(s) = c[M][2]
        BY <1>11, <2>7, <2>8, Zenon
    <2>10. c[M][2] # "sys"
        BY <2>3, <2>5, Zenon DEF InPairs, OpenAt
    <2>11. Pushed(c, n)
        BY <1>14, <1>16
    <2>12. g.verbosity = LevelAt(rc, c, n)
        BY <1>14, <2>4, <2>9, <2>10, <2>11, Zenon DEF LevelAt
    <2> QED BY <2>4, <2>9, <2>12 DEF g, s, U
<1> QED BY <1>15, <1>16

LEMMA ClosedHas ==
    ASSUME NEW s, NEW v, NEW l
    PROVE  Closed(s, v, l).lines = l /\ ~Closed(s, v, l).open
<1>1. Closed(s, v, l).lines = l
    BY ClosedFields
<1>2. ~Closed(s, v, l).open
    BY ClosedOpen
<1> QED BY <1>1, <1>2, Zenon

\* One call more writes one line, or none when the component is not to say so much.
LEMMA MessageShown ==
    ASSUME NEW rc, NEW g \in ClosedLogs, NEW m \in LogCall, m[1] \in {"print", "values"}
    PROVE  /\ Done(rc, g, m).lines = g.lines \o SetToSeq(ShownFor(Last(g.stack), g.verbosity, m))
           /\ ~Done(rc, g, m).open
<1> DEFINE s == g.stack
           v == g.verbosity
           l == g.lines
           h == Done(rc, g, m)
           k == m[3]
           t == m[1]
<1>1. g = Closed(s, v, l) /\ s \in Stacks /\ v \in Nat /\ l \in Seq(LineSet)
    BY ClosedParts
<1>2. k \in Nat /\ t \in {"print", "values"}
    BY CallFields
<1>3. Last(s) \in Names
    BY <1>1, FrontIs DEF Stacks
<1> HIDE DEF s, v, l
<1> DEFINE w == Last(s)
<1>4. CASE t = "values"
    <2>1. h = Closed(s, v, Append(l, LineIs(w, k + 2)))
        BY <1>1, <1>2, <1>3, <1>4, ValuesIs
    <2>2. ShownFor(w, v, m) = {LineIs(w, k + 2)}
        BY <1>4, Zenon DEF ShownFor
    <2> HIDE DEF w, h, k, t
    <2> DEFINE x == LineIs(w, k + 2)
    <2>3. x \in LineSet
        BY <1>2, <1>3 DEF LineIs, LineSet, w
    <2>4. SetToSeq({x}) = <<x>>
        BY OneInSeq
    <2> HIDE DEF x
    <2>5. l \o <<x>> = Append(l, x)
        BY <1>1, <2>3, AppendIsConcat
    <2>6. h.lines = Append(l, x) /\ ~h.open
        BY <2>1, ClosedHas, Zenon DEF x
    <2>7. h.lines = l \o SetToSeq(ShownFor(w, v, m))
        BY <2>2, <2>4, <2>5, <2>6, Zenon DEF x
    <2> QED BY <2>6, <2>7 DEF h, l, w, v, s
<1>5. CASE t = "print"
    <2>1. h = IF k # 0 /\ v < k THEN Closed(s, v, l) ELSE Closed(s, v, Append(l, LineIs(w, 1)))
        BY <1>1, <1>5, PrintIs
    <2>2. ShownFor(w, v, m) = {LineIs(w, 1) : x \in {y \in {k} : y <= v}}
        BY <1>5 DEF ShownFor
    <2> HIDE DEF w, h, k, t
    <2>3. CASE k # 0 /\ v < k
        <3>1. {y \in {k} : y <= v} = {}
            BY <1>1, <1>2, <2>3
        <3>2. ShownFor(w, v, m) = {}
            BY <2>2, <3>1
        <3>3. h.lines = l /\ ~h.open
            BY <2>1, <2>3, ClosedHas, Zenon
        <3>4. l \o <<>> = l
            BY <1>1
        <3>5. h.lines = l \o SetToSeq(ShownFor(w, v, m))
            BY <3>2, <3>3, <3>4, NoneInSeq, Zenon
        <3> QED BY <3>3, <3>5 DEF h, l, w, v, s
    <2>4. CASE ~(k # 0 /\ v < k)
        <3> DEFINE x == LineIs(w, 1)
        <3>1. {y \in {k} : y <= v} = {k}
            BY <1>1, <1>2, <2>4
        <3>2. ShownFor(w, v, m) = {x}
            BY <2>2, <3>1
        <3>3. x \in LineSet
            BY <1>3 DEF LineIs, LineSet, w
        <3>4. SetToSeq({x}) = <<x>>
            BY OneInSeq
        <3>5. h = Closed(s, v, Append(l, x))
            BY <2>1, <2>4, Zenon
        <3> HIDE DEF x
        <3>6. l \o <<x>> = Append(l, x)
            BY <1>1, <3>3, AppendIsConcat
        <3>7. h.lines = Append(l, x) /\ ~h.open
            BY <3>5, ClosedHas, Zenon
        <3>8. h.lines = l \o SetToSeq(ShownFor(w, v, m))
            BY <3>2, <3>4, <3>6, <3>7, Zenon
        <3> QED BY <3>7, <3>8 DEF h, l, w, v, s
    <2> QED BY <2>3, <2>4
<1> QED BY <1>2, <1>4, <1>5

\* Calls of the log that end in a message: with components and levels as the daemon has
\* them, and scopes that are left only after they were entered.
Logged(x) ==
    /\ Levels(x.rc)
    /\ x.calls \in Seq(LogCall) /\ x.calls # <<>> /\ Last(x.calls)[1] \in {"print", "values"}
    /\ InPairs(x.calls)

LEMMA MessageAt ==
    ASSUME MaxStack \in Nat, MaxStack >= 2, NEW x, Logged(x), FitsAt(x.calls, Len(x.calls) - 1)
    PROVE  /\ LogAfter(x.rc, x.calls).lines =
                 LogAfter(x.rc, Front(x.calls)).lines \o
                 SetToSeq(ShownFor(NameAt(x.calls, Len(x.calls) - 1),
                                   LevelAt(x.rc, x.calls, Len(x.calls) - 1), Last(x.calls)))
           /\ ~LogAfter(x.rc, x.calls).open
<1> DEFINE rc == x.rc
           c == x.calls
           m == Last(c)
           k == Len(c)
           n == k - 1
           U == LogUpto(rc, c)
           g == U[n]
<1>1. /\ Levels(rc) /\ InPairs(c) /\ c \in Seq(LogCall) /\ c # <<>> /\ m[1] \in {"print", "values"}
    BY DEF Logged
<1>2. FitsAt(c, n)
    OBVIOUS
<1> HIDE DEF rc, c
<1>3. k \in Nat /\ k >= 1 /\ m \in LogCall
    BY <1>1, FrontIs
<1>4. m = c[k]
    BY Zenon DEF Last
<1>5. U \in [0..k -> ClosedLogs] /\ \A i \in 1..k : U[i] = Done(rc, U[i - 1], c[i])
    BY <1>1, LogDefined
<1>6. LogAfter(rc, c) = U[k] /\ LogAfter(rc, Front(c)) = g
    BY <1>1, LogAfterIs, LogBefore
<1>7. Last(g.stack) = NameAt(c, n) /\ g.verbosity = LevelAt(rc, c, n)
    <2>1. n \in 0..Len(c)
        BY <1>3
    <2> HIDE DEF n
    <2> QED BY <1>1, <1>2, <2>1, TopNamed
<1> HIDE DEF U, k, m
<1>8. g \in ClosedLogs /\ U[k] = Done(rc, g, m)
    BY <1>3, <1>4, <1>5
<1> HIDE DEF g, n
<1>9. /\ Done(rc, g, m).lines = g.lines \o SetToSeq(ShownFor(Last(g.stack), g.verbosity, m))
      /\ ~Done(rc, g, m).open
    BY <1>1, <1>3, <1>8, MessageShown
<1>10. /\ LogAfter(rc, c).lines = LogAfter(rc, Front(c)).lines \o SetToSeq(ShownFor(NameAt(c, n), LevelAt(rc, c, n), m))
       /\ ~LogAfter(rc, c).open
    BY ONLY <1>6, <1>7, <1>8, <1>9, Zenon
<1> QED BY ONLY <1>10 DEF rc, c, k, n, m

LEMMA MessagesAreNamed ==
    ASSUME CallTyped, MaxStack \in Nat, MaxStack >= 2, \A x \in LogArgs : Logged(x)
    PROVE  MessageNamed
<1> DEFINE Named(x) ==
              LET n == Len(x.calls) - 1
              IN FitsAt(x.calls, n) =>
                   /\ LogAfter(x.rc, x.calls).lines =
                        LogAfter(x.rc, Front(x.calls)).lines \o
                        SetToSeq(ShownFor(NameAt(x.calls, n), LevelAt(x.rc, x.calls, n), Last(x.calls)))
                   /\ ~LogAfter(x.rc, x.calls).open
<1>1. ASSUME NEW x \in LogArgs
      PROVE  Named(x)
    <2>1. Logged(x)
        OBVIOUS
    <2> QED BY <2>1, MessageAt
<1>2. Called("log") => arg \in LogArgs
    BY DEF CallTyped, Called, arg
<1>3. MessageNamed <=> (Called("log") => Named(arg))
    BY Zenon DEF MessageNamed, FitsAt, NameAt, LevelAt, ShownFor, ScopesAt, OpenAt, LineIs, IsPush, IsPop,
       ScopeDepth, CallsOf
<1> HIDE DEF Named
<1> QED BY <1>1, <1>2, <1>3

\* Whatever calls of dsLog came before, a message is one line of the log, under the name of
\* the innermost dsLogScope that is open and within the verbosity that the rc file gives
\* its component. The scopes are dsLogScope objects, which pop what they pushed; their
\* components are never called "sys"; MAX_LOG_COMPONENT_STACK is 10. Scopes that did not
\* fit on the stack leave it as it was once they have all been left.
THEOREM MessagesUnderTheirScope ==
    ASSUME MaxStack \in Nat, MaxStack >= 2, \A x \in LogArgs : Logged(x)
    PROVE  CodecsSpec => []MessageNamed
<1>1. CallTyped => MessageNamed
    BY MessagesAreNamed
<1> QED BY <1>1, Arguments, PTL
----------------------------------------------------------------------------
(* Options of the command line.                                             *)

\* What next reads of a place in argv: the letter of an option, with its argument behind
\* it or in the next word, and where the option behind it begins.
Place(optind, place) == [optind |-> optind, place |-> place]
Places(argv) == [optind : 1..(Len(argv) + 1), place : Nat]
LetterAt(p) == IF p.place = 0 THEN 2 ELSE p.place
NoArgument(argv, p, o, q) ==
    /\ o.letter \notin NeedsArgument
    /\ q = IF LetterAt(p) < Len(argv[p.optind]) THEN Place(p.optind, LetterAt(p) + 1) ELSE Place(p.optind + 1, 0)
Attached(argv, p, o, q) ==
    /\ o.letter \in NeedsArgument /\ LetterAt(p) < Len(argv[p.optind])
    /\ o.arg = SubSeq(argv[p.optind], LetterAt(p) + 1, Len(argv[p.optind])) /\ q = Place(p.optind + 1, 0)
Separate(argv, p, o, q) ==
    /\ o.letter \in NeedsArgument /\ LetterAt(p) = Len(argv[p.optind]) /\ p.optind < Len(argv)
    /\ o.arg = argv[p.optind + 1] /\ q = Place(p.optind + 2, 0)
OptionAt(argv, p, o) ==
    /\ p.optind <= Len(argv) /\ LetterAt(p) <= Len(argv[p.optind])
    /\ p.place = 0 => argv[p.optind][1] = "-"
    /\ argv[p.optind][LetterAt(p)] = o.letter /\ o.letter # "-"
Spells(argv, p, o, q) ==
    OptionAt(argv, p, o) /\ (NoArgument(argv, p, o, q) \/ Attached(argv, p, o, q) \/ Separate(argv, p, o, q))

\* Nothing is left, a word that is no option, "-" alone, or a word with two dashes.
Ends(argv, p) ==
    /\ p.place = 0
    /\ p.optind <= Len(argv) =>
         \/ argv[p.optind] = <<>> \/ argv[p.optind][1] # "-"
         \/ Len(argv[p.optind]) = 1 \/ argv[p.optind][2] = "-"

LEMMA ScannerIs ==
    ASSUME NEW a, NEW b, NEW c, NEW d
    PROVE  /\ Scanner(a, b, c, d).optind = a /\ Scanner(a, b, c, d).place = b
           /\ Scanner(a, b, c, d).ret = c /\ Scanner(a, b, c, d).optarg = d
BY DEF Scanner

LEMMA PlaceIs ==
    ASSUME NEW a, NEW b
    PROVE  Place(a, b).optind = a /\ Place(a, b).place = b
BY DEF Place

\* A call of next at an option.
LEMMA NextIsLetter ==
    ASSUME NEW C, NEW argv \in Seq(Seq(C)), NEW p \in Places(argv), NEW o, OptionAt(argv, p, o),
           NEW g, g.optind = p.optind, g.place = p.place
    PROVE  next(argv, g) = Letter(argv, p.optind, LetterAt(p))
<1> DEFINE n == p.optind
           w == argv[n]
<1>1. n \in 1..Len(argv) /\ p.place \in Nat /\ Len(argv) \in Nat
    BY LenProperties DEF Places, OptionAt
<1>2. w \in Seq(C) /\ Len(w) \in Nat
    BY <1>1, ElementOfSeq, LenProperties
<1>3. CASE p.place # 0
    BY <1>3, Zenon DEF next, LetterAt
<1>4. CASE p.place = 0
    <2>1. LetterAt(p) = 2
        BY <1>4 DEF LetterAt
    <2>2. 2 <= Len(w) /\ w[1] = "-" /\ w[2] = o.letter /\ o.letter # "-"
        BY <1>4, <2>1 DEF OptionAt
    <2>3. ~(n > Len(argv))
        BY <1>1
    <2>4. w # <<>> /\ Len(w) > 1
        BY <1>2, <2>2
    <2> HIDE DEF w
    <2>5. next(argv, g) = Letter(argv, n, 2)
        BY <1>4, <2>2, <2>3, <2>4, Zenon DEF next, w
    <2> QED BY <2>1, <2>5
<1> QED BY <1>3, <1>4

\* What main() sees of an option.
Seen(h, o, q) ==
    /\ o.letter \notin Letters => h.ret = "throw"
    /\ o.letter \in Letters => h.ret = o.letter /\ h.optind = q.optind /\ h.place = q.place
    /\ o.letter \in NeedsArgument => h.optarg = o.arg

LEMMA NextSees ==
    ASSUME NEW C, NEW argv \in Seq(Seq(C)), NEW p \in Places(argv), NEW o, NEW q, Spells(argv, p, o, q),
           NEW g, g.optind = p.optind, g.place = p.place
    PROVE  Seen(next(argv, g), o, q)
<1> DEFINE n == p.optind
           w == argv[n]
           i == LetterAt(p)
           t == IF i < Len(w) THEN i + 1 ELSE 0
           h == Letter(argv, n, i)
           c == o.letter
<1>1. n \in 1..Len(argv) /\ p.place \in Nat /\ Len(argv) \in Nat
    BY LenProperties DEF Places, OptionAt, Spells
<1>2. w \in Seq(C) /\ Len(w) \in Nat
    BY <1>1, ElementOfSeq, LenProperties
<1>3. i \in Nat \ {0} /\ i <= Len(w)
    BY <1>1 DEF LetterAt, Spells, OptionAt
<1>4. w[i] = c /\ c # "-" /\ next(argv, g) = h
    BY NextIsLetter DEF Spells, OptionAt
<1>5. h = IF c \notin Letters THEN Scanner(Past(n, t), t, "throw", <<>>)
          ELSE IF c \notin NeedsArgument THEN Scanner(Past(n, t), t, c, <<>>)
          ELSE Argument(argv, n, t, c)
    BY <1>4, Zenon DEF Letter
<1>6. NeedsArgument \subseteq Letters
    BY DEF NeedsArgument, Letters
<1> HIDE DEF h
<1>7. CASE c \notin Letters
    <2>1. h.ret = "throw"
        <3>1. h = Scanner(Past(n, t), t, "throw", <<>>)
            BY <1>5, <1>7, Zenon
        <3> HIDE DEF n, t
        <3> QED BY <3>1 DEF Scanner
    <2> QED BY <1>4, <1>6, <1>7, <2>1, Zenon DEF Seen
<1>8. CASE c \in Letters /\ c \notin NeedsArgument
    <2>1. h = Scanner(Past(n, t), t, c, <<>>)
        BY <1>5, <1>8, Zenon
    <2>2. h.ret = c /\ h.optind = Past(n, t) /\ h.place = t
        BY <2>1, ScannerIs
    <2>3. q = IF i < Len(w) THEN Place(n, i + 1) ELSE Place(n + 1, 0)
        BY <1>8, Zenon DEF Spells, NoArgument, Attached, Separate
    <2>4. q.optind = Past(n, t) /\ q.place = t
        <3>1. CASE i < Len(w)
            <4>1. q = Place(n, i + 1) /\ t = i + 1 /\ t # 0
                BY <1>3, <2>3, <3>1
            <4>2. Past(n, t) = n
                BY <4>1, Zenon DEF Past
            <4> QED BY <4>1, <4>2, PlaceIs, Zenon
        <3>2. CASE ~(i < Len(w))
            <4>1. q = Place(n + 1, 0) /\ t = 0
                BY <2>3, <3>2, Zenon
            <4>2. Past(n, t) = n + 1
                BY <4>1, Zenon DEF Past
            <4> QED BY <4>1, <4>2, PlaceIs, Zenon
        <3> QED BY <3>1, <3>2
    <2> HIDE DEF t
    <2> QED BY <1>4, <1>8, <2>2, <2>4, Zenon DEF Seen
<1>9. CASE c \in NeedsArgument
    <2>1. h = Argument(argv, n, t, c)
        BY <1>5, <1>6, <1>9, Zenon
    <2>2. CASE Attached(argv, p, o, q)
        <3>1. i < Len(w) /\ o.arg = SubSeq(w, i + 1, Len(w)) /\ q = Place(n + 1, 0)
            BY <2>2, Zenon DEF Attached
        <3>2. t = i + 1 /\ t # 0
            BY <1>3, <3>1
        <3>3. h = Scanner(n + 1, 0, c, SubSeq(w, t, Len(w)))
            BY <2>1, <3>2, Zenon DEF Argument
        <3>4. h.ret = c /\ h.optind = n + 1 /\ h.place = 0 /\ h.optarg = o.arg
            BY <3>1, <3>2, <3>3 DEF Scanner
        <3>5. q.optind = n + 1 /\ q.place = 0
            BY <3>1, PlaceIs, Zenon
        <3> QED BY <1>4, <1>6, <1>9, <3>4, <3>5, Zenon DEF Seen
    <2>3. CASE Separate(argv, p, o, q)
        <3>1. i = Len(w) /\ n < Len(argv) /\ o.arg = argv[n + 1] /\ q = Place(n + 2, 0)
            BY <2>3, Zenon DEF Separate
        <3>2. ~(i < Len(w)) /\ ~(n + 1 > Len(argv))
            BY <1>1, <1>2, <3>1
        <3>3. t = 0
            BY <3>2, Zenon
        <3>4. h = Scanner(n + 2, 0, c, argv[n + 1])
            BY <2>1, <3>2, <3>3, Zenon DEF Argument
        <3>5. h.ret = c /\ h.optind = n + 2 /\ h.place = 0 /\ h.optarg = o.arg
            BY <3>1, <3>4 DEF Scanner
        <3>6. q.optind = n + 2 /\ q.place = 0
            BY <3>1, PlaceIs, Zenon
        <3> QED BY <1>4, <1>6, <1>9, <3>5, <3>6, Zenon DEF Seen
    <2> QED BY <1>9, <2>2, <2>3, Zenon DEF Spells, NoArgument
<1> QED BY <1>7, <1>8, <1>9

LEMMA NextEnds ==
    ASSUME NEW C, NEW argv \in Seq(Seq(C)), NEW p \in Places(argv), Ends(argv, p),
           NEW g, g.optind = p.optind, g.place = p.place
    PROVE  next(argv, g).ret = "EOF"
<1> DEFINE n == p.optind
           w == argv[n]
<1>1. n \in Nat /\ Len(argv) \in Nat /\ n \in 1..(Len(argv) + 1) /\ g.place = 0
    BY LenProperties DEF Places, Ends
<1>2. CASE n > Len(argv)
    <2>1. next(argv, g) = Scanner(n, 0, "EOF", <<>>)
        BY <1>1, <1>2, Zenon DEF next
    <2> QED BY <2>1 DEF Scanner
<1>3. CASE ~(n > Len(argv))
    <2>1. n \in 1..Len(argv)
        BY <1>1, <1>3
    <2>2. w \in Seq(C) /\ Len(w) \in Nat
        BY <2>1, ElementOfSeq, LenProperties
    <2>3. w = <<>> \/ w[1] # "-" \/ Len(w) = 1 \/ w[2] = "-"
        BY <2>1 DEF Ends
    <2>4. CASE w = <<>> \/ w[1] # "-"
        <3>1. next(argv, g) = Scanner(n, 0, "EOF", <<>>)
            BY <1>1, <1>3, <2>4, Zenon DEF next
        <3> QED BY <3>1 DEF Scanner
    <2>5. CASE ~(w = <<>> \/ w[1] # "-") /\ Len(w) = 1
        <3>1. ~(Len(w) > 1) /\ ~(1 < Len(w)) /\ w[1] = "-"
            BY <2>2, <2>5
        <3>2. next(argv, g) = Letter(argv, n, 1)
            BY <1>1, <1>3, <2>5, <3>1 DEF next
        <3>3. Letter(argv, n, 1) = Scanner(n, 0, "EOF", <<>>)
            BY <3>1, Zenon DEF Letter
        <3> QED BY <3>2, <3>3 DEF Scanner
    <2>6. CASE ~(w = <<>> \/ w[1] # "-") /\ Len(w) # 1
        <3>1. Len(w) > 1 /\ w[2] = "-"
            <4>1. w \in Seq(C) /\ w # <<>>
                BY <2>2, <2>6
            <4>2. Len(w) # 0
                BY ONLY <4>1, EmptySeq
            <4>3. Len(w) > 1
                <5> DEFINE k == Len(w)
                <5>1. k \in Nat /\ k # 0 /\ k # 1
                    BY <2>2, <2>6, <4>2, Zenon
                <5> HIDE DEF k
                <5>2. k > 1
                    BY <5>1
                <5> QED BY <5>2 DEF k
            <4> HIDE DEF w
            <4> QED BY ONLY <2>3, <2>6, <4>3
        <3>2. next(argv, g) = Scanner(n + 1, 0, "EOF", <<>>)
            BY <1>1, <1>3, <2>6, <3>1 DEF next
        <3> QED BY <3>2 DEF Scanner
    <2> QED BY <2>4, <2>5, <2>6
<1> QED BY <1>2, <1>3

SumsOf(f, l, m) == f \in [0..m -> Nat] /\ f[0] = 0 /\ \A i \in 1..m : f[i] = f[i - 1] + l[i]

LEMMA SumsUpto ==
    ASSUME NEW m, m \in Nat, NEW l, l \in [1..m -> Nat]
    PROVE  \E f : SumsOf(f, l, m)
<1> DEFINE S == Nat
           a == 0
           n == m
           step == [i \in 1..n |-> [s \in S |-> s + l[i]]]
<1>1. a \in S /\ n \in Nat /\ step \in [1..n -> [S -> S]]
    OBVIOUS
<1>2. PICK f \in [0..n -> S] : f[0] = a /\ \A i \in 1..n : f[i] = step[i][f[i - 1]]
    <2> HIDE DEF step, a, S, n
    <2> QED BY ONLY <1>1, PrimitiveRecursion
<1>3. ASSUME NEW i \in 1..m
      PROVE  f[i] = f[i - 1] + l[i]
    <2>1. f[i - 1] \in Nat
        OBVIOUS
    <2> QED BY <1>2, <2>1
<1>4. SumsOf(f, l, m)
    BY <1>2, <1>3 DEF SumsOf
<1> QED BY ONLY <1>4, Zenon

\* The characters in the first words of argv.
CharsUpto(argv) == CHOOSE F : F = [i \in 0..Len(argv) |-> IF i = 0 THEN 0 ELSE F[i - 1] + Len(argv[i])]

LEMMA CharsAre ==
    ASSUME NEW C, NEW argv \in Seq(Seq(C))
    PROVE  /\ CharsUpto(argv) \in [0..Len(argv) -> Nat] /\ CharsUpto(argv)[0] = 0
           /\ \A i \in 1..Len(argv) : CharsUpto(argv)[i] = CharsUpto(argv)[i - 1] + Len(argv[i])
<1> DEFINE m == Len(argv)
           L(i) == Len(argv[i])
           l == [i \in 1..m |-> L(i)]
           Solves(F) == F = [i \in 0..m |-> IF i = 0 THEN 0 ELSE F[i - 1] + L(i)]
<1>1. m \in Nat /\ \A i \in 1..m : L(i) \in Nat
    BY ElementOfSeq, LenProperties
<1> HIDE DEF m, L
<1>2. l \in [1..m -> Nat]
    BY <1>1
<1>3. PICK f : SumsOf(f, l, m)
    <2>1. m \in Nat
        BY <1>1
    <2> HIDE DEF l
    <2> QED BY ONLY <1>2, <2>1, SumsUpto, Zenon
<1>4. Solves(f)
    <2>1. f = [i \in 0..m |-> f[i]]
        BY <1>3 DEF SumsOf
    <2>2. ASSUME NEW i \in 0..m
          PROVE  f[i] = IF i = 0 THEN 0 ELSE f[i - 1] + L(i)
        BY <1>1, <1>3 DEF SumsOf
    <2> QED BY <2>1, <2>2
<1> DEFINE T == CharsUpto(argv)
<1>5. Solves(T)
    <2>1. T = CHOOSE F : Solves(F)
        BY Zenon DEF CharsUpto, m, L
    <2> HIDE DEF Solves
    <2> QED BY <1>4, <2>1
<1> HIDE DEF T
<1>6. DOMAIN T = 0..m /\ T = [i \in 0..m |-> T[i]]
    BY <1>5
<1>7. \A i \in 0..m : T[i] = IF i = 0 THEN 0 ELSE T[i - 1] + L(i)
    BY <1>5
<1> HIDE DEF Solves
<1>8. T[0] = 0 /\ \A i \in 1..m : T[i] = T[i - 1] + L(i)
    BY <1>1, <1>7
<1> DEFINE G == {i \in 0..m : T[i] \in Nat}
<1>9. 0 \in G
    BY <1>1, <1>8
<1>10. ASSUME NEW i \in 1..m, i - 1 \in G
       PROVE  i \in G
    BY <1>1, <1>8, <1>10
<1>11. 0..m \subseteq G
    <2> HIDE DEF G
    <2> QED BY <1>1, <1>9, <1>10, BoundedInduction
<1>12. T \in [0..m -> Nat]
    BY <1>6, <1>11
<1> QED BY <1>8, <1>12 DEF T, m, L

\* How many characters are behind a place.
Cursor(argv, p) == CharsUpto(argv)[p.optind - 1] + (IF p.place = 0 THEN 0 ELSE p.place - 1)

\* An option takes one at least.
LEMMA CursorMoves ==
    ASSUME NEW C, NEW argv \in Seq(Seq(C)), NEW p \in Places(argv), NEW o, NEW q \in Places(argv),
           Spells(argv, p, o, q)
    PROVE  Cursor(argv, p) \in Nat /\ Cursor(argv, q) \in Nat /\ Cursor(argv, q) > Cursor(argv, p)
<1> DEFINE m == Len(argv)
           n == p.optind
           i == LetterAt(p)
           Ch == CharsUpto(argv)
           k == Len(argv[n])
<1>1. m \in Nat /\ n \in 1..m /\ p.place \in Nat
    BY LenProperties DEF Places, OptionAt, Spells
<1>2. k \in Nat /\ \A j \in 1..m : Len(argv[j]) \in Nat
    BY <1>1, ElementOfSeq, LenProperties
<1>3. i \in Nat \ {0} /\ i <= k /\ (p.place # 0 => i = p.place) /\ (p.place = 0 => i = 2)
    BY <1>1 DEF LetterAt, Spells, OptionAt
<1>4. Ch \in [0..m -> Nat] /\ \A j \in 1..m : Ch[j] = Ch[j - 1] + Len(argv[j])
    BY CharsAre
<1> HIDE DEF i, Ch
<1> DEFINE a == Ch[n - 1]
           b == Ch[n]
<1>5. a \in Nat /\ b = a + k /\ b \in Nat
    BY <1>1, <1>2, <1>4
<1>6. Cursor(argv, p) = a + (IF p.place = 0 THEN 0 ELSE p.place - 1)
    BY DEF Cursor, Ch
<1> HIDE DEF m, n, a, b, k
<1>7. Cursor(argv, p) \in Nat /\ Cursor(argv, p) <= a + i - 1
    BY <1>1, <1>3, <1>5, <1>6
<1>8. CASE NoArgument(argv, p, o, q)
    <2>1. q = IF i < k THEN Place(n, i + 1) ELSE Place(n + 1, 0)
        BY <1>8, Zenon DEF NoArgument, i, n, k
    <2>2. CASE i < k
        <3>1. q.optind = n /\ q.place = i + 1
            BY <2>1, <2>2, PlaceIs
        <3>2. Cursor(argv, q) = a + i
            BY <1>3, <3>1 DEF Cursor, a, Ch
        <3> QED BY <1>3, <1>5, <1>7, <3>2
    <2>3. CASE ~(i < k)
        <3>1. q.optind = n + 1 /\ q.place = 0
            BY <2>1, <2>3, PlaceIs
        <3>2. Cursor(argv, q) = b
            BY <1>1, <1>5, <3>1 DEF Cursor, b, Ch
        <3> QED BY <1>2, <1>3, <1>5, <1>7, <2>3, <3>2
    <2> QED BY <2>2, <2>3
<1>9. CASE Attached(argv, p, o, q)
    <2>1. q.optind = n + 1 /\ q.place = 0
        BY <1>9, PlaceIs DEF Attached, n
    <2>2. Cursor(argv, q) = b
        BY <1>1, <1>5, <2>1 DEF Cursor, b, Ch
    <2> QED BY <1>2, <1>3, <1>5, <1>7, <2>2
<1>10. CASE Separate(argv, p, o, q)
    <2>1. q.optind = n + 2 /\ q.place = 0 /\ n + 1 <= m
        BY <1>1, <1>10, PlaceIs DEF Separate, n, m
    <2>2. n + 1 \in 1..m /\ (n + 1) - 1 = n /\ (n + 2) - 1 = n + 1
        BY <1>1, <2>1
    <2> DEFINE d == Ch[n + 1]
    <2>3. d = b + Len(argv[n + 1]) /\ Len(argv[n + 1]) \in Nat
        BY <1>2, <1>4, <2>2 DEF b
    <2>4. Cursor(argv, q) = d + 0
        BY <2>1, <2>2 DEF Cursor, Ch
    <2> HIDE DEF d
    <2>5. d \in Nat /\ d >= b
        BY <1>5, <2>3
    <2>6. Cursor(argv, q) = d
        BY <2>4, <2>5
    <2> QED BY <1>2, <1>3, <1>5, <1>7, <2>5, <2>6
<1> QED BY <1>8, <1>9, <1>10 DEF Spells

\* And there are no more than there are.
LEMMA CursorEnds ==
    ASSUME NEW C, NEW argv \in Seq(Seq(C)), NEW p \in Places(argv), p.place = 0
    PROVE  Cursor(argv, p) \in Nat /\ Cursor(argv, p) <= CharsUpto(argv)[Len(argv)]
<1> DEFINE m == Len(argv)
           Ch == CharsUpto(argv)
           G == {j \in 0..m : \A i \in 0..j : Ch[i] <= Ch[j]}
<1>1. m \in Nat /\ p.optind \in 1..(m + 1) /\ \A j \in 1..m : Len(argv[j]) \in Nat
    BY ElementOfSeq, LenProperties DEF Places
<1>2. Ch \in [0..m -> Nat] /\ \A j \in 1..m : Ch[j] = Ch[j - 1] + Len(argv[j])
    BY CharsAre
<1> HIDE DEF m, Ch
<1>3. 0 \in G
    BY <1>1, <1>2
<1>4. ASSUME NEW j \in 1..m, j - 1 \in G
      PROVE  j \in G
    <2> DEFINE x == Ch[j - 1]
               y == Ch[j]
               k == Len(argv[j])
    <2>0. x \in Nat /\ y \in Nat /\ k \in Nat /\ y = x + k
        BY <1>1, <1>2
    <2> HIDE DEF x, y, k
    <2>1. x <= y /\ x \in Nat /\ y \in Nat
        BY <2>0
    <2> USE DEF x, y
    <2>2. ASSUME NEW i \in 0..j
          PROVE  Ch[i] <= Ch[j]
        <3>1. CASE i = j
            BY <2>1, <3>1
        <3>2. CASE i # j
            <4>1. i \in 0..(j - 1) /\ i \in 0..m
                BY <1>1, <3>2
            <4>2. Ch[i] <= Ch[j - 1] /\ Ch[i] \in Nat
                BY <1>2, <1>4, <4>1
            <4> QED BY <2>1, <4>2
        <3> QED BY <3>1, <3>2
    <2> QED BY <1>1, <2>2
<1>5. 0..m \subseteq G
    <2> HIDE DEF G
    <2> QED BY <1>1, <1>3, <1>4, BoundedInduction
<1> DEFINE k == p.optind - 1
<1>6. k \in 0..m /\ m \in G
    BY <1>1, <1>5
<1>7. Ch[k] <= Ch[m] /\ Ch[k] \in Nat
    BY <1>2, <1>6
<1>8. Cursor(argv, p) = Ch[k] + 0
    BY DEF Cursor, Ch
<1> HIDE DEF k
<1>9. Cursor(argv, p) = Ch[k]
    BY <1>7, <1>8
<1> QED BY <1>7, <1>9 DEF Ch, m

\* What main() has of the options.
MainIs(c, i, d, r) == [config |-> c, interface |-> i, daemonise |-> d, run |-> r]
Daemon(c, i, r) == MainIs(c, i, TRUE, r)
Quiet(c, i, r) == MainIs(c, i, FALSE, r)
RunSet(m, x) == [m EXCEPT !.run = x]
ConfigSet(m, x) == [m EXCEPT !.config = x]
InterfaceSet(m, x) == [m EXCEPT !.interface = x]
DaemonTo(m, x) == [m EXCEPT !.daemonise = x]
DaemonSet(m) == DaemonTo(m, TRUE)
HowToRun(c, i) == IF c = {} \/ i = {} THEN "exit" ELSE "start"

LEMMA MainFields ==
    ASSUME NEW c, NEW i, NEW d, NEW r
    PROVE  /\ MainIs(c, i, d, r).config = c /\ MainIs(c, i, d, r).interface = i
           /\ MainIs(c, i, d, r).run = r
BY DEF MainIs

LEMMA DaemonFields ==
    ASSUME NEW c, NEW i, NEW r
    PROVE  Daemon(c, i, r).daemonise /\ ~Quiet(c, i, r).daemonise
BY DEF MainIs, Daemon, Quiet

LEMMA MainSets ==
    ASSUME NEW c, NEW i, NEW d, NEW r, NEW x
    PROVE  /\ RunSet(MainIs(c, i, d, r), x) = MainIs(c, i, d, x)
           /\ ConfigSet(MainIs(c, i, d, r), x) = MainIs(x, i, d, r)
           /\ InterfaceSet(MainIs(c, i, d, r), x) = MainIs(c, x, d, r)
BY DEF MainIs, RunSet, ConfigSet, InterfaceSet

LEMMA DaemonSets ==
    ASSUME NEW c, NEW i, NEW d, NEW r
    PROVE  DaemonSet(MainIs(c, i, d, r)) = Daemon(c, i, r)
<1> DEFINE t == TRUE
<1> HIDE DEF t
<1>1. DaemonTo(MainIs(c, i, d, r), t) = MainIs(c, i, t, r)
    BY DEF MainIs, DaemonTo
<1> QED BY <1>1, Zenon DEF t, DaemonSet, Daemon

\* A turn of the loop, by what next returned.
LEMMA TurnEnds ==
    ASSUME NEW c, NEW i, NEW d, NEW g, g.ret = "EOF"
    PROVE  Turn(MainIs(c, i, d, "next"), g) = MainIs(c, i, d, HowToRun(c, i))
<1> DEFINE m == MainIs(c, i, d, "next")
<1>1. m.config = c /\ m.interface = i
    BY MainFields
<1>2. Turn(m, g) = RunSet(m, HowToRun(m.config, m.interface))
    BY Zenon DEF Turn, RunSet, HowToRun
<1>3. \A x : RunSet(m, x) = MainIs(c, i, d, x)
    BY MainSets
<1> QED BY <1>1, <1>2, <1>3, Zenon

LEMMA TurnConfig ==
    ASSUME NEW c, NEW i, NEW d, NEW g, g.ret = "c"
    PROVE  Turn(MainIs(c, i, d, "next"), g) = MainIs({g.optarg}, i, d, "next")
<1> DEFINE m == MainIs(c, i, d, "next")
<1>1. g.ret # "EOF"
    OBVIOUS
<1>2. Turn(m, g) = ConfigSet(m, {g.optarg})
    BY <1>1, Zenon DEF Turn, ConfigSet
<1>3. \A x : ConfigSet(m, x) = MainIs(x, i, d, "next")
    BY MainSets
<1> QED BY <1>2, <1>3, Zenon

LEMMA TurnInterface ==
    ASSUME NEW c, NEW i, NEW d, NEW g, g.ret = "i"
    PROVE  Turn(MainIs(c, i, d, "next"), g) = MainIs(c, {g.optarg}, d, "next")
<1> DEFINE m == MainIs(c, i, d, "next")
<1>1. g.ret # "EOF" /\ g.ret # "c"
    OBVIOUS
<1>2. Turn(m, g) = InterfaceSet(m, {g.optarg})
    BY <1>1, Zenon DEF Turn, InterfaceSet
<1>3. \A x : InterfaceSet(m, x) = MainIs(c, x, d, "next")
    BY MainSets
<1> QED BY <1>2, <1>3, Zenon

LEMMA TurnDaemon ==
    ASSUME NEW c, NEW i, NEW d, NEW g, g.ret = "d"
    PROVE  Turn(MainIs(c, i, d, "next"), g) = Daemon(c, i, "next")
<1> DEFINE m == MainIs(c, i, d, "next")
<1>1. g.ret # "EOF" /\ g.ret # "c" /\ g.ret # "i"
    OBVIOUS
<1>2. Turn(m, g) = DaemonSet(m)
    BY <1>1, Zenon DEF Turn, DaemonSet, DaemonTo
<1> QED BY <1>2, DaemonSets, Zenon

LEMMA TurnUsage ==
    ASSUME NEW c, NEW i, NEW d, NEW g, g.ret \notin {"EOF", "c", "i", "d"}
    PROVE  Turn(MainIs(c, i, d, "next"), g) = MainIs(c, i, d, "usage")
<1> DEFINE m == MainIs(c, i, d, "next")
<1>1. g.ret # "EOF" /\ g.ret # "c" /\ g.ret # "i" /\ g.ret # "d"
    OBVIOUS
<1>2. Turn(m, g) = RunSet(m, "usage")
    BY <1>1, Zenon DEF Turn, RunSet
<1>3. \A x : RunSet(m, x) = MainIs(c, i, d, x)
    BY MainSets
<1> QED BY <1>2, <1>3, Zenon

\* The states of the loop.
TextsOf(argv) == {<<>>} \cup {argv[i] : i \in Int} \cup {SubSeq(argv[i], j, Len(argv[i])) : i \in Int, j \in Int}
Returned == Letters \cup {"EOF", "throw", ""}
Scanners(argv) == {Scanner(x[1], x[2], x[3], x[4]) : x \in Int \X Int \X Returned \X TextsOf(argv)}
Runs == {"next", "usage", "exit", "start"}
Mains(argv) ==
    {MainIs(x[1], x[2], x[3], x[4]) :
        x \in (SUBSET TextsOf(argv)) \X (SUBSET TextsOf(argv)) \X BOOLEAN \X Runs}
Both(g, m) == [g |-> g, m |-> m]
LoopStates(argv) == {Both(x[1], x[2]) : x \in Scanners(argv) \X Mains(argv)}

LEMMA NoText ==
    ASSUME NEW argv
    PROVE  <<>> \in TextsOf(argv)
BY DEF TextsOf

LEMMA ScannerIn ==
    ASSUME NEW argv, NEW a \in Int, NEW b \in Int, NEW c \in Returned, NEW t \in TextsOf(argv)
    PROVE  Scanner(a, b, c, t) \in Scanners(argv)
<1> DEFINE x == <<a, b, c, t>>
<1>1. x \in Int \X Int \X Returned \X TextsOf(argv) /\ x[1] = a /\ x[2] = b /\ x[3] = c /\ x[4] = t
    OBVIOUS
<1> HIDE DEF x
<1> QED BY <1>1 DEF Scanners

LEMMA MainIn ==
    ASSUME NEW argv, NEW c \in SUBSET TextsOf(argv), NEW i \in SUBSET TextsOf(argv), NEW d \in BOOLEAN, NEW r \in Runs
    PROVE  MainIs(c, i, d, r) \in Mains(argv)
<1> DEFINE S == SUBSET TextsOf(argv)
           x == <<c, i, d, r>>
<1>1. x \in S \X S \X BOOLEAN \X Runs /\ x[1] = c /\ x[2] = i /\ x[3] = d /\ x[4] = r
    OBVIOUS
<1>2. MainIs(x[1], x[2], x[3], x[4]) = MainIs(c, i, d, r)
    <2> HIDE DEF x
    <2> QED BY <1>1, Zenon
<1> DEFINE P == S \X S \X BOOLEAN \X Runs
<1>3. x \in P
    BY <1>1
<1>4. Mains(argv) = {MainIs(y[1], y[2], y[3], y[4]) : y \in P}
    BY Zenon DEF Mains
<1> HIDE DEF x, P
<1> QED BY <1>2, <1>3, <1>4

LEMMA LetterIn ==
    ASSUME NEW argv, NEW n \in Int, NEW i \in Int
    PROVE  Letter(argv, n, i) \in Scanners(argv)
<1> DEFINE c == argv[n][i]
           t == IF i < Len(argv[n]) THEN i + 1 ELSE 0
           e == <<>>
           w == argv[n]
<1>1. t \in Int /\ Past(n, t) \in Int /\ n + 1 \in Int /\ n + 2 \in Int /\ 0 \in Int
    BY DEF Past
<1>2. e \in TextsOf(argv) /\ argv[n + 1] \in TextsOf(argv) /\ SubSeq(w, t, Len(w)) \in TextsOf(argv)
    <2> HIDE DEF t
    <2> QED BY <1>1 DEF TextsOf
<1>3. "EOF" \in Returned /\ "throw" \in Returned /\ Letters \subseteq Returned
    BY DEF Returned
<1>4. Letter(argv, n, i) =
         IF c = "-" THEN Scanner(n, t, "EOF", e)
         ELSE IF c \notin Letters THEN Scanner(Past(n, t), t, "throw", e)
         ELSE IF c \notin NeedsArgument THEN Scanner(Past(n, t), t, c, e)
         ELSE Argument(argv, n, t, c)
    BY Zenon DEF Letter
<1> DEFINE z == 0
           eof == "EOF"
           throw == "throw"
<1>5. Argument(argv, n, t, c) =
         IF t # z THEN Scanner(n + 1, z, c, SubSeq(w, t, Len(w)))
         ELSE IF n + 1 > Len(argv) THEN Scanner(n + 1, z, throw, e)
         ELSE Scanner(n + 2, z, c, argv[n + 1])
    BY Zenon DEF Argument
<1>6. z \in Int /\ eof \in Returned /\ throw \in Returned
    BY <1>3
<1> HIDE DEF t, e, z, eof, throw, c, w
<1>7. /\ Scanner(n, t, eof, e) \in Scanners(argv)
      /\ Scanner(Past(n, t), t, throw, e) \in Scanners(argv)
      /\ Scanner(n + 1, z, throw, e) \in Scanners(argv)
    BY <1>1, <1>2, <1>6, ScannerIn
<1>8. ASSUME c \in Letters
      PROVE  /\ Scanner(Past(n, t), t, c, e) \in Scanners(argv)
             /\ Scanner(n + 1, z, c, SubSeq(w, t, Len(w))) \in Scanners(argv)
             /\ Scanner(n + 2, z, c, argv[n + 1]) \in Scanners(argv)
    BY <1>1, <1>2, <1>3, <1>6, <1>8, ScannerIn
<1>9. c \in Letters => Argument(argv, n, t, c) \in Scanners(argv)
    BY ONLY <1>5, <1>7, <1>8, Zenon
<1> QED BY ONLY <1>4, <1>7, <1>8, <1>9, Zenon DEF eof, throw

LEMMA NextIn ==
    ASSUME NEW argv, NEW g \in Scanners(argv)
    PROVE  next(argv, g) \in Scanners(argv)
<1>1. PICK x \in Int \X Int \X Returned \X TextsOf(argv) : g = Scanner(x[1], x[2], x[3], x[4])
    BY DEF Scanners
<1> DEFINE n == x[1]
           p == x[2]
<1>2. n \in Int /\ p \in Int /\ g.optind = n /\ g.place = p
    BY <1>1, ScannerIs
<1> DEFINE w == IF n > Len(argv) THEN <<>> ELSE argv[n]
           e == <<>>
           z == 0
           eof == "EOF"
           q == IF Len(w) > 1 THEN 2 ELSE 1
<1>3. z \in Int /\ n + 1 \in Int /\ q \in Int /\ e \in TextsOf(argv) /\ eof \in Returned
    <2>1. z \in Int /\ n + 1 \in Int /\ q \in Int
        <3> HIDE DEF w
        <3> QED BY <1>2
    <2>2. e \in TextsOf(argv)
        BY NoText
    <2>3. eof \in Returned
        BY DEF Returned
    <2> QED BY <2>1, <2>2, <2>3
<1>4. next(argv, g) =
         IF p # 0 THEN Letter(argv, n, p)
         ELSE IF w = <<>> \/ w[1] # "-" THEN Scanner(n, z, eof, e)
         ELSE IF Len(w) > 1 /\ w[2] = "-" THEN Scanner(n + 1, z, eof, e)
         ELSE Letter(argv, n, q)
    BY <1>2, Zenon DEF next
<1> HIDE DEF n, p, w, e, z, eof, q
<1>5. Letter(argv, n, p) \in Scanners(argv) /\ Letter(argv, n, q) \in Scanners(argv)
    BY <1>2, <1>3, LetterIn
<1>6. Scanner(n, z, eof, e) \in Scanners(argv) /\ Scanner(n + 1, z, eof, e) \in Scanners(argv)
    BY <1>2, <1>3, ScannerIn
<1> QED BY ONLY <1>4, <1>5, <1>6, Zenon

LEMMA OptargIn ==
    ASSUME NEW argv, NEW g \in Scanners(argv)
    PROVE  g.optarg \in TextsOf(argv)
<1>1. PICK x \in Int \X Int \X Returned \X TextsOf(argv) : g = Scanner(x[1], x[2], x[3], x[4])
    BY DEF Scanners
<1>2. g.optarg = x[4]
    BY <1>1, ScannerIs
<1> QED BY <1>2

LEMMA TurnIn ==
    ASSUME NEW argv, NEW m \in Mains(argv), m.run = "next", NEW g \in Scanners(argv)
    PROVE  Turn(m, g) \in Mains(argv)
<1> DEFINE S == SUBSET TextsOf(argv)
           P == S \X S \X BOOLEAN \X Runs
<1>1. PICK x \in P : m = MainIs(x[1], x[2], x[3], x[4])
    BY Zenon DEF Mains
<1> DEFINE c == x[1]
           i == x[2]
           d == x[3]
           r == x[4]
<1>2. c \in S /\ i \in S /\ r \in Runs
    OBVIOUS
<1>3. d \in BOOLEAN
    OBVIOUS
<1>4. m = MainIs(c, i, d, r)
    BY <1>1, Zenon
<1> HIDE DEF c, i, d, r, P
<1>5. r = "next"
    BY <1>4, MainFields
<1>6. m = MainIs(c, i, d, "next")
    BY <1>4, <1>5, Zenon
<1>7. {g.optarg} \in S
    BY OptargIn
<1>8. "next" \in Runs /\ "usage" \in Runs /\ HowToRun(c, i) \in Runs
    BY DEF Runs, HowToRun
<1> DEFINE t == TRUE
           u == HowToRun(c, i)
           a == {g.optarg}
           k == "next"
           v == "usage"
<1>9. t \in BOOLEAN
    OBVIOUS
<1> HIDE DEF S, t, u, a, k, v
<1>10. /\ MainIs(c, i, d, u) \in Mains(argv) /\ MainIs(a, i, d, k) \in Mains(argv)
       /\ MainIs(c, a, d, k) \in Mains(argv) /\ MainIs(c, i, d, v) \in Mains(argv)
       /\ MainIs(c, i, t, k) \in Mains(argv)
    BY <1>2, <1>3, <1>7, <1>8, <1>9, MainIn DEF S, u, a, k, v
<1>11. CASE g.ret = "EOF"
    BY <1>6, <1>10, <1>11, TurnEnds, Zenon DEF u
<1>12. CASE g.ret = "c"
    <2>1. Turn(MainIs(c, i, d, "next"), g) = MainIs({g.optarg}, i, d, "next")
        BY ONLY <1>12, TurnConfig
    <2> QED BY <1>6, <1>10, <2>1, Zenon DEF a, k
<1>13. CASE g.ret = "i"
    <2>1. Turn(MainIs(c, i, d, "next"), g) = MainIs(c, {g.optarg}, d, "next")
        BY ONLY <1>13, TurnInterface
    <2> QED BY <1>6, <1>10, <2>1, Zenon DEF a, k
<1>14. CASE g.ret = "d"
    BY <1>6, <1>10, <1>14, TurnDaemon, Zenon DEF t, k, Daemon
<1>15. CASE g.ret \notin {"EOF", "c", "i", "d"}
    <2>1. Turn(MainIs(c, i, d, "next"), g) = MainIs(c, i, d, "usage")
        BY ONLY <1>15, TurnUsage
    <2> QED BY <1>6, <1>10, <2>1, Zenon DEF v
<1> QED BY <1>11, <1>12, <1>13, <1>14, <1>15

LEMMA BothFields ==
    ASSUME NEW g, NEW m
    PROVE  Both(g, m).g = g /\ Both(g, m).m = m
BY DEF Both

LEMMA BothIn ==
    ASSUME NEW argv, NEW g \in Scanners(argv), NEW m \in Mains(argv)
    PROVE  Both(g, m) \in LoopStates(argv)
<1> DEFINE x == <<g, m>>
<1>1. x \in Scanners(argv) \X Mains(argv) /\ x[1] = g /\ x[2] = m
    OBVIOUS
<1> HIDE DEF x
<1> QED BY <1>1 DEF LoopStates

\* A turn of the loop.
LEMMA LoopedIs ==
    ASSUME NEW argv, NEW s
    PROVE  /\ s.m.run # "next" => Looped(argv, s) = s
           /\ s.m.run = "next" => Looped(argv, s) = Both(next(argv, s.g), Turn(s.m, next(argv, s.g)))
BY Zenon DEF Looped, Both

LEMMA LoopedIn ==
    ASSUME NEW argv, NEW s \in LoopStates(argv)
    PROVE  Looped(argv, s) \in LoopStates(argv)
<1>1. PICK x \in Scanners(argv) \X Mains(argv) : s = Both(x[1], x[2])
    BY DEF LoopStates
<1> DEFINE g == x[1]
           m == x[2]
           h == next(argv, g)
<1>2. g \in Scanners(argv) /\ m \in Mains(argv) /\ s.g = g /\ s.m = m
    BY <1>1, BothFields
<1> HIDE DEF g, m
<1>3. CASE s.m.run # "next"
    BY <1>3, LoopedIs, Zenon
<1>4. CASE s.m.run = "next"
    <2>1. h \in Scanners(argv) /\ m.run = "next"
        BY <1>2, <1>4, NextIn
    <2> HIDE DEF h
    <2>2. Turn(m, h) \in Mains(argv)
        BY <1>2, <2>1, TurnIn
    <2>3. Looped(argv, s) = Both(h, Turn(m, h))
        BY <1>2, <1>4, LoopedIs, Zenon DEF h
    <2> QED BY <2>1, <2>2, <2>3, BothIn, Zenon
<1> QED BY <1>3, <1>4

\* The loop, as often as there are characters and once more.
LoopBegins == [g |-> NewGetopt, m |-> NoOptions]
Turns(argv) == CharsUpto(argv)[Len(argv)] + 1
LoopUpto(argv) ==
    CHOOSE F : F = [i \in 0..Turns(argv) |-> IF i = 0 THEN LoopBegins ELSE Looped(argv, F[i - 1])]

LEMMA OptionsAre ==
    ASSUME NEW argv
    PROVE  main_options(argv) = LoopUpto(argv)[Turns(argv)].m
BY Zenon DEF main_options, LoopUpto, LoopBegins, Turns, CharsUpto

LEMMA LoopBegun ==
    ASSUME NEW argv
    PROVE  /\ LoopBegins = Both(Scanner(1, 0, "", <<>>), Quiet({}, {}, "next"))
           /\ LoopBegins \in LoopStates(argv)
<1> DEFINE a == 1
           b == 0
           c == ""
           e == <<>>
           g == Scanner(a, b, c, e)
           n == {}
           f == FALSE
           r == "next"
           m == MainIs(n, n, f, r)
<1>1. a \in Int /\ b \in Int
    OBVIOUS
<1>2. c \in Returned /\ r \in Runs
    BY DEF Returned, Runs
<1>3. e \in TextsOf(argv)
    BY NoText
<1>4. n \in SUBSET TextsOf(argv)
    OBVIOUS
<1>5. f \in BOOLEAN
    OBVIOUS
<1>6. LoopBegins = Both(g, m)
    BY Zenon DEF LoopBegins, Both, NewGetopt, NoOptions, MainIs
<1>7. Both(g, m) = Both(Scanner(1, 0, "", <<>>), Quiet({}, {}, "next"))
    BY Zenon DEF Quiet
<1> HIDE DEF a, b, c, e, n, f, r
<1>8. g \in Scanners(argv)
    BY <1>1, <1>2, <1>3, ScannerIn
<1>9. m \in Mains(argv)
    BY <1>2, <1>4, <1>5, MainIn
<1> HIDE DEF g, m
<1>10. Both(g, m) \in LoopStates(argv)
    BY <1>8, <1>9, BothIn
<1> QED BY <1>6, <1>7, <1>10, Zenon

LEMMA LoopDefined ==
    ASSUME NEW argv, Turns(argv) \in Nat
    PROVE  /\ LoopUpto(argv)[0] = LoopBegins
           /\ \A i \in 1..Turns(argv) : LoopUpto(argv)[i] = Looped(argv, LoopUpto(argv)[i - 1])
<1> DEFINE m == Turns(argv)
           z == LoopBegins
           S == LoopStates(argv)
           step == [i \in 1..m |-> [s \in S |-> Looped(argv, s)]]
           Solves(F) == F = [i \in 0..m |-> IF i = 0 THEN z ELSE Looped(argv, F[i - 1])]
<1>0. m \in Nat
    OBVIOUS
<1>1. z \in S /\ \A s \in S : Looped(argv, s) \in S
    BY LoopBegun, LoopedIn
<1> HIDE DEF m, z, S
<1>2. step \in [1..m -> [S -> S]]
    BY <1>1
<1>3. PICK f \in [0..m -> S] : f[0] = z /\ \A i \in 1..m : f[i] = step[i][f[i - 1]]
    <2>1. z \in S /\ m \in Nat
        BY <1>0, <1>1
    <2> HIDE DEF step
    <2>2. \E f \in [0..m -> S] : f[0] = z /\ \A i \in 1..m : f[i] = step[i][f[i - 1]]
        BY ONLY <1>2, <2>1, PrimitiveRecursion
    <2> QED BY <2>2, Zenon
<1>4. Solves(f)
    <2>1. ASSUME NEW i \in 0..m
          PROVE  f[i] = IF i = 0 THEN z ELSE Looped(argv, f[i - 1])
        <3>1. CASE i = 0
            BY <1>3, <3>1
        <3>2. CASE i # 0
            <4>1. i \in 1..m /\ f[i - 1] \in S
                BY <1>0, <3>2
            <4>2. f[i] = step[i][f[i - 1]]
                BY <1>3, <4>1
            <4>3. step[i][f[i - 1]] = Looped(argv, f[i - 1])
                <5> DEFINE y == f[i - 1]
                <5>1. y \in S
                    BY <4>1
                <5> HIDE DEF y
                <5>2. step[i][y] = Looped(argv, y)
                    BY <4>1, <5>1
                <5> QED BY <5>2 DEF y
            <4> QED BY <3>2, <4>2, <4>3
        <3> QED BY <3>1, <3>2
    <2>2. f = [i \in 0..m |-> f[i]]
        OBVIOUS
    <2> HIDE DEF step
    <2> QED BY <2>1, <2>2
<1> HIDE DEF step
<1> DEFINE T == LoopUpto(argv)
<1>5. Solves(T)
    <2>1. T = CHOOSE F : Solves(F)
        BY Zenon DEF LoopUpto, m, z
    <2> HIDE DEF Solves
    <2> QED BY <1>4, <2>1
<1> HIDE DEF T
<1>7. \A i \in 0..m : T[i] = IF i = 0 THEN z ELSE Looped(argv, T[i - 1])
    BY <1>5
<1> HIDE DEF Solves
<1>8. T[0] = z /\ \A i \in 1..m : T[i] = Looped(argv, T[i - 1])
    BY <1>0, <1>7
<1> QED BY <1>8 DEF T, m, z

\* What the first options mean.
MeantBy(opts, c, i) == {j \in 1..i : opts[j].letter = c}
LastMeant(opts, c, i) == {opts[j].arg : j \in {j \in MeantBy(opts, c, i) : \A k \in MeantBy(opts, c, i) : k <= j}}
MainAt(opts, i) ==
    IF MeantBy(opts, "d", i) = {} THEN Quiet(LastMeant(opts, "c", i), LastMeant(opts, "i", i), "next")
    ELSE Daemon(LastMeant(opts, "c", i), LastMeant(opts, "i", i), "next")
KnownUpto(opts, i) == \A j \in 1..i : opts[j].letter \in {"c", "i", "d"}

LEMMA MeantSame ==
    ASSUME NEW opts, NEW c, NEW i \in Nat \ {0}, opts[i].letter # c
    PROVE  MeantBy(opts, c, i) = MeantBy(opts, c, i - 1) /\ LastMeant(opts, c, i) = LastMeant(opts, c, i - 1)
<1>1. MeantBy(opts, c, i) = MeantBy(opts, c, i - 1)
    <2>1. \A j \in 1..i : j # i => j \in 1..(i - 1)
        OBVIOUS
    <2>2. \A j \in 1..(i - 1) : j \in 1..i
        OBVIOUS
    <2> QED BY <2>1, <2>2 DEF MeantBy
<1> QED BY <1>1, Zenon DEF LastMeant

LEMMA MeantNow ==
    ASSUME NEW opts, NEW c, NEW i \in Nat \ {0}, opts[i].letter = c
    PROVE  MeantBy(opts, c, i) # {} /\ LastMeant(opts, c, i) = {opts[i].arg}
<1> DEFINE J == MeantBy(opts, c, i)
<1>1. i \in J /\ \A k \in J : k \in Nat /\ k <= i
    BY DEF MeantBy
<1>2. {j \in J : \A k \in J : k <= j} = {i}
    <2> HIDE DEF J
    <2>1. ASSUME NEW j \in J, \A k \in J : k <= j
          PROVE  j = i
        BY <1>1, <2>1
    <2> QED BY <1>1, <2>1
<1>3. LastMeant(opts, c, i) = {opts[j].arg : j \in {i}}
    BY <1>2, Zenon DEF LastMeant
<1>4. {opts[j].arg : j \in {i}} = {opts[i].arg}
    OBVIOUS
<1> QED BY <1>1, <1>3, <1>4

LEMMA NothingMeant ==
    ASSUME NEW opts, NEW c
    PROVE  MeantBy(opts, c, 0) = {} /\ LastMeant(opts, c, 0) = {}
<1>1. MeantBy(opts, c, 0) = {}
    BY DEF MeantBy
<1> QED BY <1>1 DEF LastMeant

\* One option more, whether main() is to be a daemon already or not.
TurnMeans(m, h, o, c, i, d) ==
    /\ o.letter = "c" => Turn(m, h) = MainIs({o.arg}, i, d, "next")
    /\ o.letter = "i" => Turn(m, h) = MainIs(c, {o.arg}, d, "next")
    /\ o.letter = "d" => Turn(m, h) = Daemon(c, i, "next")

LEMMA TurnMeant ==
    ASSUME NEW c, NEW i, NEW d, NEW h, NEW o, NEW q, Seen(h, o, q), o.letter \in {"c", "i", "d"}
    PROVE  TurnMeans(MainIs(c, i, d, "next"), h, o, c, i, d)
<1> DEFINE m == MainIs(c, i, d, "next")
<1>1. h.ret = o.letter /\ (o.letter \in {"c", "i"} => h.optarg = o.arg)
    BY DEF Seen, Letters, NeedsArgument
<1>2. ASSUME o.letter = "c"
      PROVE  Turn(m, h) = MainIs({o.arg}, i, d, "next")
    <2>1. h.ret = "c" /\ h.optarg = o.arg
        BY <1>1, <1>2
    <2>2. Turn(m, h) = MainIs({h.optarg}, i, d, "next")
        BY ONLY <2>1, TurnConfig
    <2> QED BY <2>1, <2>2, Zenon
<1>3. ASSUME o.letter = "i"
      PROVE  Turn(m, h) = MainIs(c, {o.arg}, d, "next")
    <2>1. h.ret = "i" /\ h.optarg = o.arg
        BY <1>1, <1>3
    <2>2. Turn(m, h) = MainIs(c, {h.optarg}, d, "next")
        BY ONLY <2>1, TurnInterface
    <2> QED BY <2>1, <2>2, Zenon
<1>4. ASSUME o.letter = "d"
      PROVE  Turn(m, h) = Daemon(c, i, "next")
    <2>1. h.ret = "d"
        BY <1>1, <1>4
    <2> QED BY ONLY <2>1, TurnDaemon
<1> QED BY <1>2, <1>3, <1>4, Zenon DEF TurnMeans

LEMMA MainMeant ==
    ASSUME NEW opts, NEW i \in Nat \ {0}, opts[i].letter \in {"c", "i", "d"}, NEW h, NEW q, Seen(h, opts[i], q)
    PROVE  Turn(MainAt(opts, i - 1), h) = MainAt(opts, i)
<1> DEFINE o == opts[i]
           c == LastMeant(opts, "c", i - 1)
           f == LastMeant(opts, "i", i - 1)
           J(k) == MeantBy(opts, "d", k)
           d == IF J(i - 1) = {} THEN FALSE ELSE TRUE
<1>1. MainAt(opts, i - 1) = MainIs(c, f, d, "next")
    <2>1. CASE J(i - 1) = {}
        <3>1. d = FALSE
            BY <2>1
        <3> QED BY <2>1, <3>1, Zenon DEF MainAt, Quiet
    <2>2. CASE J(i - 1) # {}
        <3>1. d = TRUE
            BY <2>2
        <3> QED BY <2>2, <3>1, Zenon DEF MainAt, Daemon
    <2> QED BY <2>1, <2>2
<1>2. TurnMeans(MainAt(opts, i - 1), h, o, c, f, d)
    <2> HIDE DEF d, c, f
    <2>1. TurnMeans(MainIs(c, f, d, "next"), h, o, c, f, d)
        BY TurnMeant
    <2> QED BY <1>1, <2>1, Zenon
<1>3. CASE o.letter = "d"
    <2>1. o.letter # "c" /\ o.letter # "i"
        BY <1>3
    <2>2. LastMeant(opts, "c", i) = c /\ LastMeant(opts, "i", i) = f
        BY <2>1, MeantSame
    <2>3. J(i) # {}
        BY <1>3, MeantNow
    <2>4. Turn(MainAt(opts, i - 1), h) = Daemon(c, f, "next")
        BY <1>2, <1>3, Zenon DEF TurnMeans
    <2> QED BY <2>2, <2>3, <2>4, Zenon DEF MainAt
<1>4. CASE o.letter = "c"
    <2>1. o.letter # "d" /\ o.letter # "i"
        BY <1>4
    <2>2. LastMeant(opts, "c", i) = {o.arg}
        BY <1>4, MeantNow
    <2>3. LastMeant(opts, "i", i) = f /\ J(i) = J(i - 1)
        BY <2>1, MeantSame
    <2>4. Turn(MainAt(opts, i - 1), h) = MainIs({o.arg}, f, d, "next")
        BY <1>2, <1>4, Zenon DEF TurnMeans
    <2>5. MainAt(opts, i) = MainIs({o.arg}, f, d, "next")
        <3>1. CASE J(i - 1) = {}
            <4>1. d = FALSE
                BY <3>1
            <4> QED BY <2>2, <2>3, <3>1, <4>1, Zenon DEF MainAt, Quiet
        <3>2. CASE J(i - 1) # {}
            <4>1. d = TRUE
                BY <3>2
            <4> QED BY <2>2, <2>3, <3>2, <4>1, Zenon DEF MainAt, Daemon
        <3> QED BY <3>1, <3>2
    <2> HIDE DEF d, c, f
    <2> QED BY ONLY <2>4, <2>5, Zenon
<1>5. CASE o.letter = "i"
    <2>1. o.letter # "d" /\ o.letter # "c"
        BY <1>5
    <2>2. LastMeant(opts, "i", i) = {o.arg}
        BY <1>5, MeantNow
    <2>3. LastMeant(opts, "c", i) = c /\ J(i) = J(i - 1)
        BY <2>1, MeantSame
    <2>4. Turn(MainAt(opts, i - 1), h) = MainIs(c, {o.arg}, d, "next")
        BY <1>2, <1>5, Zenon DEF TurnMeans
    <2>5. MainAt(opts, i) = MainIs(c, {o.arg}, d, "next")
        <3>1. CASE J(i - 1) = {}
            <4>1. d = FALSE
                BY <3>1
            <4> QED BY <2>2, <2>3, <3>1, <4>1, Zenon DEF MainAt, Quiet
        <3>2. CASE J(i - 1) # {}
            <4>1. d = TRUE
                BY <3>2
            <4> QED BY <2>2, <2>3, <3>2, <4>1, Zenon DEF MainAt, Daemon
        <3> QED BY <3>1, <3>2
    <2> HIDE DEF d, c, f
    <2> QED BY ONLY <2>4, <2>5, Zenon
<1> QED BY <1>3, <1>4, <1>5

\* And what main() makes of the state before when next returns something else.
RunsWith(m, opts, i, r) ==
    /\ m.run = r /\ m.config = LastMeant(opts, "c", i) /\ m.interface = LastMeant(opts, "i", i)
    /\ m.daemonise <=> MeantBy(opts, "d", i) # {}

LEMMA MainAtHas ==
    ASSUME NEW opts, NEW i
    PROVE  RunsWith(MainAt(opts, i), opts, i, "next")
<1> DEFINE c == LastMeant(opts, "c", i)
           f == LastMeant(opts, "i", i)
           r == "next"
           m == MainAt(opts, i)
           J == MeantBy(opts, "d", i)
<1> HIDE DEF c, f, r, J
<1>1. CASE J = {}
    <2>1. m = Quiet(c, f, r)
        BY <1>1, Zenon DEF MainAt, c, f, r, J
    <2>2. m.run = r /\ m.config = c /\ m.interface = f
        <3> DEFINE d == FALSE
        <3>1. m = MainIs(c, f, d, r)
            BY <2>1, Zenon DEF Quiet
        <3> HIDE DEF d, m
        <3> QED BY <3>1, MainFields
    <2>3. ~m.daemonise
        BY <2>1, DaemonFields, Zenon
    <2> QED BY <1>1, <2>2, <2>3, Zenon DEF RunsWith, c, f, r, J
<1>2. CASE J # {}
    <2>1. m = Daemon(c, f, r)
        BY <1>2, Zenon DEF MainAt, c, f, r, J
    <2>2. m.run = r /\ m.config = c /\ m.interface = f
        <3> DEFINE d == TRUE
        <3>1. m = MainIs(c, f, d, r)
            BY <2>1, Zenon DEF Daemon
        <3> HIDE DEF d, m
        <3> QED BY <3>1, MainFields
    <2>3. m.daemonise
        BY <2>1, DaemonFields, Zenon
    <2> QED BY <1>2, <2>2, <2>3, Zenon DEF RunsWith, c, f, r, J
<1> QED BY <1>1, <1>2

LEMMA MainEnds ==
    ASSUME NEW opts, NEW i, NEW h, h.ret = "EOF"
    PROVE  RunsWith(Turn(MainAt(opts, i), h), opts, i, HowToRun(LastMeant(opts, "c", i), LastMeant(opts, "i", i)))
<1> DEFINE c == LastMeant(opts, "c", i)
           f == LastMeant(opts, "i", i)
           r == HowToRun(c, f)
           m == Turn(MainAt(opts, i), h)
           J == MeantBy(opts, "d", i)
           k == "next"
<1>1. CASE J = {}
    <2> DEFINE d == FALSE
    <2>1. MainAt(opts, i) = MainIs(c, f, d, k)
        BY <1>1, Zenon DEF MainAt, Quiet
    <2>2. Quiet(c, f, r) = MainIs(c, f, d, r)
        BY Zenon DEF Quiet
    <2> HIDE DEF c, f, d
    <2>3. Turn(MainIs(c, f, d, "next"), h) = MainIs(c, f, d, r)
        BY TurnEnds
    <2>4. m = MainIs(c, f, d, r)
        BY <2>1, <2>3, Zenon
    <2> HIDE DEF r, m
    <2>5. m.run = r /\ m.config = c /\ m.interface = f
        BY <2>4, MainFields
    <2>6. ~m.daemonise
        BY <2>2, <2>4, DaemonFields, Zenon
    <2> QED BY <1>1, <2>5, <2>6, Zenon DEF RunsWith, c, f, r, m
<1>2. CASE J # {}
    <2> DEFINE d == TRUE
    <2>1. MainAt(opts, i) = MainIs(c, f, d, k)
        BY <1>2, Zenon DEF MainAt, Daemon
    <2>2. Daemon(c, f, r) = MainIs(c, f, d, r)
        BY Zenon DEF Daemon
    <2> HIDE DEF c, f, d
    <2>3. Turn(MainIs(c, f, d, "next"), h) = MainIs(c, f, d, r)
        BY TurnEnds
    <2>4. m = MainIs(c, f, d, r)
        BY <2>1, <2>3, Zenon
    <2> HIDE DEF r, m
    <2>5. m.run = r /\ m.config = c /\ m.interface = f
        BY <2>4, MainFields
    <2>6. m.daemonise
        BY <2>2, <2>4, DaemonFields, Zenon
    <2> QED BY <1>2, <2>5, <2>6, Zenon DEF RunsWith, c, f, r, m
<1> QED BY <1>1, <1>2

LEMMA MainUsage ==
    ASSUME NEW opts, NEW i, NEW h, NEW o, NEW q, Seen(h, o, q), o.letter \notin {"c", "i", "d"}
    PROVE  Turn(MainAt(opts, i), h).run = "usage"
<1> DEFINE c == LastMeant(opts, "c", i)
           f == LastMeant(opts, "i", i)
           J == MeantBy(opts, "d", i)
<1>1. h.ret \notin {"EOF", "c", "i", "d"}
    <2>1. CASE o.letter \in Letters
        BY <2>1 DEF Seen, Letters
    <2>2. CASE o.letter \notin Letters
        BY <2>2 DEF Seen
    <2> QED BY <2>1, <2>2
<1>2. PICK d : MainAt(opts, i) = MainIs(c, f, d, "next")
    BY Zenon DEF MainAt, Quiet, Daemon
<1> HIDE DEF c, f
<1>3. Turn(MainIs(c, f, d, "next"), h) = MainIs(c, f, d, "usage")
    BY <1>1, TurnUsage
<1>4. MainIs(c, f, d, "usage").run = "usage"
    BY MainFields
<1> QED BY <1>2, <1>3, <1>4, Zenon

\* The scanner is where the next option begins, and main() has what was meant so far.
OptionsUpto(s, p, opts, i) == s.g.optind = p.optind /\ s.g.place = p.place /\ s.m = MainAt(opts, i)

LEMMA ReadMore ==
    ASSUME NEW C, NEW argv \in Seq(Seq(C)), NEW opts, NEW i \in Nat \ {0},
           NEW p \in Places(argv), NEW q, Spells(argv, p, opts[i], q), NEW s, OptionsUpto(s, p, opts, i - 1)
    PROVE  /\ opts[i].letter \in {"c", "i", "d"} => OptionsUpto(Looped(argv, s), q, opts, i)
           /\ opts[i].letter \notin {"c", "i", "d"} => Looped(argv, s).m.run = "usage"
<1> DEFINE g == s.g
           h == next(argv, g)
           o == opts[i]
           m == Turn(s.m, h)
<1>1. g.optind = p.optind /\ g.place = p.place /\ s.m = MainAt(opts, i - 1)
    BY Zenon DEF OptionsUpto
<1>2. s.m.run = "next"
    BY <1>1, MainAtHas, Zenon DEF RunsWith
<1>3. Looped(argv, s) = Both(h, m)
    BY <1>2, LoopedIs, Zenon
<1>4. Seen(h, o, q)
    BY <1>1, NextSees
<1>5. Both(h, m).g = h /\ Both(h, m).m = m
    <2> HIDE DEF h, m
    <2> QED BY BothFields
<1> HIDE DEF g, h, m, o
<1>6. ASSUME o.letter \in {"c", "i", "d"}
      PROVE  OptionsUpto(Looped(argv, s), q, opts, i)
    <2>1. h.optind = q.optind /\ h.place = q.place
        BY <1>4, <1>6 DEF Seen, Letters
    <2>2. Turn(MainAt(opts, i - 1), h) = MainAt(opts, i)
        BY <1>4, <1>6, MainMeant DEF o
    <2>3. m = MainAt(opts, i)
        BY <1>1, <2>2, Zenon DEF m
    <2> QED BY <1>3, <1>5, <2>1, <2>3, Zenon DEF OptionsUpto
<1>7. ASSUME o.letter \notin {"c", "i", "d"}
      PROVE  Looped(argv, s).m.run = "usage"
    <2>1. Turn(MainAt(opts, i - 1), h).run = "usage"
        BY <1>4, <1>7, MainUsage
    <2> QED BY <1>1, <1>3, <1>5, <2>1, Zenon DEF m
<1> QED BY <1>6, <1>7 DEF o

\* A command line on which options are spelled, at the places at.
SpelledFrom(argv, opts, at) ==
    /\ at \in [1..(Len(opts) + 1) -> Places(argv)] /\ at[1] = Place(1, 0)
    /\ \A i \in 1..Len(opts) : Spells(argv, at[i], opts[i], at[i + 1])
    /\ Ends(argv, at[Len(opts) + 1])

LEMMA TurnsEnough ==
    ASSUME NEW C, NEW argv \in Seq(Seq(C)), NEW opts, Len(opts) \in Nat, NEW at, SpelledFrom(argv, opts, at)
    PROVE  Turns(argv) \in Nat /\ Len(opts) < Turns(argv)
<1> DEFINE k == Len(opts)
           G == {i \in 0..k : Cursor(argv, at[i + 1]) \in Nat /\ Cursor(argv, at[i + 1]) >= i}
           e == CharsUpto(argv)[Len(argv)]
<1>1. k \in Nat /\ \A i \in 1..(k + 1) : at[i] \in Places(argv)
    BY DEF SpelledFrom
<1>2. e \in Nat
    BY CharsAre, LenProperties
<1>3. 0 \in G
    <2>1. at[1] = Place(1, 0) /\ CharsUpto(argv)[0] = 0
        BY CharsAre DEF SpelledFrom
    <2>2. at[1].optind = 1 /\ at[1].place = 0
        BY <2>1, PlaceIs
    <2>3. Cursor(argv, at[1]) = 0
        BY <2>1, <2>2 DEF Cursor
    <2> QED BY <1>1, <2>3
<1>4. ASSUME NEW i \in 1..k, i - 1 \in G
      PROVE  i \in G
    <2>1. (i - 1) + 1 = i /\ i \in 1..(k + 1) /\ i + 1 \in 1..(k + 1)
        BY <1>1
    <2>2. Cursor(argv, at[i]) \in Nat /\ Cursor(argv, at[i]) >= i - 1
        BY <1>4, <2>1
    <2>3. Cursor(argv, at[i + 1]) \in Nat /\ Cursor(argv, at[i + 1]) > Cursor(argv, at[i])
        BY <1>1, <2>1, CursorMoves DEF SpelledFrom
    <2> DEFINE x == Cursor(argv, at[i])
               y == Cursor(argv, at[i + 1])
    <2> HIDE DEF x, y
    <2>4. x \in Nat /\ x >= i - 1 /\ y \in Nat /\ y > x
        BY <2>2, <2>3 DEF x, y
    <2>5. y >= i
        BY <2>4
    <2> QED BY <1>1, <2>4, <2>5 DEF y
<1>5. 0..k \subseteq G
    <2> HIDE DEF G, k
    <2> QED BY <1>1, <1>3, <1>4, BoundedInduction
<1>6. Cursor(argv, at[k + 1]) >= k /\ Cursor(argv, at[k + 1]) \in Nat
    BY <1>1, <1>5
<1>7. Cursor(argv, at[k + 1]) <= e
    <2>1. k + 1 \in 1..(k + 1)
        BY <1>1
    <2>2. at[k + 1] \in Places(argv) /\ at[k + 1].place = 0
        BY <1>1, <2>1 DEF SpelledFrom, Ends
    <2> QED BY <2>2, CursorEnds
<1> DEFINE z == Cursor(argv, at[k + 1])
<1>8. Turns(argv) = e + 1
    BY DEF Turns
<1> HIDE DEF e, k, z
<1>9. z >= k /\ z \in Nat /\ z <= e
    BY <1>6, <1>7 DEF z
<1> QED BY <1>1, <1>2, <1>8, <1>9 DEF k

LEMMA ReadAll ==
    ASSUME NEW C, NEW argv \in Seq(Seq(C)), NEW opts, Len(opts) \in Nat, NEW at, SpelledFrom(argv, opts, at)
    PROVE  \A i \in 0..Len(opts) : KnownUpto(opts, i) => OptionsUpto(LoopUpto(argv)[i], at[i + 1], opts, i)
<1> DEFINE k == Len(opts)
           F == LoopUpto(argv)
           G == {i \in 0..k : KnownUpto(opts, i) => OptionsUpto(F[i], at[i + 1], opts, i)}
<1>1. Turns(argv) \in Nat /\ k < Turns(argv) /\ k \in Nat
    BY TurnsEnough
<1>2. F[0] = LoopBegins /\ \A i \in 1..Turns(argv) : F[i] = Looped(argv, F[i - 1])
    BY <1>1, LoopDefined
<1>3. \A i \in 1..(k + 1) : at[i] \in Places(argv)
    BY DEF SpelledFrom
<1> HIDE DEF F
<1>4. 0 \in G
    <2> DEFINE g == Scanner(1, 0, "", <<>>)
               m == Quiet({}, {}, "next")
    <2>1. F[0] = Both(g, m)
        BY <1>2, LoopBegun, Zenon
    <2>2. Both(g, m).g = g /\ Both(g, m).m = m
        <3> HIDE DEF g, m
        <3> QED BY BothFields
    <2>3. g.optind = 1 /\ g.place = 0
        BY DEF Scanner
    <2>4. at[1].optind = 1 /\ at[1].place = 0
        BY PlaceIs DEF SpelledFrom
    <2>5. MainAt(opts, 0) = m
        <3>1. MeantBy(opts, "d", 0) = {} /\ LastMeant(opts, "c", 0) = {} /\ LastMeant(opts, "i", 0) = {}
            BY NothingMeant
        <3> QED BY <3>1, Zenon DEF MainAt
    <2> HIDE DEF g, m
    <2>6. OptionsUpto(F[0], at[1], opts, 0)
        BY <2>1, <2>2, <2>3, <2>4, <2>5, Zenon DEF OptionsUpto
    <2> QED BY <1>1, <2>6
<1>5. ASSUME NEW i \in 1..k, i - 1 \in G
      PROVE  i \in G
    <2> SUFFICES ASSUME KnownUpto(opts, i)
                 PROVE  OptionsUpto(F[i], at[i + 1], opts, i)
        OBVIOUS
    <2>1. (i - 1) + 1 = i /\ i \in 1..(k + 1) /\ i + 1 \in 1..(k + 1) /\ i \in 1..Turns(argv) /\ i \in Nat \ {0}
        BY <1>1
    <2>2. KnownUpto(opts, i - 1) /\ opts[i].letter \in {"c", "i", "d"}
        BY <2>1 DEF KnownUpto
    <2>3. OptionsUpto(F[i - 1], at[i], opts, i - 1)
        BY <1>5, <2>1, <2>2
    <2>4. Spells(argv, at[i], opts[i], at[i + 1]) /\ at[i] \in Places(argv)
        BY <1>3, <2>1 DEF SpelledFrom
    <2> DEFINE s == F[i - 1]
               p == at[i]
               q == at[i + 1]
    <2>5. F[i] = Looped(argv, s)
        BY <1>2, <2>1
    <2> HIDE DEF s, p, q
    <2>6. OptionsUpto(Looped(argv, s), q, opts, i)
        BY <2>1, <2>2, <2>3, <2>4, ReadMore DEF s, p, q
    <2> QED BY <2>5, <2>6, Zenon DEF q
<1>6. 0..k \subseteq G
    <2> HIDE DEF G, k
    <2> QED BY <1>1, <1>4, <1>5, BoundedInduction
<1> QED BY <1>6 DEF F

\* When main() is done with the options it stays so.
LEMMA LoopStays ==
    ASSUME NEW argv, Turns(argv) \in Nat, NEW i \in 0..Turns(argv), LoopUpto(argv)[i].m.run # "next"
    PROVE  main_options(argv) = LoopUpto(argv)[i].m
<1> DEFINE N == Turns(argv)
           F == LoopUpto(argv)
           n == N - i
           G == {j \in 0..n : F[i + j] = F[i]}
<1>1. \A j \in 1..N : F[j] = Looped(argv, F[j - 1])
    BY LoopDefined
<1>2. N \in Nat /\ i \in Nat /\ n \in Nat /\ i + n = N
    OBVIOUS
<1>3. F[i].m.run # "next"
    OBVIOUS
<1>4. main_options(argv) = F[N].m
    BY OptionsAre
<1> HIDE DEF N, F, n
<1>5. 0 \in G
    BY <1>2
<1>6. ASSUME NEW j \in 1..n, j - 1 \in G
      PROVE  j \in G
    <2>1. i + j \in 1..N /\ (i + j) - 1 = i + (j - 1)
        BY <1>2
    <2>2. F[i + j] = Looped(argv, F[i + (j - 1)])
        BY <1>1, <2>1
    <2>3. F[i + (j - 1)] = F[i]
        BY <1>6
    <2>4. F[i + j] = F[i]
        BY <1>3, <2>2, <2>3, LoopedIs, Zenon
    <2> QED BY <1>2, <2>4
<1>7. 0..n \subseteq G
    <2> HIDE DEF G
    <2> QED BY <1>2, <1>5, <1>6, BoundedInduction
<1>8. F[i + n] = F[i]
    BY <1>2, <1>7
<1> QED BY <1>2, <1>4, <1>8 DEF F

\* The options of a command line, given that the words are spelled with them.
OptionsMeant(argv, opts) ==
    IF KnownUpto(opts, Len(opts))
    THEN RunsWith(main_options(argv), opts, Len(opts),
                  HowToRun(LastMeant(opts, "c", Len(opts)), LastMeant(opts, "i", Len(opts))))
    ELSE main_options(argv).run = "usage"

LEMMA OptionsFound ==
    ASSUME NEW C, NEW argv \in Seq(Seq(C)), NEW opts, Len(opts) \in Nat, NEW at, SpelledFrom(argv, opts, at)
    PROVE  OptionsMeant(argv, opts)
<1> DEFINE k == Len(opts)
           F == LoopUpto(argv)
<1>1. Turns(argv) \in Nat /\ k < Turns(argv) /\ k \in Nat
    BY TurnsEnough
<1>2. \A i \in 1..Turns(argv) : F[i] = Looped(argv, F[i - 1])
    BY <1>1, LoopDefined
<1>3. \A i \in 0..k : KnownUpto(opts, i) => OptionsUpto(F[i], at[i + 1], opts, i)
    BY ReadAll
<1>4. \A i \in 1..(k + 1) : at[i] \in Places(argv)
    BY DEF SpelledFrom
<1>5. CASE KnownUpto(opts, k)
    <2> DEFINE p == at[k + 1]
               s == F[k]
               h == next(argv, s.g)
               r == HowToRun(LastMeant(opts, "c", k), LastMeant(opts, "i", k))
               m == Turn(s.m, h)
    <2>1. k \in 0..k /\ k + 1 \in 1..(k + 1) /\ k + 1 \in 1..Turns(argv) /\ (k + 1) - 1 = k /\ k + 1 \in 0..Turns(argv)
        BY <1>1
    <2>2. OptionsUpto(s, p, opts, k)
        BY <1>3, <1>5, <2>1
    <2>3. p \in Places(argv) /\ Ends(argv, p)
        BY <1>4, <2>1 DEF SpelledFrom
    <2> HIDE DEF p
    <2>4. h.ret = "EOF"
        BY <2>2, <2>3, NextEnds DEF OptionsUpto
    <2>5. s.m = MainAt(opts, k) /\ s.m.run = "next"
        BY <2>2, MainAtHas, Zenon DEF OptionsUpto, RunsWith
    <2>6. F[k + 1] = Looped(argv, s)
        BY <1>2, <2>1
    <2> HIDE DEF s
    <2>7. Looped(argv, s) = Both(h, m)
        BY <2>5, LoopedIs, Zenon
    <2> HIDE DEF h, k
    <2>8. RunsWith(Turn(MainAt(opts, k), h), opts, k, r)
        BY <2>4, MainEnds
    <2>9. RunsWith(m, opts, k, r)
        BY <2>5, <2>8, Zenon
    <2> HIDE DEF m, F
    <2>10. F[k + 1].m = m
        <3>1. Both(h, m).m = m
            BY BothFields
        <3> QED BY <2>6, <2>7, <3>1, Zenon
    <2>11. m.run # "next"
        <3>1. m.run = r
            BY <2>9, Zenon DEF RunsWith
        <3> QED BY <3>1 DEF HowToRun
    <2>12. main_options(argv) = m
        <3> DEFINE j == k + 1
        <3>1. j \in 0..Turns(argv) /\ F[j].m = m /\ F[j].m.run # "next"
            BY <2>1, <2>10, <2>11
        <3> HIDE DEF j
        <3> QED BY <1>1, <3>1, LoopStays DEF F
    <2> QED BY <1>5, <2>9, <2>12, Zenon DEF OptionsMeant, k
<1>6. CASE ~KnownUpto(opts, k)
    <2> DEFINE B == {j \in 1..k : opts[j].letter \notin {"c", "i", "d"}}
    <2>1. B \subseteq Nat /\ B # {}
        BY <1>1, <1>6 DEF KnownUpto
    <2>2. PICK b \in B : \A j \in B : b <= j
        <3> HIDE DEF B
        <3> QED BY <2>1, LeastNatural
    <2>3. b \in 1..k /\ opts[b].letter \notin {"c", "i", "d"}
        BY <2>2
    <2>4. KnownUpto(opts, b - 1)
        <3>1. ASSUME NEW j \in 1..(b - 1)
              PROVE  opts[j].letter \in {"c", "i", "d"}
            <4>1. j \in 1..k /\ ~(b <= j)
                BY <1>1, <2>3
            <4> QED BY <2>2, <4>1
        <3> QED BY <3>1 DEF KnownUpto
    <2>5. /\ b \in 1..(k + 1) /\ b - 1 \in 0..k /\ (b - 1) + 1 = b /\ b \in Nat \ {0}
          /\ b \in 1..Turns(argv) /\ b \in 0..Turns(argv)
        BY <1>1, <2>3
    <2> DEFINE s == F[b - 1]
               p == at[b]
               q == at[b + 1]
    <2>6. OptionsUpto(s, p, opts, b - 1)
        BY <1>3, <2>4, <2>5
    <2>7. Spells(argv, p, opts[b], q) /\ p \in Places(argv)
        BY <1>4, <2>3, <2>5 DEF SpelledFrom
    <2>8. F[b] = Looped(argv, s)
        BY <1>2, <2>5
    <2> HIDE DEF s, p, q
    <2>9. Looped(argv, s).m.run = "usage"
        BY <2>3, <2>5, <2>6, <2>7, ReadMore
    <2>10. F[b].m.run = "usage" /\ F[b].m.run # "next"
        BY <2>8, <2>9
    <2>11. main_options(argv) = F[b].m
        BY <1>1, <2>5, <2>10, LoopStays
    <2> QED BY <1>6, <2>10, <2>11, Zenon DEF OptionsMeant
<1> QED BY <1>5, <1>6

\* A command line that was meant.
Commanded(x, C) ==
    /\ x.argv \in Seq(Seq(C)) /\ Len(x.opts) \in Nat /\ DOMAIN x.opts = 1..Len(x.opts)
    /\ \E at : SpelledFrom(x.argv, x.opts, at)

LEMMA OptionsRead ==
    ASSUME NEW C, CallTyped, \A x \in CommandArgs : Commanded(x, C)
    PROVE  OptionsAsMeant
<1> DEFINE Meant(x) ==
              IF \E i \in 1..Len(x.opts) : x.opts[i].letter \notin {"c", "i", "d"}
              THEN main_options(x.argv).run = "usage"
              ELSE /\ main_options(x.argv).config = LastMeant(x.opts, "c", Len(x.opts))
                   /\ main_options(x.argv).interface = LastMeant(x.opts, "i", Len(x.opts))
                   /\ main_options(x.argv).daemonise <=> MeantBy(x.opts, "d", Len(x.opts)) # {}
                   /\ main_options(x.argv).run =
                        IF {} \in {LastMeant(x.opts, "c", Len(x.opts)), LastMeant(x.opts, "i", Len(x.opts))}
                        THEN "exit" ELSE "start"
<1>1. ASSUME NEW x \in CommandArgs
      PROVE  Meant(x) /\ DOMAIN x.opts = 1..Len(x.opts)
    <2>1. Commanded(x, C)
        OBVIOUS
    <2>2. PICK at : SpelledFrom(x.argv, x.opts, at)
        BY <2>1, Zenon DEF Commanded
    <2> DEFINE a == x.argv
               o == x.opts
    <2>3. a \in Seq(Seq(C)) /\ Len(o) \in Nat /\ DOMAIN o = 1..Len(o) /\ SpelledFrom(a, o, at)
        BY <2>1, <2>2, Zenon DEF Commanded
    <2> HIDE DEF a, o
    <2>4. OptionsMeant(a, o)
        BY <2>3, OptionsFound
    <2> DEFINE c == LastMeant(o, "c", Len(o))
               f == LastMeant(o, "i", Len(o))
    <2>5. HowToRun(c, f) = IF {} \in {c, f} THEN "exit" ELSE "start"
        <3> HIDE DEF c, f
        <3>1. {} \in {c, f} <=> c = {} \/ f = {}
            OBVIOUS
        <3> QED BY <3>1, Zenon DEF HowToRun
    <2>6. KnownUpto(o, Len(o)) <=> ~\E i \in 1..Len(o) : o[i].letter \notin {"c", "i", "d"}
        BY Zenon DEF KnownUpto
    <2>7. Meant(x)
        BY <2>4, <2>5, <2>6, Zenon DEF OptionsMeant, RunsWith, a, o
    <2> QED BY <2>3, <2>7, Zenon DEF o
<1>2. Called("getopt") => arg \in CommandArgs
    BY DEF CallTyped, Called, arg
<1>3. DOMAIN arg.opts = 1..Len(arg.opts) => (OptionsAsMeant <=> (Called("getopt") => Meant(arg)))
    BY Zenon DEF OptionsAsMeant, LastMeant, MeantBy
<1>4. ASSUME ~Called("getopt")
      PROVE  OptionsAsMeant
    BY <1>4, Zenon DEF OptionsAsMeant
<1> HIDE DEF Meant
<1> QED BY <1>1, <1>2, <1>3, <1>4, Zenon

\* The daemon starts with the options of its command line, however many there are and
\* however they are put into words: dsGetopt finds each letter with its argument, main()
\* keeps the last of each, and one it does not know ends it with the usage.
THEOREM CommandLinesRead ==
    ASSUME NEW C, \A x \in CommandArgs : Commanded(x, C)
    PROVE  CodecsSpec => []OptionsAsMeant
<1>1. CallTyped => OptionsAsMeant
    BY OptionsRead
<1> QED BY <1>1, Arguments, PTL
=============================================================================
