--------------------------- MODULE DhcpWireProofs ---------------------------
(***************************************************************************)
(* Theorems about the message buffer, for every size of it and any frames   *)
(* and responses: a request is read as its sender meant it, and a response  *)
(* is sent as it was built, whatever the buffer held before.                *)
(***************************************************************************)
EXTENDS DhcpWire, Induction, SequenceTheorems

Byte == 0..ByteMax
OptionType == [code : Byte, value : Seq(Byte)]

----------------------------------------------------------------------------
(* The recursion of marshall.                                               *)

Offsets == BodyMax + ByteMax + 3

LEMMA OffsetsTyped == Offsets \in Nat /\ BodyMax \in Nat /\ ByteMax \in Nat /\ MaxOptions \in Nat
BY WireTyped DEF Offsets

\* What the options from offset o on are, with F for those behind it.
Entry(F, buf, n, o, idx) ==
    IF o > n \/ idx = MaxOptions THEN <<>>
    ELSE IF buf[o] = DHO_PAD THEN F[o + 1][idx]
    ELSE IF buf[o] = DHO_END THEN <<>>
    ELSE <<[code |-> buf[o], value |-> SubSeq(buf, o + 2, o + 1 + buf[o + 1])]>>
           \o F[o + 2 + buf[o + 1]][idx + 1]
Row(F, buf, n, o) == [idx \in 0..MaxOptions |-> Entry(F, buf, n, o, idx)]

\* A buffer of which n bytes are looked at, and the length of an option is in it.
Readable(buf, n) ==
    /\ buf \in Seq(Byte) /\ Len(buf) = BodyMax
    /\ n \in 0..BodyMax
    /\ n < BodyMax \/ buf[n] \in {DHO_PAD, DHO_END}

\* The entries from an offset on look only at what is behind it.
LEMMA EntryLooksBehind ==
    ASSUME NEW buf, NEW n, Readable(buf, n), NEW i \in 1..Offsets, NEW o \in i..Offsets,
           NEW F, NEW H, \A x \in (i + 1)..Offsets : F[x] = H[x]
    PROVE  Row(F, buf, n, o) = Row(H, buf, n, o)
<1> SUFFICES ASSUME NEW idx \in 0..MaxOptions
             PROVE  Entry(F, buf, n, o, idx) = Entry(H, buf, n, o, idx)
    BY DEF Row
<1>1. CASE o > n
    BY <1>1 DEF Entry
<1>2. CASE o <= n
    <2>1. o + 1 \in (i + 1)..Offsets /\ o \in 1..BodyMax /\ ByteMax \in Nat
        BY <1>2, OffsetsTyped DEF Readable, Offsets
    <2>2. buf[o] \in Byte
        BY <2>1 DEF Readable
    <2>3. CASE buf[o] \in {DHO_PAD, DHO_END}
        BY <2>1, <2>3 DEF Entry
    <2>4. CASE buf[o] \notin {DHO_PAD, DHO_END}
        <3>1. o + 1 \in 1..BodyMax
            BY <1>2, <2>1, <2>4 DEF Readable
        <3>2. buf[o + 1] \in Byte
            BY <3>1 DEF Readable
        <3>3. o + 2 + buf[o + 1] \in (i + 1)..Offsets
            BY <2>1, <3>1, <3>2, OffsetsTyped DEF Offsets, Byte
        <3> QED BY <2>1, <3>3 DEF Entry
    <2> QED BY <2>3, <2>4
<1> QED BY <1>1, <1>2, OffsetsTyped DEF Readable

\* The recursive definition has a solution, and OptionsFrom is one.
LEMMA OptionsDefined ==
    ASSUME NEW buf, NEW n, Readable(buf, n)
    PROVE  OptionsFrom(buf, n) = [o \in 1..Offsets |-> Row(OptionsFrom(buf, n), buf, n, o)]
<1> DEFINE Solves(F, k) == F = [o \in (k + 1)..Offsets |-> Row(F, buf, n, o)]
           G == {k \in 0..Offsets : \E F : Solves(F, k)}
<1>0. Offsets \in Nat
    BY OffsetsTyped
<1>1. Offsets \in G
    <2> DEFINE E == [o \in (Offsets + 1)..Offsets |-> <<>>]
    <2>1. (Offsets + 1)..Offsets = {}
        BY <1>0
    <2>2. Solves(E, Offsets)
        BY <2>1
    <2> HIDE DEF Solves, E
    <2> QED BY <1>0, <2>2
<1>2. ASSUME NEW i \in 1..Offsets, i \in G
      PROVE  i - 1 \in G
    <2>1. PICK F : Solves(F, i)
        BY <1>2
    <2> DEFINE H == [o \in i..Offsets |-> IF o = i THEN Row(F, buf, n, i) ELSE F[o]]
    <2>2. \A x \in (i + 1)..Offsets : F[x] = H[x]
        BY <1>0
    <2>3. ASSUME NEW o \in i..Offsets
          PROVE  H[o] = Row(H, buf, n, o)
        <3>1. Row(F, buf, n, o) = Row(H, buf, n, o)
            <4> HIDE DEF H, Solves
            <4> QED BY <2>2, EntryLooksBehind
        <3>2. CASE o = i
            BY <3>1, <3>2
        <3>3. CASE o # i
            <4>1. o \in (i + 1)..Offsets
                BY <1>0, <3>3
            <4>2. F[o] = Row(F, buf, n, o)
                BY <4>1, <2>1, Zenon
            <4> QED BY <3>1, <3>3, <4>2
        <3> QED BY <3>2, <3>3
    <2>4. Solves(H, i - 1)
        <3>1. (i - 1) + 1 = i
            BY <1>0
        <3>2. H = [o \in i..Offsets |-> H[o]]
            BY Zenon
        <3> HIDE DEF H
        <3> QED BY <3>1, <3>2, <2>3
    <2>5. i - 1 \in 0..Offsets
        BY <1>0
    <2> HIDE DEF Solves, H
    <2> QED BY <2>4, <2>5
<1>3. 0 \in G
    <2> HIDE DEF G
    <2>1. 0..Offsets \subseteq G
        BY <1>0, <1>1, <1>2, DownwardInduction
    <2> QED BY <1>0, <2>1
<1>4. \E F : F = [o \in 1..Offsets |-> Row(F, buf, n, o)]
    BY <1>3
<1> HIDE DEF G, Solves
<1> QED BY <1>4, Zenon DEF OptionsFrom, Row, Entry, Offsets

----------------------------------------------------------------------------
(* What marshall reads.                                                     *)

\* The options from i on, when idx were read before and the limit is MaxOptions.
Until(opts, i, idx) ==
    IF Len(opts) < i - 1 + MaxOptions - idx THEN Len(opts) ELSE i - 1 + MaxOptions - idx
Rest(opts, i, idx) == SubSeq(opts, i, Until(opts, i, idx))

LEMMA RestFirst ==
    ASSUME NEW opts \in Seq(OptionType), NEW i \in 1..Len(opts), NEW idx \in 0..MaxOptions,
           idx # MaxOptions
    PROVE  Rest(opts, i, idx) = <<opts[i]>> \o Rest(opts, i + 1, idx + 1)
<1>1. Until(opts, i, idx) \in i..Len(opts) /\ Until(opts, i + 1, idx + 1) = Until(opts, i, idx)
    BY OffsetsTyped DEF Until
<1> HIDE DEF Until
<1> QED BY <1>1, SubSeqRecursiveFirst DEF Rest

LEMMA RestEmpty ==
    ASSUME NEW opts \in Seq(OptionType), NEW i \in 1..(Len(opts) + 1), NEW idx \in 0..MaxOptions,
           idx = MaxOptions \/ i = Len(opts) + 1
    PROVE  Rest(opts, i, idx) = <<>>
<1>1. Until(opts, i, idx) \in Int /\ Until(opts, i, idx) < i
    BY OffsetsTyped DEF Until
<1> HIDE DEF Until
<1> QED BY <1>1, SubSeqEmpty DEF Rest

\* A part of a sequence, by its elements.
LEMMA PartIs ==
    ASSUME NEW S, NEW s \in Seq(S), NEW v \in Seq(S), NEW x \in Nat, x + Len(v) <= Len(s),
           \A j \in 1..Len(v) : s[x + j] = v[j]
    PROVE  SubSeq(s, x + 1, x + Len(v)) = v
<1> DEFINE p == SubSeq(s, x + 1, x + Len(v))
<1>1. ASSUME NEW y \in (x + 1)..(x + Len(v))
      PROVE  s[y] \in S
    <2>1. y \in 1..Len(s)
        OBVIOUS
    <2> QED BY <2>1
<1>2. /\ p \in Seq(S)
      /\ Len(p) = IF x + 1 <= x + Len(v) THEN (x + Len(v)) - (x + 1) + 1 ELSE 0
      /\ \A j \in 1..((x + Len(v)) - (x + 1) + 1) : p[j] = s[(x + 1) + j - 1]
    <2>1. x + 1 \in Int /\ x + Len(v) \in Int
        OBVIOUS
    <2> QED BY <1>1, <2>1, SubSeqProperties
<1> HIDE DEF p
<1>3. Len(p) = Len(v)
    BY <1>2
<1>4. ASSUME NEW j \in 1..Len(v)
      PROVE  p[j] = v[j]
    <2>1. j \in 1..((x + Len(v)) - (x + 1) + 1) /\ (x + 1) + j - 1 = x + j
        OBVIOUS
    <2> QED BY <2>1, <1>2
<1>5. p = v
    BY <1>2, <1>3, <1>4, SeqEqual
<1> QED BY <1>5 DEF p

\* The bytes of one option are read as that option.
LEMMA OptionRead ==
    ASSUME NEW buf \in Seq(Byte), NEW opt \in OptionType, NEW x \in 1..Len(buf),
           x + 1 + Len(opt.value) <= Len(buf),
           buf[x] = opt.code, buf[x + 1] = Len(opt.value),
           \A j \in 1..Len(opt.value) : buf[x + 1 + j] = opt.value[j]
    PROVE  [code |-> buf[x], value |-> SubSeq(buf, x + 2, x + 1 + buf[x + 1])] = opt
<1>1. opt.value \in Seq(Byte)
    BY DEF OptionType
<1>2. SubSeq(buf, (x + 1) + 1, (x + 1) + Len(opt.value)) = opt.value
    <2>1. x + 1 \in Nat
        OBVIOUS
    <2> QED BY <1>1, <2>1, PartIs
<1>3. (x + 1) + 1 = x + 2
    OBVIOUS
<1> QED BY <1>2, <1>3 DEF OptionType

\* The bytes d are at the start of the buffer.
Starts(buf, d) == Len(d) <= Len(buf) /\ \A x \in 1..Len(d) : buf[x] = d[x]

\* Bytes that spell options are read as these options, up to the limit, whatever is
\* behind them in the buffer.
LEMMA ReadsSpelled ==
    ASSUME NEW buf, NEW d \in Seq(Byte), NEW opts \in Seq(OptionType), NEW at,
           Readable(buf, Len(d)), Starts(buf, d), SpelledAt(d, opts, at)
    PROVE  marshall(buf, Len(d)) = Rest(opts, 1, 0)
<1> DEFINE n == Len(d)
           k == Len(opts)
           Behind(i) == IF i = 1 THEN 1 ELSE at[i - 1] + 2 + Len(opts[i - 1].value)
           G == OptionsFrom(buf, n)
           Claim(x) == \A i \in 1..(k + 1), idx \in 0..MaxOptions :
                          x \in Behind(i)..at[i] => G[x][idx] = Rest(opts, i, idx)
           D == {o \in 0..(n + 1) : \A x \in 1..(n + 1) : x >= o => Claim(x)}
<1>t. /\ n \in Nat /\ k \in Nat /\ n <= BodyMax /\ BodyMax \in Nat /\ ByteMax \in Nat
      /\ MaxOptions \in Nat /\ Offsets \in Nat /\ n + 1 <= Offsets
      /\ buf \in Seq(Byte) /\ Len(buf) = BodyMax
    BY OffsetsTyped DEF Readable, Offsets
<1>a. at \in [1..(k + 1) -> 1..(n + 1)]
    BY DEF SpelledAt
<1>b. \A i \in 1..(k + 1) : Behind(i) <= at[i] /\ \A o \in Behind(i)..(at[i] - 1) : d[o] = DHO_PAD
    BY DEF SpelledAt
<1>c. \A i \in 1..k :
         /\ opts[i].code \notin {DHO_PAD, DHO_END}
         /\ d[at[i]] = opts[i].code
         /\ d[at[i] + 1] = Len(opts[i].value)
         /\ \A j \in 1..Len(opts[i].value) : d[at[i] + 1 + j] = opts[i].value[j]
    BY DEF SpelledAt
<1>d. at[k + 1] <= n => d[at[k + 1]] = DHO_END
    BY DEF SpelledAt
<1>e. ASSUME NEW i \in 1..k
      PROVE  opts[i] \in OptionType /\ Len(opts[i].value) \in Nat
    <2>1. opts[i] \in OptionType
        OBVIOUS
    <2>2. opts[i].value \in Seq(Byte)
        BY <2>1 DEF OptionType
    <2> QED BY <2>1, <2>2
<1>f. \A i \in 1..(k + 1) : at[i] \in 1..(n + 1) /\ Behind(i) \in 1..(n + 1)
    <2> SUFFICES ASSUME NEW i \in 1..(k + 1)
                 PROVE  at[i] \in 1..(n + 1) /\ Behind(i) \in 1..(n + 1)
        OBVIOUS
    <2>1. at[i] \in 1..(n + 1) /\ Behind(i) <= at[i]
        BY <1>a, <1>b
    <2>2. CASE i = 1
        BY <2>1, <2>2, <1>t
    <2>3. CASE i # 1
        <3>1. i - 1 \in 1..k /\ i - 1 \in 1..(k + 1)
            BY <2>3, <1>t
        <3>2. at[i - 1] \in 1..(n + 1) /\ Len(opts[i - 1].value) \in Nat
            BY <3>1, <1>a, <1>e
        <3> DEFINE L == Len(opts[i - 1].value)
        <3>3. Behind(i) = at[i - 1] + 2 + L /\ L \in Nat /\ at[i - 1] \in Nat
            BY <2>3, <3>2
        <3>4. at[i] \in 1..(n + 1) /\ n \in Nat
            BY <2>1, <1>t
        <3> HIDE DEF L, Behind, n
        <3>5. Behind(i) \in Nat /\ Behind(i) >= 1 /\ Behind(i) <= n + 1
            <4> DEFINE e == Behind(i)
                       y == at[i]
                       w == at[i - 1]
            <4>1. e <= y /\ e = w + 2 + L /\ L \in Nat /\ w \in Nat
                BY <2>1, <3>3, Zenon
            <4>2. y \in 1..(n + 1) /\ n \in Nat
                BY <3>4, Zenon
            <4> HIDE DEF e, y, w
            <4>3. e \in Nat /\ e >= 1 /\ e <= n + 1
                BY ONLY <4>1, <4>2
            <4> QED BY ONLY <4>3 DEF e
        <3> QED BY <3>4, <3>5
    <2> QED BY <2>2, <2>3
<1>g. \A i \in 1..k : i + 1 \in 1..(k + 1) /\ Behind(i + 1) = at[i] + 2 + Len(opts[i].value)
    BY <1>t
<1>h. ASSUME NEW x \in 1..(n + 1), NEW idx \in 0..MaxOptions
      PROVE  G[x][idx] = Entry(G, buf, n, x, idx)
    <2>1. x \in 1..Offsets
        BY <1>t
    <2>2. G = [o \in 1..Offsets |-> Row(G, buf, n, o)]
        BY OptionsDefined
    <2> HIDE DEF G
    <2>3. G[x] = Row(G, buf, n, x)
        BY <2>1, <2>2, Zenon
    <2> QED BY <2>3 DEF Row
<1> HIDE DEF Behind, G
<1>1. ASSUME NEW x \in 1..(n + 1), \A y \in 1..(n + 1) : y >= x + 1 => Claim(y)
      PROVE  Claim(x)
    <2> SUFFICES ASSUME NEW i \in 1..(k + 1), NEW idx \in 0..MaxOptions, x \in Behind(i)..at[i]
                 PROVE  G[x][idx] = Rest(opts, i, idx)
        OBVIOUS
    <2>0. at[i] \in 1..(n + 1) /\ Behind(i) \in 1..(n + 1) /\ x <= at[i] /\ Behind(i) <= x
        BY <1>f
    <2>1. CASE idx = MaxOptions
        <3>1. G[x][idx] = <<>>
            BY <2>1, <1>h DEF Entry
        <3> QED BY <3>1, <2>1, <1>t, RestEmpty
    <2>2. CASE idx # MaxOptions /\ x < at[i]
        <3>1. x <= n /\ x \in Behind(i)..(at[i] - 1) /\ x + 1 \in 1..(n + 1) /\ x + 1 \in Behind(i)..at[i]
            BY <2>0, <2>2, <1>t
        <3>2. buf[x] = DHO_PAD
            BY <3>1, <1>b, <1>t DEF Starts
        <3>3. G[x][idx] = G[x + 1][idx]
            <4>1. G[x][idx] = Entry(G, buf, n, x, idx) /\ ~(x > n)
                BY <3>1, <1>h, <1>t
            <4> QED BY <2>2, <3>2, <4>1 DEF Entry
        <3>4. G[x + 1][idx] = Rest(opts, i, idx)
            BY <3>1, <1>1, <1>t
        <3> QED BY <3>3, <3>4
    <2>3. CASE idx # MaxOptions /\ x = at[i] /\ i = k + 1
        <3>1. G[x][idx] = <<>>
            <4>1. CASE x > n
                BY <4>1, <1>h DEF Entry
            <4>2. CASE x <= n
                <5>1. buf[x] = DHO_END
                    BY <4>2, <2>3, <1>d, <1>t DEF Starts
                <5>2. DHO_END # DHO_PAD
                    BY WireTyped DEF DHO_END, DHO_PAD, DHO_DOMAIN_NAME_SERVERS
                <5> QED BY <5>1, <5>2, <1>h DEF Entry
            <4> QED BY <4>1, <4>2, <1>t
        <3> QED BY <3>1, <2>3, RestEmpty
    <2>4. CASE idx # MaxOptions /\ x = at[i] /\ i # k + 1
        <3>1. i \in 1..k /\ i + 1 \in 1..(k + 1)
            BY <2>4, <1>t
        <3> DEFINE b == Behind(i + 1)
        <3>2. /\ b = x + 2 + Len(opts[i].value) /\ b \in 1..(n + 1)
              /\ Len(opts[i].value) \in Nat /\ opts[i] \in OptionType
              /\ b \in Behind(i + 1)..at[i + 1]
            <4>1. at[i + 1] \in 1..(n + 1) /\ b \in 1..(n + 1) /\ b <= at[i + 1]
                BY <3>1, <1>f, <1>b
            <4> QED BY <3>1, <2>4, <1>g, <1>e, <4>1, <1>t
        <3> DEFINE L == Len(opts[i].value)
        <3>3. /\ x + 1 + L <= n /\ x <= n /\ x \in 1..Len(buf) /\ x + 1 + L <= Len(buf)
              /\ x \in 1..n /\ x + 1 \in 1..n /\ \A j \in 1..L : x + 1 + j \in 1..n
            <4>1. b = x + 2 + L /\ b \in 1..(n + 1) /\ L \in Nat
                BY <3>2
            <4> HIDE DEF b, L
            <4> QED BY <4>1, <1>t
        <3>4. /\ buf[x] = opts[i].code /\ buf[x + 1] = Len(opts[i].value)
              /\ \A j \in 1..Len(opts[i].value) : buf[x + 1 + j] = opts[i].value[j]
            <4>1. d[x] = opts[i].code /\ d[x + 1] = Len(opts[i].value)
                BY <3>1, <2>4, <1>c
            <4>2. \A j \in 1..Len(opts[i].value) : d[x + 1 + j] = opts[i].value[j]
                BY <3>1, <2>4, <1>c
            <4>3. buf[x] = d[x] /\ buf[x + 1] = d[x + 1]
                BY <3>3 DEF Starts
            <4>4. \A j \in 1..L : buf[x + 1 + j] = d[x + 1 + j]
                <5> HIDE DEF L
                <5> QED BY <3>3 DEF Starts
            <4> QED BY <4>1, <4>2, <4>3, <4>4
        <3>5. [code |-> buf[x], value |-> SubSeq(buf, x + 2, x + 1 + buf[x + 1])] = opts[i]
            <4>1. \A opt \in OptionType :
                     /\ x + 1 + Len(opt.value) <= Len(buf)
                     /\ buf[x] = opt.code /\ buf[x + 1] = Len(opt.value)
                     /\ \A j \in 1..Len(opt.value) : buf[x + 1 + j] = opt.value[j]
                     => [code |-> buf[x], value |-> SubSeq(buf, x + 2, x + 1 + buf[x + 1])] = opt
                BY <3>3, <1>t, OptionRead
            <4> QED BY <3>2, <3>3, <3>4, <4>1, Zenon
        <3>6. buf[x] # DHO_PAD /\ buf[x] # DHO_END
            BY <3>1, <3>4, <1>c
        <3>7. G[x][idx] = <<opts[i]>> \o G[b][idx + 1]
            <4>1. x + 2 + buf[x + 1] = b
                BY <3>2, <3>4
            <4>2. G[x][idx] = Entry(G, buf, n, x, idx) /\ ~(x > n)
                BY <3>3, <1>h, <1>t
            <4> HIDE DEF b
            <4> QED BY <2>4, <3>5, <3>6, <4>1, <4>2, Zenon DEF Entry
        <3>8. G[b][idx + 1] = Rest(opts, i + 1, idx + 1)
            <4>1. idx + 1 \in 0..MaxOptions
                <5>1. idx \in 0..MaxOptions /\ idx # MaxOptions /\ MaxOptions \in Nat
                    BY <2>4, <1>t
                <5> QED BY ONLY <5>1
            <4>2. b >= x + 1
                <5>1. b = x + 2 + L /\ L \in Nat /\ x \in 1..(n + 1) /\ n \in Nat
                    BY <3>2, <1>t, Zenon
                <5> HIDE DEF b, L, n
                <5> QED BY ONLY <5>1
            <4> HIDE DEF b
            <4> QED BY <3>1, <3>2, <4>1, <4>2, <1>1
        <3> QED BY <3>1, <3>7, <3>8, <2>4, RestFirst
    <2> QED BY <2>0, <2>1, <2>2, <2>3, <2>4, <1>t
<1> HIDE DEF Claim
<1>2. n + 1 \in D
    <2>1. ASSUME NEW x \in 1..(n + 1), x >= n + 1
          PROVE  Claim(x)
        <3>1. \A y \in 1..(n + 1) : ~(y >= x + 1)
            BY <2>1, <1>t
        <3> QED BY <3>1, <1>1
    <2> QED BY <2>1, <1>t
<1>3. ASSUME NEW o \in 1..(n + 1), o \in D
      PROVE  o - 1 \in D
    <2>1. ASSUME NEW x \in 1..(n + 1), x >= o - 1
          PROVE  Claim(x)
        <3>1. CASE x >= o
            BY <3>1, <1>3
        <3>2. CASE ~(x >= o)
            <4>1. x + 1 = o
                BY <3>2, <2>1, <1>t
            <4> QED BY <4>1, <1>1, <1>3
        <3> QED BY <3>1, <3>2
    <2>2. o - 1 \in 0..(n + 1)
        BY <1>t
    <2> QED BY <2>1, <2>2
<1>4. Claim(1)
    <2> HIDE DEF D
    <2>1. n + 1 \in Nat
        BY <1>t
    <2>2. 0..(n + 1) \subseteq D
        BY <2>1, <1>2, <1>3, DownwardInduction
    <2>3. 0 \in D /\ 1 \in 1..(n + 1) /\ 1 >= 0
        BY <2>2, <1>t
    <2> QED BY <2>3 DEF D
<1>5. 1 \in 1..(k + 1) /\ 1 \in Behind(1)..at[1] /\ 0 \in 0..MaxOptions
    BY <1>t, <1>b, <1>f DEF Behind
<1>6. G[1][0] = Rest(opts, 1, 0)
    BY <1>4, <1>5 DEF Claim
<1> QED BY <1>6 DEF marshall, G

----------------------------------------------------------------------------
(* What unmarshall writes.                                                  *)

\* Options that can be written: the length of a value is one byte.
Writable(opts) ==
    /\ opts \in Seq(OptionType)
    /\ \A i \in 1..Len(opts) : /\ opts[i].code \notin {DHO_PAD, DHO_END}
                               /\ Len(opts[i].value) <= ByteMax

Piece(opt) == <<opt.code, Len(opt.value)>> \o opt.value

LEMMA PieceBytes ==
    ASSUME NEW opt \in OptionType, Len(opt.value) <= ByteMax
    PROVE  /\ Piece(opt) \in Seq(Byte) /\ Len(opt.value) \in Nat
           /\ Len(Piece(opt)) = 2 + Len(opt.value)
           /\ Piece(opt)[1] = opt.code /\ Piece(opt)[2] = Len(opt.value)
           /\ \A j \in 1..Len(opt.value) : Piece(opt)[2 + j] = opt.value[j]
<1> DEFINE v == opt.value
           h == <<opt.code, Len(v)>>
<1>1. v \in Seq(Byte) /\ opt.code \in Byte
    BY DEF OptionType
<1>2. Len(v) \in Byte /\ Len(v) \in Nat
    BY <1>1, OffsetsTyped DEF Byte
<1>3. h \in Seq(Byte) /\ Len(h) = 2 /\ h[1] = opt.code /\ h[2] = Len(v)
    BY <1>1, <1>2
<1> HIDE DEF h, v
<1>4. /\ h \o v \in Seq(Byte) /\ Len(h \o v) = 2 + Len(v)
      /\ \A i \in 1..(2 + Len(v)) : (h \o v)[i] = IF i <= 2 THEN h[i] ELSE v[i - 2]
    BY <1>1, <1>3, ConcatProperties
<1>5. 1 \in 1..(2 + Len(v)) /\ 2 \in 1..(2 + Len(v)) /\ (h \o v)[1] = h[1] /\ (h \o v)[2] = h[2]
    BY <1>2, <1>4
<1>6. ASSUME NEW j \in 1..Len(v)
      PROVE  (h \o v)[2 + j] = v[j]
    <2>1. 2 + j \in 1..(2 + Len(v)) /\ ~(2 + j <= 2) /\ (2 + j) - 2 = j
        BY <1>2
    <2> QED BY <2>1, <1>4
<1> QED BY <1>2, <1>3, <1>4, <1>5, <1>6 DEF Piece, h, v

\* The recursive definition has a solution.
LEMMA BytesDefined ==
    ASSUME NEW opts, Writable(opts)
    PROVE  LET B == OptionBytes(opts)
           IN B[0] = <<>> /\ \A i \in 1..Len(opts) : B[i] = B[i - 1] \o Piece(opts[i])
<1> DEFINE k == Len(opts)
           step == [i \in 1..k |-> [s \in Seq(Byte) |-> s \o Piece(opts[i])]]
           Solves(F) == F = [i \in 0..k |-> IF i = 0 THEN <<>> ELSE F[i - 1] \o Piece(opts[i])]
<1>0. k \in Nat
    BY DEF Writable
<1>1. step \in [1..k -> [Seq(Byte) -> Seq(Byte)]]
    <2>1. ASSUME NEW i \in 1..k, NEW s \in Seq(Byte)
          PROVE  s \o Piece(opts[i]) \in Seq(Byte)
        <3>1. Piece(opts[i]) \in Seq(Byte)
            BY PieceBytes DEF Writable
        <3> QED BY <3>1, ConcatProperties
    <2> QED BY <2>1
<1>2. <<>> \in Seq(Byte)
    BY EmptySeq
<1>3. PICK f \in [0..k -> Seq(Byte)] : f[0] = <<>> /\ \A i \in 1..k : f[i] = step[i][f[i - 1]]
    <2> DEFINE S == Seq(Byte)
    <2>1. <<>> \in S /\ k \in Nat /\ step \in [1..k -> [S -> S]]
        BY <1>0, <1>1, <1>2
    <2> HIDE DEF step, k, S
    <2>2. \E f \in [0..k -> S] : f[0] = <<>> /\ \A i \in 1..k : f[i] = step[i][f[i - 1]]
        BY <2>1, PrimitiveRecursion
    <2> QED BY <2>2 DEF S
<1>4. ASSUME NEW i \in 0..k
      PROVE  f[i] = IF i = 0 THEN <<>> ELSE f[i - 1] \o Piece(opts[i])
    <2>1. CASE i = 0
        BY <2>1, <1>3
    <2>2. CASE i # 0
        <3>1. i \in 1..k /\ f[i - 1] \in Seq(Byte)
            BY <2>2, <1>0
        <3>2. step[i][f[i - 1]] = f[i - 1] \o Piece(opts[i])
            BY <3>1
        <3> QED BY <2>2, <3>1, <3>2, <1>3
    <2> QED BY <2>1, <2>2
<1>5. Solves(f)
    <2> HIDE DEF step
    <2>1. f = [i \in 0..k |-> f[i]]
        OBVIOUS
    <2> QED BY <2>1, <1>4
<1>6. \E F : Solves(F)
    <2> HIDE DEF Solves
    <2> QED BY <1>5
<1> DEFINE B == OptionBytes(opts)
<1>7. Solves(B)
    BY <1>6, Zenon DEF OptionBytes, Piece
<1>8. B[0] = <<>>
    <2>1. 0 \in 0..k
        BY <1>0
    <2> HIDE DEF B
    <2> QED BY <1>7, <2>1, Zenon
<1>9. ASSUME NEW i \in 1..k
      PROVE  B[i] = B[i - 1] \o Piece(opts[i])
    <2>1. i \in 0..k /\ i # 0
        BY <1>0
    <2> HIDE DEF B
    <2> QED BY <1>7, <2>1, Zenon
<1> QED BY <1>8, <1>9

LEMMA Joined ==
    ASSUME NEW S, NEW s \in Seq(S), NEW t \in Seq(S)
    PROVE  /\ s \o t \in Seq(S) /\ Len(s \o t) = Len(s) + Len(t)
           /\ Len(s) \in Nat /\ Len(t) \in Nat
           /\ \A i \in 1..Len(s) : (s \o t)[i] = s[i]
           /\ \A i \in 1..Len(t) : (s \o t)[Len(s) + i] = t[i]
<1>1. /\ Len(s \o t) = Len(s) + Len(t) /\ Len(s) \in Nat /\ Len(t) \in Nat
      /\ \A i \in 1..(Len(s) + Len(t)) : (s \o t)[i] = IF i <= Len(s) THEN s[i] ELSE t[i - Len(s)]
    BY ConcatProperties
<1>2. ASSUME NEW i \in 1..Len(t)
      PROVE  (s \o t)[Len(s) + i] = t[i]
    <2>1. Len(s) + i \in 1..(Len(s) + Len(t)) /\ ~(Len(s) + i <= Len(s)) /\ (Len(s) + i) - Len(s) = i
        BY <1>1
    <2> QED BY <2>1, <1>1
<1> QED BY <1>1, <1>2, ConcatProperties

LEMMA StartsConcat ==
    ASSUME NEW S, NEW s \in Seq(S), NEW t \in Seq(S)
    PROVE  Starts(s \o t, s)
BY Joined DEF Starts

LEMMA StartsTransitive ==
    ASSUME NEW S, NEW a \in Seq(S), NEW b \in Seq(S), NEW c \in Seq(S), Starts(a, b), Starts(b, c)
    PROVE  Starts(a, c)
<1>1. Len(a) \in Nat /\ Len(b) \in Nat /\ Len(c) \in Nat
    OBVIOUS
<1>2. Len(c) <= Len(a)
    BY <1>1 DEF Starts
<1>3. ASSUME NEW x \in 1..Len(c)
      PROVE  a[x] = c[x]
    <2>1. x \in 1..Len(b)
        BY <1>1 DEF Starts
    <2> QED BY <2>1 DEF Starts
<1> QED BY <1>2, <1>3 DEF Starts

\* The bytes of the first options are the start of all bytes.
LEMMA BytesGrow ==
    ASSUME NEW opts, Writable(opts)
    PROVE  LET B == OptionBytes(opts)
               k == Len(opts)
           IN /\ k \in Nat /\ B[0] = <<>>
              /\ \A i \in 0..k : B[i] \in Seq(Byte) /\ Len(B[i]) \in Nat /\ Starts(B[k], B[i])
              /\ \A i \in 1..k : /\ Len(B[i]) = Len(B[i - 1]) + 2 + Len(opts[i].value)
                                 /\ Len(opts[i].value) \in Nat
                                 /\ B[i][Len(B[i - 1]) + 1] = opts[i].code
                                 /\ B[i][Len(B[i - 1]) + 2] = Len(opts[i].value)
                                 /\ \A j \in 1..Len(opts[i].value) :
                                       B[i][Len(B[i - 1]) + 2 + j] = opts[i].value[j]
<1> DEFINE B == OptionBytes(opts)
           k == Len(opts)
           D == {i \in 0..k : B[i] \in Seq(Byte)}
           E == {i \in 0..k : Starts(B[k], B[i])}
<1>0. k \in Nat
    BY DEF Writable
<1>1. B[0] = <<>> /\ \A i \in 1..k : B[i] = B[i - 1] \o Piece(opts[i])
    BY BytesDefined
<1> HIDE DEF B
<1>2. ASSUME NEW i \in 1..k
      PROVE  /\ opts[i] \in OptionType /\ Len(opts[i].value) <= ByteMax
             /\ Piece(opts[i]) \in Seq(Byte)
    <2>1. opts[i] \in OptionType /\ Len(opts[i].value) <= ByteMax
        BY DEF Writable
    <2> QED BY <2>1, PieceBytes
<1>3. \A i \in 0..k : B[i] \in Seq(Byte)
    <2>1. 0 \in D
        <3>1. B[0] \in Seq(Byte) /\ 0 \in 0..k
            BY <1>0, <1>1, EmptySeq
        <3> HIDE DEF k
        <3> QED BY <3>1
    <2>2. ASSUME NEW i \in 1..k, i - 1 \in D
          PROVE  i \in D
        <3>1. B[i - 1] \in Seq(Byte) /\ Piece(opts[i]) \in Seq(Byte)
            BY <2>2, <1>2
        <3>2. B[i] \in Seq(Byte)
            BY <3>1, <1>1, ConcatProperties
        <3> QED BY <3>2, <1>0
    <2>3. 0..k \subseteq D
        <3> HIDE DEF D, k
        <3> QED BY <2>1, <2>2, <1>0, BoundedInduction
    <2> QED BY <2>3
<1>4. \A i \in 0..k : Starts(B[k], B[i])
    <2>1. k \in E
        <3>1. k \in 0..k /\ B[k] \in Seq(Byte)
            BY <1>0, <1>3
        <3>2. Starts(B[k], B[k])
            BY <3>1 DEF Starts
        <3> QED BY <3>1, <3>2
    <2>2. ASSUME NEW i \in 1..k, i \in E
          PROVE  i - 1 \in E
        <3>1. i - 1 \in 0..k /\ i \in 0..k /\ k \in 0..k
            BY <1>0
        <3>2. /\ B[i - 1] \in Seq(Byte) /\ B[i] \in Seq(Byte) /\ B[k] \in Seq(Byte)
              /\ Piece(opts[i]) \in Seq(Byte)
            BY <3>1, <1>2, <1>3
        <3>3. Starts(B[i], B[i - 1])
            BY <3>2, <1>1, StartsConcat
        <3>4. Starts(B[k], B[i - 1])
            <4>1. Starts(B[k], B[i])
                BY <2>2
            <4> QED BY <4>1, <3>2, <3>3, StartsTransitive
        <3> QED BY <3>1, <3>4
    <2>3. 0..k \subseteq E
        <3> HIDE DEF E, k
        <3> QED BY <2>1, <2>2, <1>0, DownwardInduction
    <2> QED BY <2>3
<1>5. ASSUME NEW i \in 1..k
      PROVE  /\ Len(B[i]) = Len(B[i - 1]) + 2 + Len(opts[i].value)
             /\ Len(opts[i].value) \in Nat
             /\ B[i][Len(B[i - 1]) + 1] = opts[i].code
             /\ B[i][Len(B[i - 1]) + 2] = Len(opts[i].value)
             /\ \A j \in 1..Len(opts[i].value) : B[i][Len(B[i - 1]) + 2 + j] = opts[i].value[j]
    <2> DEFINE p == Piece(opts[i])
               a == B[i - 1]
               L == Len(opts[i].value)
    <2>1. i - 1 \in 0..k
        BY <1>0
    <2>2. /\ p \in Seq(Byte) /\ L \in Nat /\ Len(p) = 2 + L
          /\ p[1] = opts[i].code /\ p[2] = L /\ \A j \in 1..L : p[2 + j] = opts[i].value[j]
        BY <1>2, PieceBytes
    <2>3. a \in Seq(Byte) /\ B[i] = a \o p
        BY <2>1, <1>1, <1>3
    <2> HIDE DEF p, a, L
    <2>4. Len(a \o p) = Len(a) + Len(p) /\ Len(a) \in Nat
        BY <2>2, <2>3, Joined
    <2>5. \A y \in 1..(2 + L) : (a \o p)[Len(a) + y] = p[y]
        BY <2>2, <2>3, Joined
    <2>6. Len(a \o p) = Len(a) + 2 + L
        BY <2>2, <2>4
    <2>7. 1 \in 1..(2 + L) /\ 2 \in 1..(2 + L)
        BY <2>2
    <2>8. ASSUME NEW j \in 1..L
          PROVE  (a \o p)[Len(a) + 2 + j] = opts[i].value[j]
        <3>1. 2 + j \in 1..(2 + L) /\ Len(a) + (2 + j) = Len(a) + 2 + j
            BY <2>2, <2>4
        <3> QED BY <3>1, <2>2, <2>5
    <2> QED BY <2>2, <2>3, <2>5, <2>6, <2>7, <2>8 DEF p, a, L
<1>6. \A i \in 0..k : B[i] \in Seq(Byte) /\ Len(B[i]) \in Nat /\ Starts(B[k], B[i])
    BY <1>3, <1>4
<1> QED BY <1>0, <1>1, <1>5, <1>6, Zenon DEF B

LEMMA EncodedBytes ==
    ASSUME NEW opts, Writable(opts)
    PROVE  LET B == OptionBytes(opts)[Len(opts)]
           IN /\ Encoded(opts) \in Seq(Byte) /\ Len(B) \in Nat
              /\ Len(Encoded(opts)) = Len(B) + 1
              /\ Encoded(opts)[Len(B) + 1] = DHO_END
              /\ Starts(Encoded(opts), B)
<1> DEFINE B == OptionBytes(opts)[Len(opts)]
           e == <<DHO_END>>
<1>1. B \in Seq(Byte)
    <2>1. Len(opts) \in 0..Len(opts)
        BY DEF Writable
    <2> QED BY <2>1, BytesGrow
<1>2. e \in Seq(Byte) /\ Len(e) = 1 /\ e[1] = DHO_END
    <2>1. DHO_END \in Byte
        BY OffsetsTyped DEF DHO_END, Byte
    <2> QED BY <2>1
<1> HIDE DEF B, e
<1>3. /\ B \o e \in Seq(Byte) /\ Len(B \o e) = Len(B) + 1 /\ Len(B) \in Nat
      /\ (B \o e)[Len(B) + 1] = DHO_END
    BY <1>1, <1>2, Joined
<1>4. Starts(B \o e, B)
    BY <1>1, <1>2, StartsConcat
<1> QED BY <1>3, <1>4 DEF Encoded, B, e

\* What unmarshall writes spells the options.
LEMMA EncodedSpells ==
    ASSUME NEW opts, Writable(opts), NEW d \in Seq(Byte), Starts(d, Encoded(opts))
    PROVE  SpelledAt(d, opts, [i \in 1..(Len(opts) + 1) |-> Len(OptionBytes(opts)[i - 1]) + 1])
<1> DEFINE B == OptionBytes(opts)
           k == Len(opts)
           at == [i \in 1..(k + 1) |-> Len(B[i - 1]) + 1]
           Behind(i) == IF i = 1 THEN 1 ELSE at[i - 1] + 2 + Len(opts[i - 1].value)
<1>1. k \in Nat /\ B[0] = <<>>
    BY BytesGrow
<1>2. \A i \in 0..k : B[i] \in Seq(Byte) /\ Len(B[i]) \in Nat /\ Starts(B[k], B[i])
    BY BytesGrow
<1>3. ASSUME NEW i \in 1..k
      PROVE  /\ Len(B[i]) = Len(B[i - 1]) + 2 + Len(opts[i].value)
             /\ Len(opts[i].value) \in Nat
             /\ B[i][Len(B[i - 1]) + 1] = opts[i].code
             /\ B[i][Len(B[i - 1]) + 2] = Len(opts[i].value)
             /\ \A j \in 1..Len(opts[i].value) : B[i][Len(B[i - 1]) + 2 + j] = opts[i].value[j]
    BY BytesGrow
<1>4. /\ Encoded(opts) \in Seq(Byte) /\ Len(Encoded(opts)) = Len(B[k]) + 1
      /\ Encoded(opts)[Len(B[k]) + 1] = DHO_END /\ Starts(Encoded(opts), B[k])
    BY EncodedBytes
<1> HIDE DEF B
<1>5. ASSUME NEW i \in 0..k
      PROVE  Starts(d, B[i]) /\ B[i] \in Seq(Byte) /\ Len(B[i]) \in Nat
    <2>1. k \in 0..k
        BY <1>1
    <2>2. B[i] \in Seq(Byte) /\ B[k] \in Seq(Byte) /\ Starts(B[k], B[i])
        BY <2>1, <1>2
    <2>3. Starts(d, B[k])
        BY <2>2, <1>4, StartsTransitive
    <2> QED BY <2>2, <2>3, <1>2, StartsTransitive
<1>6. Len(d) \in Nat /\ Len(B[k]) + 1 <= Len(d) /\ d[Len(B[k]) + 1] = DHO_END /\ Len(B[k]) \in Nat
    <2>1. k \in 0..k
        BY <1>1
    <2>2. Len(B[k]) \in Nat /\ Len(B[k]) + 1 \in 1..Len(Encoded(opts))
        BY <2>1, <1>2, <1>4
    <2> QED BY <2>2, <1>4 DEF Starts
<1>7. ASSUME NEW i \in 1..(k + 1)
      PROVE  /\ i - 1 \in 0..k /\ at[i] = Len(B[i - 1]) + 1 /\ at[i] \in 1..(Len(d) + 1)
             /\ Behind(i) = at[i]
    <2>1. i - 1 \in 0..k /\ at[i] = Len(B[i - 1]) + 1
        BY <1>1
    <2>2. Len(B[i - 1]) \in Nat /\ Len(B[i - 1]) <= Len(d)
        BY <2>1, <1>5 DEF Starts
    <2>3. CASE i = 1
        <3>1. Len(B[i - 1]) = 0
            BY <2>3, <1>1
        <3> QED BY <2>1, <2>2, <2>3, <3>1, <1>6
    <2>4. CASE i # 1
        <3>1. i - 1 \in 1..k /\ i - 1 \in 1..(k + 1)
            BY <2>4, <1>1
        <3>2. at[i - 1] = Len(B[(i - 1) - 1]) + 1 /\ (i - 1) - 1 \in 0..k
            BY <3>1, <1>1
        <3> DEFINE L == Len(opts[i - 1].value)
                   m == Len(B[(i - 1) - 1])
        <3>3. Len(B[i - 1]) = m + 2 + L /\ L \in Nat /\ m \in Nat
            BY <3>1, <3>2, <1>2, <1>3
        <3>4. Behind(i) = at[i - 1] + 2 + L
            BY <2>4
        <3> HIDE DEF L, m
        <3>5. at[i - 1] = m + 1
            BY <3>2 DEF m
        <3> HIDE DEF at, Behind
        <3> QED BY <2>1, <2>2, <3>3, <3>4, <3>5, <1>6
    <2> QED BY <2>3, <2>4
<1>8. at \in [1..(k + 1) -> 1..(Len(d) + 1)]
    BY <1>7
<1>9. ASSUME NEW i \in 1..(k + 1)
      PROVE  Behind(i) <= at[i] /\ \A o \in Behind(i)..(at[i] - 1) : d[o] = DHO_PAD
    <2>1. Behind(i) = at[i] /\ at[i] \in Int
        BY <1>7
    <2> HIDE DEF at, Behind
    <2> QED BY <2>1
<1>10. ASSUME NEW i \in 1..k
       PROVE  /\ opts[i].code \notin {DHO_PAD, DHO_END}
              /\ d[at[i]] = opts[i].code
              /\ d[at[i] + 1] = Len(opts[i].value)
              /\ \A j \in 1..Len(opts[i].value) : d[at[i] + 1 + j] = opts[i].value[j]
    <2> DEFINE L == Len(opts[i].value)
               m == Len(B[i - 1])
    <2>1. i \in 1..(k + 1) /\ i \in 0..k /\ i - 1 \in 0..k
        BY <1>1
    <2>2. at[i] = m + 1
        BY <2>1
    <2>3. Len(B[i]) = m + 2 + L /\ L \in Nat /\ m \in Nat
        BY <2>1, <1>2, <1>3
    <2>4. \A x \in 1..Len(B[i]) : d[x] = B[i][x]
        BY <2>1, <1>5 DEF Starts
    <2>5. B[i][m + 1] = opts[i].code /\ B[i][m + 2] = L
        BY <1>3
    <2>6. \A j \in 1..L : B[i][m + 2 + j] = opts[i].value[j]
        BY <1>3
    <2>7. opts[i].code \notin {DHO_PAD, DHO_END}
        BY DEF Writable
    <2> HIDE DEF L, m, at
    <2>8. m + 1 \in 1..Len(B[i]) /\ m + 2 \in 1..Len(B[i]) /\ at[i] + 1 = m + 2
        BY <2>2, <2>3
    <2>9. ASSUME NEW j \in 1..L
          PROVE  d[at[i] + 1 + j] = opts[i].value[j]
        <3>1. m + 2 + j \in 1..Len(B[i]) /\ at[i] + 1 + j = m + 2 + j
            BY <2>2, <2>3
        <3> QED BY <3>1, <2>4, <2>6
    <2> QED BY <2>2, <2>4, <2>5, <2>7, <2>8, <2>9 DEF L
<1>11. at[k + 1] <= Len(d) => d[at[k + 1]] = DHO_END
    <2>1. at[k + 1] = Len(B[k]) + 1
        BY <1>1
    <2> QED BY <2>1, <1>6
<1>12. SpelledAt(d, opts, at)
    <2> HIDE DEF at
    <2> QED BY <1>8, <1>9, <1>10, <1>11 DEF SpelledAt, Behind
<1> QED BY <1>12 DEF B

----------------------------------------------------------------------------
(* The buffer.                                                              *)

LEMMA ZerosTyped ==
    ASSUME NEW n \in Nat
    PROVE  Zeros(n) \in Seq(Byte) /\ Len(Zeros(n)) = n /\ \A i \in 1..n : Zeros(n)[i] = 0
<1>1. 0 \in Byte
    BY OffsetsTyped DEF Byte
<1> QED BY <1>1 DEF Zeros

\* memcpy keeps the buffer's length, and the new bytes are at its start.
LEMMA OverKeeps ==
    ASSUME NEW new \in Seq(Byte), NEW old \in Seq(Byte), Len(new) <= Len(old)
    PROVE  Over(new, old) \in Seq(Byte) /\ Len(Over(new, old)) = Len(old) /\ Starts(Over(new, old), new)
<1> DEFINE t == SubSeq(old, Len(new) + 1, Len(old))
<1>1. Len(new) \in Nat /\ Len(old) \in Nat /\ Len(new) + 1 \in Int /\ Len(old) \in Int
    OBVIOUS
<1>2. \A i \in (Len(new) + 1)..Len(old) : old[i] \in Byte
    BY <1>1
<1>3. t \in Seq(Byte) /\ Len(t) = IF Len(new) + 1 <= Len(old) THEN Len(old) - (Len(new) + 1) + 1 ELSE 0
    BY <1>1, <1>2, SubSeqProperties
<1> HIDE DEF t
<1>4. Len(t) = Len(old) - Len(new)
    BY <1>1, <1>3
<1>5. new \o t \in Seq(Byte) /\ Len(new \o t) = Len(new) + Len(t)
    BY <1>3, Joined
<1>6. Starts(new \o t, new)
    BY <1>3, StartsConcat
<1> QED BY <1>1, <1>4, <1>5, <1>6 DEF Over, t

\* The message for the options: encoded, and padded to the shortest length.
Message(opts) ==
    Encoded(opts)
      \o (IF Len(Encoded(opts)) < BodyMin THEN Zeros(BodyMin - Len(Encoded(opts))) ELSE <<>>)

LEMMA MessagePadded ==
    ASSUME NEW opts, Writable(opts), Len(Encoded(opts)) <= BodyMax
    PROVE  LET m == Message(opts)
               e == Encoded(opts)
           IN /\ m \in Seq(Byte) /\ Len(m) \in 1..BodyMax /\ Len(m) >= BodyMin
              /\ Len(m) = IF Len(e) < BodyMin THEN BodyMin ELSE Len(e)
              /\ Starts(m, e) /\ m[Len(m)] \in {DHO_PAD, DHO_END}
              /\ \A i \in (Len(e) + 1)..Len(m) : m[i] = 0
<1> DEFINE e == Encoded(opts)
           q == IF Len(e) < BodyMin THEN BodyMin - Len(e) ELSE 0
           z == IF Len(e) < BodyMin THEN Zeros(BodyMin - Len(e)) ELSE <<>>
           m == e \o z
<1>1. e \in Seq(Byte) /\ Len(e) \in Nat \ {0} /\ e[Len(e)] = DHO_END
    BY EncodedBytes
<1>2. BodyMin \in Nat /\ BodyMax \in Nat /\ 1 <= BodyMin /\ BodyMin <= BodyMax
    BY WireTyped
<1>3. z \in Seq(Byte) /\ Len(z) = q /\ q \in Nat /\ \A i \in 1..q : z[i] = 0
    <2>1. CASE Len(e) < BodyMin
        <3>1. BodyMin - Len(e) \in Nat
            BY <1>1, <1>2, <2>1
        <3> HIDE DEF e
        <3> QED BY <2>1, <3>1, ZerosTyped
    <2>2. CASE ~(Len(e) < BodyMin)
        BY <2>2, EmptySeq
    <2> QED BY <2>1, <2>2
<1>4. Len(e) + q = (IF Len(e) < BodyMin THEN BodyMin ELSE Len(e)) /\ Len(e) + q \in 1..BodyMax
    BY <1>1, <1>2
<1> HIDE DEF e, q, z
<1>5. m \in Seq(Byte) /\ Len(m) = Len(e) + q /\ Starts(m, e)
    BY <1>1, <1>3, Joined, StartsConcat
<1>6. ASSUME NEW i \in (Len(e) + 1)..Len(m)
      PROVE  m[i] = 0
    <2>1. i - Len(e) \in 1..q /\ Len(e) + (i - Len(e)) = i
        BY <1>1, <1>3, <1>5
    <2>2. m[Len(e) + (i - Len(e))] = z[i - Len(e)]
        BY <1>1, <1>3, <2>1, Joined
    <2> QED BY <2>1, <2>2, <1>3
<1>7. m[Len(m)] \in {DHO_PAD, DHO_END}
    <2>1. CASE q = 0
        <3>1. Len(m) = Len(e) /\ Len(e) \in 1..Len(e)
            BY <1>1, <1>5, <2>1
        <3> QED BY <3>1, <1>1, <1>5 DEF Starts
    <2>2. CASE q # 0
        <3>1. Len(m) \in (Len(e) + 1)..Len(m)
            BY <1>1, <1>3, <1>5, <2>2
        <3> QED BY <3>1, <1>6 DEF DHO_PAD
    <2> QED BY <2>1, <2>2
<1>8. m = Message(opts)
    BY DEF Message, e, z
<1>9. Len(m) >= BodyMin
    BY <1>1, <1>2, <1>4, <1>5
<1> HIDE DEF m
<1> QED BY <1>4, <1>5, <1>6, <1>7, <1>8, <1>9 DEF e

\* A message is read back as the options it was made of.
LEMMA MessageReadBack ==
    ASSUME NEW opts, Writable(opts), Len(Encoded(opts)) <= BodyMax, Len(opts) <= MaxOptions
    PROVE  marshall(Over(Message(opts), Zeros(BodyMax)), Len(Message(opts))) = opts
<1> DEFINE m == Message(opts)
           z == Zeros(BodyMax)
           b == Over(m, z)
           at == [i \in 1..(Len(opts) + 1) |-> Len(OptionBytes(opts)[i - 1]) + 1]
<1>1. /\ m \in Seq(Byte) /\ Len(m) \in 1..BodyMax /\ Starts(m, Encoded(opts))
      /\ m[Len(m)] \in {DHO_PAD, DHO_END}
    BY MessagePadded
<1>2. SpelledAt(m, opts, at)
    <2> HIDE DEF m
    <2> QED BY <1>1, EncodedSpells
<1>3. z \in Seq(Byte) /\ Len(z) = BodyMax
    BY OffsetsTyped, ZerosTyped
<1> HIDE DEF m, z, at
<1>4. b \in Seq(Byte) /\ Len(b) = BodyMax /\ Starts(b, m)
    BY <1>1, <1>3, OffsetsTyped, OverKeeps
<1> HIDE DEF b
<1>5. Readable(b, Len(m))
    <2>1. b[Len(m)] = m[Len(m)]
        BY <1>1, <1>4 DEF Starts
    <2> QED BY <2>1, <1>1, <1>4, OffsetsTyped DEF Readable
<1>6. opts \in Seq(OptionType)
    BY DEF Writable
<1>7. marshall(b, Len(m)) = Rest(opts, 1, 0)
    BY <1>1, <1>2, <1>4, <1>5, <1>6, ReadsSpelled
<1>8. Until(opts, 1, 0) = Len(opts)
    BY <1>6, OffsetsTyped DEF Until
<1>9. Rest(opts, 1, 0) = opts
    BY <1>6, <1>8, SubSeqFull DEF Rest
<1> QED BY <1>7, <1>9 DEF b, m, z

----------------------------------------------------------------------------
(* The responses the daemon builds fit the buffer.                          *)

Network ==
    [server : Byte, lease_time : Byte, renew_time : Byte, domain_name : Seq(Byte), netmask : Byte,
     gateway : Byte, nameserver1 : Byte, nameserver2 : Byte]

\* All responses, for any subnet and any domain name, be it too long for an option.
Built ==
    UNION {{offer_options(net, rest), ack_options(net, rest), ack2_options(net, rest), nak_options(net)} :
             net \in Network, rest \in Byte}

\* Of the values at most the one at p is longer than two bytes.
LEMMA OneLong ==
    ASSUME NEW opts, Writable(opts), NEW p \in Nat,
           \A i \in 1..Len(opts) : i # p => Len(opts[i].value) <= 2
    PROVE  Len(Encoded(opts)) <= 4 * Len(opts) + ByteMax + 1
<1> DEFINE B == OptionBytes(opts)
           k == Len(opts)
           Bound(i) == 4 * i + (IF i >= p THEN ByteMax ELSE 0)
           D == {i \in 0..k : Len(B[i]) <= Bound(i)}
<1>1. k \in Nat /\ B[0] = <<>>
    BY BytesGrow
<1>2. \A i \in 0..k : Len(B[i]) \in Nat
    BY BytesGrow
<1>3. ASSUME NEW i \in 1..k
      PROVE  Len(B[i]) = Len(B[i - 1]) + 2 + Len(opts[i].value) /\ Len(opts[i].value) \in Nat
    BY BytesGrow
<1>4. Len(Encoded(opts)) = Len(B[k]) + 1
    BY EncodedBytes
<1> HIDE DEF B
<1>5. 0 \in D
    BY <1>1, OffsetsTyped
<1>6. ASSUME NEW i \in 1..k, i - 1 \in D
      PROVE  i \in D
    <2> DEFINE L == Len(opts[i].value)
               m == Len(B[i - 1])
    <2>1. i \in 0..k /\ i - 1 \in 0..k
        BY <1>1
    <2>2. Len(B[i]) = m + 2 + L /\ L \in Nat /\ m \in Nat /\ m <= Bound(i - 1)
        BY <1>2, <1>3, <1>6, <2>1
    <2>3. L <= ByteMax /\ (i # p => L <= 2)
        BY DEF Writable
    <2> HIDE DEF L, m
    <2>4. m + 2 + L <= Bound(i)
        BY <2>2, <2>3, OffsetsTyped
    <2> QED BY <2>1, <2>2, <2>4
<1>7. k \in D
    <2> HIDE DEF D, k
    <2>1. 0..k \subseteq D
        BY <1>1, <1>5, <1>6, BoundedInduction
    <2> QED BY <1>1, <2>1
<1> QED BY <1>1, <1>2, <1>4, <1>7, OffsetsTyped

LEMMA CodesTyped ==
    /\ \A c \in 1..8 : c \in Byte /\ c \notin {DHO_PAD, DHO_END}
    /\ \A b \in Byte : <<b>> \in Seq(Byte) /\ Len(<<b>>) = 1
    /\ 2 \in Byte /\ 5 \in Byte /\ 6 \in Byte
<1>1. ByteMax \in Nat /\ ByteMax > 8
    BY WireTyped DEF DHO_DOMAIN_NAME_SERVERS
<1> QED BY <1>1 DEF Byte, DHO_PAD, DHO_END

\* The option of a string holds what its length byte says.
LEMMA StringFits ==
    ASSUME NEW s \in Seq(Byte), NEW c
    PROVE  /\ StringOption(c, s).code = c
           /\ StringOption(c, s).value \in Seq(Byte) /\ Len(StringOption(c, s).value) <= ByteMax
           /\ StringOption(c, s) = [code |-> c, value |-> StringOption(c, s).value]
<1> DEFINE r == Len(s) % (ByteMax + 1)
<1>1. Len(s) \in Nat /\ ByteMax + 1 \in Nat /\ ByteMax + 1 > 0
    BY OffsetsTyped
<1>2. r \in Nat /\ r <= ByteMax /\ r <= Len(s)
    BY <1>1, OffsetsTyped
<1> HIDE DEF r
<1>3. \A i \in 1..r : s[i] \in Byte
    BY <1>1, <1>2
<1>4. SubSeq(s, 1, r) \in Seq(Byte) /\ Len(SubSeq(s, 1, r)) = IF 1 <= r THEN r - 1 + 1 ELSE 0
    <2>1. 1 \in Int /\ r \in Int
        BY <1>2
    <2> QED BY <2>1, <1>3, SubSeqProperties
<1>5. Len(SubSeq(s, 1, r)) <= ByteMax
    BY <1>2, <1>4
<1> QED BY <1>4, <1>5 DEF StringOption, Option, r

Short(opt) == opt \in OptionType /\ opt.code \notin {DHO_PAD, DHO_END} /\ Len(opt.value) <= 2
Long(opt) == opt \in OptionType /\ opt.code \notin {DHO_PAD, DHO_END} /\ Len(opt.value) <= ByteMax

LEMMA ShortOption ==
    ASSUME NEW c \in 1..8, NEW b \in Byte
    PROVE  Short(Option(c, <<b>>))
<1>1. c \in Byte /\ c \notin {DHO_PAD, DHO_END} /\ <<b>> \in Seq(Byte) /\ Len(<<b>>) = 1
    BY CodesTyped
<1> QED BY <1>1 DEF Short, Option, OptionType

LEMMA NetworkOptions ==
    ASSUME NEW net \in Network, NEW rest \in Byte
    PROVE  /\ Short(Option(DHO_DHCP_SERVER_IDENTIFIER, <<net.server>>))
           /\ Short(Option(DHO_DHCP_LEASE_TIME, <<net.lease_time>>))
           /\ Short(Option(DHO_DHCP_RENEWAL_TIME, <<net.renew_time>>))
           /\ Short(Option(DHO_SUBNET, <<net.netmask>>))
           /\ Short(Option(DHO_ROUTERS, <<net.gateway>>))
           /\ Short(Option(DHO_DOMAIN_NAME_SERVERS, Servers(net, rest)))
           /\ Long(StringOption(DHO_DOMAIN_NAME, net.domain_name))
           /\ \A t \in {2, 5, 6} : Short(Option(DHO_DHCP_MESSAGE_TYPE, <<t>>))
<1>1. /\ net.server \in Byte /\ net.lease_time \in Byte /\ net.renew_time \in Byte
      /\ net.netmask \in Byte /\ net.gateway \in Byte /\ net.nameserver1 \in Byte
      /\ net.nameserver2 \in Byte /\ net.domain_name \in Seq(Byte)
    BY DEF Network
<1>2. /\ Short(Option(DHO_DHCP_SERVER_IDENTIFIER, <<net.server>>))
      /\ Short(Option(DHO_DHCP_LEASE_TIME, <<net.lease_time>>))
      /\ Short(Option(DHO_DHCP_RENEWAL_TIME, <<net.renew_time>>))
      /\ Short(Option(DHO_SUBNET, <<net.netmask>>))
      /\ Short(Option(DHO_ROUTERS, <<net.gateway>>))
    BY <1>1, ShortOption DEF DHO_DHCP_SERVER_IDENTIFIER, DHO_DHCP_LEASE_TIME, DHO_DHCP_RENEWAL_TIME,
                             DHO_SUBNET, DHO_ROUTERS
<1>3. Short(Option(DHO_DOMAIN_NAME_SERVERS, Servers(net, rest)))
    <2> DEFINE y == IF net.nameserver2 # 0 THEN net.nameserver2 ELSE rest
    <2>1. y \in Byte
        BY <1>1
    <2> HIDE DEF y
    <2>2. <<net.nameserver1, y>> \in Seq(Byte) /\ Len(<<net.nameserver1, y>>) = 2
        BY <1>1, <2>1
    <2>3. Servers(net, rest) = <<net.nameserver1, y>>
        BY DEF Servers, y
    <2>4. 8 \in Byte /\ 8 \notin {DHO_PAD, DHO_END}
        BY CodesTyped
    <2> QED BY <2>2, <2>3, <2>4 DEF Short, Option, OptionType, DHO_DOMAIN_NAME_SERVERS
<1>4. Long(StringOption(DHO_DOMAIN_NAME, net.domain_name))
    <2>1. 5 \in Byte /\ 5 \notin {DHO_PAD, DHO_END}
        BY CodesTyped
    <2> DEFINE so == StringOption(5, net.domain_name)
    <2>2. /\ so.code = 5 /\ so.value \in Seq(Byte) /\ Len(so.value) <= ByteMax
          /\ so = [code |-> 5, value |-> so.value]
        BY <1>1, StringFits
    <2> HIDE DEF so
    <2>3. Long(so)
        BY <2>1, <2>2 DEF Long, OptionType
    <2> QED BY <2>3 DEF so, DHO_DOMAIN_NAME
<1>5. \A t \in {2, 5, 6} : Short(Option(DHO_DHCP_MESSAGE_TYPE, <<t>>))
    <2>1. {2, 5, 6} \subseteq Byte /\ 1 \in 1..8
        BY CodesTyped
    <2> QED BY <2>1, ShortOption DEF DHO_DHCP_MESSAGE_TYPE
<1> QED BY <1>2, <1>3, <1>4, <1>5

\* Nothing the daemon sends needs more than 33 bytes beside its domain name.
Fits(opts) == Writable(opts) /\ Len(opts) <= 8 /\ Len(Encoded(opts)) <= 33 + ByteMax

LEMMA FitsOneLong ==
    ASSUME NEW opts, NEW p \in Nat, opts \in Seq(OptionType), Len(opts) <= 8,
           \A i \in 1..Len(opts) : Short(opts[i]) \/ (i = p /\ Long(opts[i]))
    PROVE  Fits(opts)
<1>1. \A i \in 1..Len(opts) : i # p => Len(opts[i].value) <= 2
    BY DEF Short
<1>2. ASSUME NEW i \in 1..Len(opts)
      PROVE  opts[i].code \notin {DHO_PAD, DHO_END} /\ Len(opts[i].value) <= ByteMax
    <2>1. CASE Short(opts[i])
        <3>1. Len(opts[i].value) \in Nat /\ 2 <= ByteMax /\ ByteMax \in Nat
            <4>1. opts[i].value \in Seq(Byte)
                BY <2>1 DEF Short, OptionType
            <4> QED BY <4>1, WireTyped DEF DHO_DOMAIN_NAME_SERVERS
        <3> DEFINE L == Len(opts[i].value)
        <3>2. L <= 2
            BY <2>1 DEF Short
        <3>3. L <= ByteMax
            <4> HIDE DEF L
            <4>1. L \in Nat
                BY <3>1 DEF L
            <4> QED BY <3>1, <3>2, <4>1
        <3> QED BY <2>1, <3>3 DEF Short
    <2>2. CASE Long(opts[i])
        BY <2>2 DEF Long
    <2> QED BY <2>1, <2>2
<1>3. Writable(opts)
    BY <1>2 DEF Writable
<1>4. Len(Encoded(opts)) <= 4 * Len(opts) + ByteMax + 1
    BY <1>1, <1>3, OneLong
<1>5. Len(Encoded(opts)) \in Nat
    <2>1. Encoded(opts) \in Seq(Byte)
        BY <1>3, EncodedBytes
    <2> QED BY <2>1
<1> QED BY <1>3, <1>4, <1>5, OffsetsTyped DEF Fits

LEMMA BuiltFits ==
    ASSUME NEW r \in Built
    PROVE  Fits(r)
<1>1. PICK net \in Network, rest \in Byte :
         r \in {offer_options(net, rest), ack_options(net, rest), ack2_options(net, rest), nak_options(net)}
    BY DEF Built
<1> DEFINE ty(t) == Option(DHO_DHCP_MESSAGE_TYPE, <<t>>)
           id == Option(DHO_DHCP_SERVER_IDENTIFIER, <<net.server>>)
           lease == Option(DHO_DHCP_LEASE_TIME, <<net.lease_time>>)
           renew == Option(DHO_DHCP_RENEWAL_TIME, <<net.renew_time>>)
           dom == StringOption(DHO_DOMAIN_NAME, net.domain_name)
           mask == Option(DHO_SUBNET, <<net.netmask>>)
           gate == Option(DHO_ROUTERS, <<net.gateway>>)
           dns == Option(DHO_DOMAIN_NAME_SERVERS, Servers(net, rest))
<1>2. /\ Short(id) /\ Short(lease) /\ Short(renew) /\ Short(mask) /\ Short(gate) /\ Short(dns)
      /\ Long(dom) /\ Short(ty(2)) /\ Short(ty(5)) /\ Short(ty(6))
    BY NetworkOptions
<1>3. /\ offer_options(net, rest) = <<ty(2), id, lease, renew, dom, mask, gate, dns>>
      /\ ack_options(net, rest) = <<ty(5), id, lease, renew, dom, gate, mask, dns>>
      /\ ack2_options(net, rest) = <<ty(5), id, dom, gate, mask, dns>>
      /\ nak_options(net) = <<ty(6), id>>
    BY DEF offer_options, ack_options, ack2_options, nak_options
<1> HIDE DEF ty, id, lease, renew, dom, mask, gate, dns
<1>4. \A x : Short(x) \/ Long(x) => x \in OptionType
    BY DEF Short, Long
<1>5. Fits(<<ty(2), id, lease, renew, dom, mask, gate, dns>>)
    <2> DEFINE o == <<ty(2), id, lease, renew, dom, mask, gate, dns>>
    <2>1. o \in Seq(OptionType) /\ Len(o) = 8
        BY <1>2, <1>4
    <2>2. \A i \in 1..8 : Short(o[i]) \/ (i = 5 /\ Long(o[i]))
        BY <1>2
    <2> HIDE DEF o
    <2>3. Len(o) <= 8 /\ \A i \in 1..Len(o) : Short(o[i]) \/ (i = 5 /\ Long(o[i]))
        BY <2>1, <2>2
    <2>4. Fits(o)
        BY <2>1, <2>3, 5 \in Nat, FitsOneLong
    <2> QED BY <2>4 DEF o
<1>6. Fits(<<ty(5), id, lease, renew, dom, gate, mask, dns>>)
    <2> DEFINE o == <<ty(5), id, lease, renew, dom, gate, mask, dns>>
    <2>1. o \in Seq(OptionType) /\ Len(o) = 8
        BY <1>2, <1>4
    <2>2. \A i \in 1..8 : Short(o[i]) \/ (i = 5 /\ Long(o[i]))
        BY <1>2
    <2> HIDE DEF o
    <2>3. Len(o) <= 8 /\ \A i \in 1..Len(o) : Short(o[i]) \/ (i = 5 /\ Long(o[i]))
        BY <2>1, <2>2
    <2>4. Fits(o)
        BY <2>1, <2>3, 5 \in Nat, FitsOneLong
    <2> QED BY <2>4 DEF o
<1>7. Fits(<<ty(5), id, dom, gate, mask, dns>>)
    <2> DEFINE o == <<ty(5), id, dom, gate, mask, dns>>
    <2>1. o \in Seq(OptionType) /\ Len(o) = 6
        BY <1>2, <1>4
    <2>2. \A i \in 1..6 : Short(o[i]) \/ (i = 3 /\ Long(o[i]))
        BY <1>2
    <2> HIDE DEF o
    <2>3. Len(o) <= 8 /\ \A i \in 1..Len(o) : Short(o[i]) \/ (i = 3 /\ Long(o[i]))
        BY <2>1, <2>2
    <2>4. Fits(o)
        BY <2>1, <2>3, 3 \in Nat, FitsOneLong
    <2> QED BY <2>4 DEF o
<1>8. Fits(<<ty(6), id>>)
    <2> DEFINE o == <<ty(6), id>>
    <2>1. o \in Seq(OptionType) /\ Len(o) = 2
        BY <1>2, <1>4
    <2>2. \A i \in 1..2 : Short(o[i]) \/ (i = 3 /\ Long(o[i]))
        BY <1>2
    <2> HIDE DEF o
    <2>3. Len(o) <= 8 /\ \A i \in 1..Len(o) : Short(o[i]) \/ (i = 3 /\ Long(o[i]))
        BY <2>1, <2>2
    <2>4. Fits(o)
        BY <2>1, <2>3, 3 \in Nat, FitsOneLong
    <2> QED BY <2>4 DEF o
<1> QED BY <1>1, <1>3, <1>5, <1>6, <1>7, <1>8

----------------------------------------------------------------------------
(* The theorems.                                                            *)

FramesTyped == \A f \in Frames : f.bytes \in Seq(Byte) /\ f.ihl \in Nat

\* The frames whose options are known spell them; the last byte of a message as long as
\* the buffer is none that a length would follow.
FramesSpelled ==
    \A f \in Frames : \A d \in recv_packet(f) : f.meant # Malformed =>
       /\ f.meant \in Seq(OptionType) /\ \E at : SpelledAt(d, f.meant, at)
       /\ Len(d) < BodyMax \/ d[Len(d)] \in {DHO_PAD, DHO_END}

\* The real buffer holds 3856 bytes behind the cookie and 32 options.
RoomForResponses == MaxOptions >= 8 /\ BodyMax >= 33 + ByteMax

BufferTyped == message_buf \in Seq(Byte) /\ Len(message_buf) = BodyMax

LEMMA PayloadTyped ==
    ASSUME FramesTyped, NEW f \in Frames, NEW d \in recv_packet(f)
    PROVE  d \in Seq(Byte) /\ Len(d) <= BodyMax
<1> DEFINE H == HeaderSize(f)
           n == Len(f.bytes)
<1>1. H \in Nat /\ n \in Nat /\ f.bytes \in Seq(Byte)
    BY WireTyped DEF FramesTyped, HeaderSize
<1>2. n >= H /\ n - H <= BodyMax /\ d = SubSeq(f.bytes, H + 1, n)
    BY <1>1, OffsetsTyped DEF recv_packet
<1>3. \A i \in (H + 1)..n : f.bytes[i] \in Byte
    BY <1>1
<1> HIDE DEF H, n
<1>4. d \in Seq(Byte) /\ Len(d) = IF H + 1 <= n THEN n - (H + 1) + 1 ELSE 0
    <2>1. H + 1 \in Int /\ n \in Int
        BY <1>1
    <2> QED BY <2>1, <1>2, <1>3, SubSeqProperties
<1> QED BY <1>1, <1>2, <1>4, OffsetsTyped

LEMMA BuiltWritable ==
    ASSUME RoomForResponses, Responses \subseteq Built, NEW r \in Responses
    PROVE  Writable(r) /\ Len(Encoded(r)) <= BodyMax /\ Len(r) <= MaxOptions
<1>1. Writable(r) /\ Len(r) <= 8 /\ Len(Encoded(r)) <= 33 + ByteMax
    BY BuiltFits DEF Fits
<1>2. Len(r) \in Nat /\ Len(Encoded(r)) \in Nat
    <2>1. Encoded(r) \in Seq(Byte) /\ r \in Seq(OptionType)
        BY <1>1, EncodedBytes DEF Writable
    <2> QED BY <2>1
<1> QED BY <1>1, <1>2, OffsetsTyped DEF RoomForResponses

\* A response of the daemon, in the buffer and as it is sent.
LEMMA Written ==
    ASSUME RoomForResponses, Responses \subseteq Built, NEW r \in Responses,
           NEW buf \in Seq(Byte), Len(buf) = BodyMax
    PROVE  LET u == unmarshall(r, buf)
           IN /\ u.buf \in Seq(Byte) /\ Len(u.buf) = BodyMax
              /\ SubSeq(u.buf, 1, u.length) = Message(r)
<1> DEFINE m == Message(r)
           u == unmarshall(r, buf)
<1>1. Writable(r) /\ Len(Encoded(r)) <= BodyMax
    BY BuiltWritable
<1>2. /\ m \in Seq(Byte) /\ Len(m) \in 1..BodyMax
      /\ Len(m) = IF Len(Encoded(r)) < BodyMin THEN BodyMin ELSE Len(Encoded(r))
    BY <1>1, MessagePadded
<1>3. u.buf = Over(m, buf) /\ u.length = Len(m)
    BY <1>2 DEF unmarshall, Message
<1> HIDE DEF m, u
<1>4. Over(m, buf) \in Seq(Byte) /\ Len(Over(m, buf)) = BodyMax /\ Starts(Over(m, buf), m)
    BY <1>2, OffsetsTyped, OverKeeps
<1> DEFINE b == Over(m, buf)
<1> HIDE DEF b
<1>5. SubSeq(b, 0 + 1, 0 + Len(m)) = m
    <2>1. b \in Seq(Byte) /\ 0 \in Nat /\ 0 + Len(m) <= Len(b)
        BY <1>2, <1>4, OffsetsTyped DEF b
    <2>2. \A j \in 1..Len(m) : b[0 + j] = m[j]
        BY <1>4 DEF Starts, b
    <2> QED BY <1>2, <2>1, <2>2, PartIs
<1>6. 0 + 1 = 1 /\ 0 + Len(m) = Len(m)
    BY <1>2
<1>7. SubSeq(u.buf, 1, u.length) = m
    BY <1>3, <1>5, <1>6 DEF b
<1> QED BY <1>3, <1>4, <1>7 DEF u, m

\* One step keeps the buffer's type.
LEMMA BufferStep ==
    ASSUME FramesTyped, RoomForResponses, Responses \subseteq Built, BufferTyped, [WireNext]_wire_vars
    PROVE  BufferTyped'
<1> USE DEF BufferTyped
<1>1. ASSUME NEW f \in Frames, Receive(f)
      PROVE  BufferTyped'
    <2>1. PICK d \in recv_packet(f) : message_buf' = Over(d, message_buf)
        BY <1>1 DEF Receive
    <2>2. d \in Seq(Byte) /\ Len(d) <= Len(message_buf)
        BY PayloadTyped
    <2> QED BY <2>1, <2>2, OverKeeps
<1>2. ASSUME NEW r \in Responses, Respond(r)
      PROVE  BufferTyped'
    <2>1. message_buf' = unmarshall(r, message_buf).buf
        BY <1>2 DEF Respond
    <2> QED BY <2>1, Written
<1>3. CASE NoResponse
    BY <1>3 DEF NoResponse
<1>4. CASE Restart
    BY <1>4, ZerosTyped, OffsetsTyped DEF Restart
<1>5. CASE UNCHANGED wire_vars
    BY <1>5 DEF wire_vars
<1> QED BY <1>1, <1>2, <1>3, <1>4, <1>5 DEF WireNext

\* The message buffer keeps its size: main_loop writes nothing behind message_buf,
\* whatever arrives and whichever response of the daemon is built (a domain name that
\* is too long for an option included).
THEOREM BufferKept ==
    ASSUME FramesTyped, RoomForResponses, Responses \subseteq Built
    PROVE  WireSpec => []BufferTyped
<1>1. WireInit => BufferTyped
    BY ZerosTyped, OffsetsTyped DEF WireInit, BufferTyped
<1>2. BufferTyped /\ [WireNext]_wire_vars => BufferTyped'
    BY BufferStep
<1> QED BY <1>1, <1>2, PTL DEF WireSpec

\* A request is read as its sender meant it (DHCP_Packet::marshall): for frames that spell
\* options, with pads or not and an end mark or not, the options are read up to the limit
\* whatever earlier messages left in the buffer.
THEOREM RequestsRead ==
    ASSUME FramesTyped, FramesSpelled, RoomForResponses, Responses \subseteq Built
    PROVE  WireSpec => []RequestAsMeant
<1> DEFINE Inv == BufferTyped /\ RequestAsMeant
<1>1. WireInit => Inv
    BY ZerosTyped, OffsetsTyped DEF WireInit, BufferTyped, RequestAsMeant
<1>2. Inv /\ [WireNext]_wire_vars => Inv'
    <2> SUFFICES ASSUME Inv, [WireNext]_wire_vars
                 PROVE  RequestAsMeant'
        BY BufferStep
    <2>1. ASSUME NEW f \in Frames, Receive(f)
          PROVE  RequestAsMeant'
        <3>1. PICK d \in recv_packet(f) :
                 /\ message_buf' = Over(d, message_buf)
                 /\ IF check_magic_cookie(f)
                    THEN request' = marshall(message_buf', Len(d)) /\ meant' = f.meant
                    ELSE UNCHANGED <<request, meant>>
            BY <2>1 DEF Receive
        <3>2. CASE ~check_magic_cookie(f)
            BY <3>1, <3>2, <2>1 DEF Receive, RequestAsMeant
        <3>3. CASE check_magic_cookie(f) /\ f.meant # Malformed
            <4>1. d \in Seq(Byte) /\ Len(d) <= BodyMax
                BY PayloadTyped
            <4> DEFINE b == Over(d, message_buf)
                       w == f.meant
            <4>2. b \in Seq(Byte) /\ Len(b) = BodyMax /\ Starts(b, d)
                BY <4>1, OverKeeps DEF BufferTyped
            <4>3. /\ w \in Seq(OptionType) /\ \E at : SpelledAt(d, w, at)
                  /\ Len(d) < BodyMax \/ d[Len(d)] \in {DHO_PAD, DHO_END}
                BY <3>1, <3>3 DEF FramesSpelled
            <4> HIDE DEF b, w
            <4>4. PICK at : SpelledAt(d, w, at)
                BY <4>3
            <4>5. Readable(b, Len(d))
                <5>1. Len(d) \in Nat
                    BY <4>1
                <5>2. CASE Len(d) < BodyMax
                    BY <5>1, <5>2, <4>1, <4>2, OffsetsTyped DEF Readable
                <5>3. CASE ~(Len(d) < BodyMax)
                    <6>1. Len(d) \in 1..Len(d) /\ Len(d) = BodyMax
                        BY <5>1, <5>3, <4>1, WireTyped
                    <6>2. b[Len(d)] = d[Len(d)]
                        BY <6>1, <4>2 DEF Starts
                    <6> QED BY <5>3, <6>1, <6>2, <4>2, <4>3, OffsetsTyped DEF Readable
                <5> QED BY <5>2, <5>3
            <4>6. marshall(b, Len(d)) = Rest(w, 1, 0)
                BY <4>1, <4>2, <4>3, <4>4, <4>5, ReadsSpelled
            <4>7. Until(w, 1, 0) = IF Len(w) < MaxOptions THEN Len(w) ELSE MaxOptions
                BY <4>3, OffsetsTyped DEF Until
            <4>8. request' = SubSeq(w, 1, IF Len(w) < MaxOptions THEN Len(w) ELSE MaxOptions)
                BY <3>1, <3>3, <4>6, <4>7 DEF Rest, b
            <4> QED BY <3>1, <3>3, <4>8 DEF RequestAsMeant, w
        <3>4. CASE check_magic_cookie(f) /\ f.meant = Malformed
            BY <3>1, <3>4 DEF RequestAsMeant
        <3> QED BY <3>2, <3>3, <3>4
    <2>2. ASSUME NEW r \in Responses, Respond(r)
          PROVE  RequestAsMeant'
        BY <2>2 DEF Respond, RequestAsMeant
    <2>3. CASE NoResponse
        BY <2>3 DEF NoResponse, RequestAsMeant
    <2>4. CASE Restart
        BY <2>4 DEF Restart, RequestAsMeant
    <2>5. CASE UNCHANGED wire_vars
        BY <2>5 DEF wire_vars, RequestAsMeant
    <2> QED BY <2>1, <2>2, <2>3, <2>4, <2>5 DEF WireNext
<1> QED BY <1>1, <1>2, PTL DEF WireSpec

\* A response is sent as it was built (DHCP_Packet::unmarshall): its options can be read
\* back, it has the shortest length at least, and behind its end mark there are zeros only,
\* not what an earlier message left in the buffer.
THEOREM ResponsesSent ==
    ASSUME FramesTyped, RoomForResponses, Responses \subseteq Built
    PROVE  WireSpec => []ResponseAsBuilt
<1> DEFINE Latest == response # NoPacket => response \in Responses /\ sent = Message(response)
           Inv == BufferTyped /\ Latest
<1>1. WireInit => Inv
    BY ZerosTyped, OffsetsTyped DEF WireInit, BufferTyped
<1>2. Inv /\ [WireNext]_wire_vars => Inv'
    <2> SUFFICES ASSUME Inv, [WireNext]_wire_vars
                 PROVE  Latest'
        BY BufferStep
    <2>1. ASSUME NEW f \in Frames, Receive(f)
          PROVE  Latest'
        BY <2>1 DEF Receive
    <2>2. ASSUME NEW r \in Responses, Respond(r)
          PROVE  Latest'
        <3>1. /\ response' = r
              /\ sent' = SubSeq(unmarshall(r, message_buf).buf, 1, unmarshall(r, message_buf).length)
            BY <2>2 DEF Respond
        <3>2. sent' = Message(r)
            BY <3>1, Written DEF BufferTyped
        <3> QED BY <3>1, <3>2
    <2>3. CASE NoResponse
        BY <2>3 DEF NoResponse
    <2>4. CASE Restart
        BY <2>4 DEF Restart
    <2>5. CASE UNCHANGED wire_vars
        BY <2>5 DEF wire_vars
    <2> QED BY <2>1, <2>2, <2>3, <2>4, <2>5 DEF WireNext
<1>3. Inv => ResponseAsBuilt
    <2> SUFFICES ASSUME Inv, response # NoPacket
                 PROVE  /\ marshall(Over(sent, Zeros(BodyMax)), Len(sent)) = response
                        /\ Len(sent) >= BodyMin
                        /\ \A i \in (Len(Encoded(response)) + 1)..Len(sent) : sent[i] = 0
        BY DEF ResponseAsBuilt
    <2>1. response \in Responses /\ sent = Message(response)
        OBVIOUS
    <2>2. PICK r \in Responses : r = response
        BY <2>1
    <2>3. Writable(r) /\ Len(Encoded(r)) <= BodyMax /\ Len(r) <= MaxOptions
        BY BuiltWritable
    <2>4. marshall(Over(Message(r), Zeros(BodyMax)), Len(Message(r))) = r
        BY <2>3, MessageReadBack
    <2>5. Len(Message(r)) >= BodyMin /\ \A i \in (Len(Encoded(r)) + 1)..Len(Message(r)) : Message(r)[i] = 0
        BY <2>3, MessagePadded
    <2> QED BY <2>1, <2>2, <2>4, <2>5
<1> QED BY <1>1, <1>2, <1>3, PTL DEF WireSpec
=============================================================================
