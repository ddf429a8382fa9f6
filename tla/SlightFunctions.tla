--------------------------- MODULE SlightFunctions ---------------------------
(***************************************************************************)
(* The base64, hexadecimal and quoted-printable conversions of              *)
(* share/dsSlightFunctions.cxx, those that write to a stream.  Texts and    *)
(* data are sequences of bytes with a zero byte behind them.  A decoder     *)
(* that reads what is behind its text has no result: the results of those   *)
(* that may are sets with at most one element.                              *)
(***************************************************************************)
EXTENDS Integers, Sequences

XX == -2    \* not a character of the code
ES == -3    \* '='

Pad == 61
LF == 10

dtable(d) ==
    IF d < 26 THEN 65 + d ELSE IF d < 52 THEN 71 + d ELSE IF d < 62 THEN d - 4
    ELSE IF d = 62 THEN 43 ELSE 47

index_64(c) ==
    IF c \in 65..90 THEN c - 65 ELSE IF c \in 97..122 THEN c - 71 ELSE IF c \in 48..57 THEN c + 4
    ELSE IF c = 43 THEN 62 ELSE IF c = 47 THEN 63 ELSE IF c = Pad THEN ES ELSE XX

\* Mutant: a group of two has all its four characters.
Group_full(ig, n) ==
    <<dtable(ig[1] \div 4), dtable((ig[1] % 4) * 16 + ig[2] \div 16),
      IF n > 1 THEN dtable((ig[2] % 16) * 4 + ig[3] \div 64) ELSE Pad,
      IF n > 1 THEN dtable(ig[3] % 64) ELSE Pad>>

\* The characters for three bytes, of which n are there.
Group(ig, n) ==
    <<dtable(ig[1] \div 4), dtable((ig[1] % 4) * 16 + ig[2] \div 16),
      IF n > 1 THEN dtable((ig[2] % 16) * 4 + ig[3] \div 64) ELSE Pad,
      IF n > 2 THEN dtable(ig[3] % 64) ELSE Pad>>

\* It ends behind the data, when they are whole groups, and at a zero byte.
dsEncodeBase64(src) ==
    LET Ends(i) == (\A j \in 1..i : src[j] # 0) /\ (i = Len(src) \/ src[i + 1] = 0)
        end == CHOOSE i \in 0..Len(src) : Ends(i)
        groups == IF end = Len(src) /\ end % 3 = 0 THEN end \div 3 ELSE end \div 3 + 1
        At(i) == IF i <= end THEN src[i] ELSE 0
        Chars(k) == Group([j \in 1..3 |-> At(3 * k - 3 + j)], IF 3 * k <= end THEN 3 ELSE end % 3)
    IN [i \in 1..(4 * groups) |-> Chars((i + 3) \div 4)[((i - 1) % 4) + 1]]

\* The bytes of four characters; '=' ends them.
Ungroup(c) ==
    IF ES \in {c[1], c[2]} THEN <<>>
    ELSE SubSeq(<<c[1] * 4 + c[2] \div 16, (c[2] % 16) * 16 + c[3] \div 4, (c[3] % 4) * 64 + c[4]>>,
                1, IF c[3] = ES THEN 1 ELSE IF c[4] = ES THEN 2 ELSE 3)

\* Other characters are passed over, but for those behind the last group.
dsDecodeBase64(text) ==
    LET Kept[i \in 0..Len(text)] ==
            IF i = 0 THEN <<>>
            ELSE IF index_64(text[i]) = XX THEN Kept[i - 1] ELSE Append(Kept[i - 1], text[i])
        t == Kept[Len(text)]
        Four(k) == [j \in 1..4 |-> index_64(t[4 * k - 4 + j])]
        whole == Len(t) \div 4
        ending == {k \in 1..whole : \E j \in 1..4 : Four(k)[j] = ES}
        astray == Len(t) % 4 # 0 \/ (text # <<>> /\ index_64(text[Len(text)]) = XX)
        Bytes[k \in 0..whole] ==
            IF k = 0 THEN <<>>
            ELSE IF \E j \in ending : j < k THEN Bytes[k - 1] ELSE Bytes[k - 1] \o Ungroup(Four(k))
    IN IF ending = {} /\ astray THEN {} ELSE {Bytes[whole]}

\* Capital letters only: others are not told apart from characters behind 'F'.  A
\* character is signed, and one above 127 less than any digit; what is counted for it
\* here differs by 256, which HexByte leaves out.
HexValue(c) == IF c <= 57 \/ c >= 128 THEN c - 48 ELSE c - 55
HexByte(c1, c2) == (16 * HexValue(c1) + HexValue(c2)) % 256
HexDigit(d) == IF d >= 10 THEN 55 + d ELSE 48 + d

dsEncodeHex(data) ==
    [i \in 1..(2 * Len(data)) |->
        HexDigit(IF i % 2 = 1 THEN data[(i + 1) \div 2] \div 16 ELSE data[i \div 2] % 16)]

\* The last character of an odd number of them is read with the zero byte behind it.
dsDecodeHex(text) ==
    LET Second(i) == IF 2 * i <= Len(text) THEN text[2 * i] ELSE 0
    IN [i \in 1..((Len(text) + 1) \div 2) |-> HexByte(text[2 * i - 1], Second(i))]

\* One character.  st: what is written, and how many characters belong to the last '='.
ReadQ(text, st, i) ==
    IF st.skip > 0 THEN [st EXCEPT !.skip = @ - 1]
    ELSE IF text[i] = Pad /\ i = Len(text) THEN [st EXCEPT !.skip = 1]
    ELSE IF text[i] = Pad /\ text[i + 1] = LF THEN [st EXCEPT !.skip = 1]
    ELSE IF text[i] = Pad /\ i + 1 = Len(text) THEN [st EXCEPT !.skip = 2]
    ELSE IF text[i] = Pad THEN [out |-> Append(st.out, HexByte(text[i + 1], text[i + 2])), skip |-> 2]
    ELSE [st EXCEPT !.out = Append(@, IF text[i] = 95 THEN 32 ELSE text[i])]

dsDecodeQ(text) ==
    LET Upto[i \in 0..Len(text)] ==
            IF i = 0 THEN [out |-> <<>>, skip |-> 0] ELSE ReadQ(text, Upto[i - 1], i)
        end == Upto[Len(text)]
    IN IF end.skip > 0 THEN {} ELSE {end.out}
=============================================================================
