----------------------------- MODULE Md5Process -----------------------------
(***************************************************************************)
(* tools/md5.c: what md5_process makes of the blocks.  A 32-bit word is a   *)
(* pair <<high, low>> of 16-bit numbers.                                    *)
(***************************************************************************)
EXTENDS Md5, SequencesExt, Bitwise

Half == 65536
Plus(x, y) ==
    <<(x[1] + y[1] + (x[2] + y[2]) \div Half) % Half, (x[2] + y[2]) % Half>>
And2(x, y) == <<x[1] & y[1], x[2] & y[2]>>
Or2(x, y) == <<x[1] | y[1], x[2] | y[2]>>
Xor2(x, y) == <<x[1] ^^ y[1], x[2] ^^ y[2]>>
Not2(x) == <<Half - 1 - x[1], Half - 1 - x[2]>>

\* Mutant: a rotation by half a word does nothing.
ROTATE_LEFT_half(x, n) ==
    LET y == IF n > 16 THEN <<x[2], x[1]>> ELSE x
        s == n % 16
    IN <<(y[1] * 2^s + y[2] \div 2^(16 - s)) % Half, (y[2] * 2^s + y[1] \div 2^(16 - s)) % Half>>

ROTATE_LEFT(x, n) ==
    LET y == IF n >= 16 THEN <<x[2], x[1]>> ELSE x
        s == n % 16
    IN <<(y[1] * 2^s + y[2] \div 2^(16 - s)) % Half, (y[2] * 2^s + y[1] \div 2^(16 - s)) % Half>>

T == <<
  <<\hd76a, \ha478>>, <<\he8c7, \hb756>>, <<\h2420, \h70db>>, <<\hc1bd, \hceee>>,
  <<\hf57c, \h0faf>>, <<\h4787, \hc62a>>, <<\ha830, \h4613>>, <<\hfd46, \h9501>>,
  <<\h6980, \h98d8>>, <<\h8b44, \hf7af>>, <<\hffff, \h5bb1>>, <<\h895c, \hd7be>>,
  <<\h6b90, \h1122>>, <<\hfd98, \h7193>>, <<\ha679, \h438e>>, <<\h49b4, \h0821>>,
  <<\hf61e, \h2562>>, <<\hc040, \hb340>>, <<\h265e, \h5a51>>, <<\he9b6, \hc7aa>>,
  <<\hd62f, \h105d>>, <<\h0244, \h1453>>, <<\hd8a1, \he681>>, <<\he7d3, \hfbc8>>,
  <<\h21e1, \hcde6>>, <<\hc337, \h07d6>>, <<\hf4d5, \h0d87>>, <<\h455a, \h14ed>>,
  <<\ha9e3, \he905>>, <<\hfcef, \ha3f8>>, <<\h676f, \h02d9>>, <<\h8d2a, \h4c8a>>,
  <<\hfffa, \h3942>>, <<\h8771, \hf681>>, <<\h6d9d, \h6122>>, <<\hfde5, \h380c>>,
  <<\ha4be, \hea44>>, <<\h4bde, \hcfa9>>, <<\hf6bb, \h4b60>>, <<\hbebf, \hbc70>>,
  <<\h289b, \h7ec6>>, <<\heaa1, \h27fa>>, <<\hd4ef, \h3085>>, <<\h0488, \h1d05>>,
  <<\hd9d4, \hd039>>, <<\he6db, \h99e5>>, <<\h1fa2, \h7cf8>>, <<\hc4ac, \h5665>>,
  <<\hf429, \h2244>>, <<\h432a, \hff97>>, <<\hab94, \h23a7>>, <<\hfc93, \ha039>>,
  <<\h655b, \h59c3>>, <<\h8f0c, \hcc92>>, <<\hffef, \hf47d>>, <<\h8584, \h5dd1>>,
  <<\h6fa8, \h7e4f>>, <<\hfe2c, \he6e0>>, <<\ha301, \h4314>>, <<\h4e08, \h11a1>>,
  <<\hf753, \h7e82>>, <<\hbd3a, \hf235>>, <<\h2ad7, \hd2bb>>, <<\heb86, \hd391>> >>

\* The steps of a round: its function, the word of the block it takes, its shift.
Mix(r, x, y, z) ==
    CASE r = 1 -> Or2(And2(x, y), And2(Not2(x), z))
      [] r = 2 -> Or2(And2(x, z), And2(y, Not2(z)))
      [] r = 3 -> Xor2(Xor2(x, y), z)
      [] r = 4 -> Xor2(y, Or2(x, Not2(z)))
WordOf(r, i) == (<<i, 5 * i + 1, 3 * i + 5, 7 * i>>[r]) % 16
Shift(r, i) ==
    <<<<7, 12, 17, 22>>, <<5, 9, 14, 20>>, <<4, 11, 16, 23>>, <<6, 10, 15, 21>>>>[r][1 + (i % 4)]

\* Bytes are in little-endian order.
BlockWord(block, k) ==
    <<block[4 * k + 4] * 256 + block[4 * k + 3], block[4 * k + 2] * 256 + block[4 * k + 1]>>

\* One SET, after which the registers change places: <<a, b, c, d>> in, and out
\* the new ones in the order the next SET names them.
SET(block, w, n) ==
    LET r == 1 + n \div 16
        t == Plus(Plus(w[1], Mix(r, w[2], w[3], w[4])),
                  Plus(BlockWord(block, WordOf(r, n)), T[n + 1]))
    IN <<w[4], Plus(ROTATE_LEFT(t, Shift(r, n)), w[2]), w[2], w[3]>>

md5_process(abcd, block) ==
    LET after == FoldLeft(LAMBDA w, n : SET(block, w, n), abcd, [n \in 1..64 |-> n - 1])
    IN [i \in 1..4 |-> Plus(abcd[i], after[i])]

InitialWords == <<<<\h6745, \h2301>>, <<\hefcd, \hab89>>, <<\h98ba, \hdcfe>>, <<\h1032, \h5476>>>>

WordBytes(w) == <<w[2] % 256, w[2] \div 256, w[1] % 256, w[1] \div 256>>

Digest(blocks) ==
    LET abcd == FoldLeft(md5_process, InitialWords, blocks)
    IN WordBytes(abcd[1]) \o WordBytes(abcd[2]) \o WordBytes(abcd[3]) \o WordBytes(abcd[4])
=============================================================================
