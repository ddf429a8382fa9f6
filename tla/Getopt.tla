------------------------------- MODULE Getopt -------------------------------
(***************************************************************************)
(* dsGetopt (share/dsGetopt.cxx) and the loop of main() over the options    *)
(* (main.cxx).  A word of the command line is a sequence of one-character   *)
(* strings; argv is the sequence of words behind the name of the program.   *)
(***************************************************************************)
EXTENDS Integers, Sequences

\* "hc:di:k"
Letters == {"h", "c", "d", "i", "k"}
NeedsArgument == {"c", "i"}

\* The scanner: the word it is at, where in it the next character is (0 when _place is at
\* the end of a word), and what next returned: a letter with its argument, "EOF", "throw".
Scanner(optind, place, ret, optarg) ==
    [optind |-> optind, place |-> place, ret |-> ret, optarg |-> optarg]

NewGetopt == Scanner(1, 0, "", <<>>)

\* Mutant: the word that was the argument is looked at again.
Argument_again(argv, optind, place, c) ==
    IF place # 0 THEN Scanner(optind + 1, 0, c, SubSeq(argv[optind], place, Len(argv[optind])))
    ELSE IF optind + 1 > Len(argv) THEN Scanner(optind + 1, 0, "throw", <<>>)
    ELSE Scanner(optind + 1, 0, c, argv[optind + 1])

\* The rest of the word, or the next word whatever it looks like.
Argument(argv, optind, place, c) ==
    IF place # 0 THEN Scanner(optind + 1, 0, c, SubSeq(argv[optind], place, Len(argv[optind])))
    ELSE IF optind + 1 > Len(argv) THEN Scanner(optind + 1, 0, "throw", <<>>)
    ELSE Scanner(optind + 2, 0, c, argv[optind + 1])

\* ++_optind when the word is used up.
Past(optind, place) == IF place = 0 THEN optind + 1 ELSE optind

Letter(argv, optind, i) ==
    LET c == argv[optind][i]
        place == IF i < Len(argv[optind]) THEN i + 1 ELSE 0
    IN IF c = "-" THEN Scanner(optind, place, "EOF", <<>>)
       ELSE IF c \notin Letters THEN Scanner(Past(optind, place), place, "throw", <<>>)
       ELSE IF c \notin NeedsArgument THEN Scanner(Past(optind, place), place, c, <<>>)
       ELSE Argument(argv, optind, place, c)

\* A word of options begins with '-'; "-" alone is taken for a letter, and any word that
\* begins with "--" ends the options.
next(argv, g) ==
    LET word == IF g.optind > Len(argv) THEN <<>> ELSE argv[g.optind]
    IN IF g.place # 0 THEN Letter(argv, g.optind, g.place)
       ELSE IF word = <<>> \/ word[1] # "-" THEN Scanner(g.optind, 0, "EOF", <<>>)
       ELSE IF Len(word) > 1 /\ word[2] = "-" THEN Scanner(g.optind + 1, 0, "EOF", <<>>)
       ELSE Letter(argv, g.optind, IF Len(word) > 1 THEN 2 ELSE 1)

\* One turn of main()'s loop; m.run is "usage" or "exit" when main() ends with it.
NoOptions == [config |-> {}, interface |-> {}, daemonise |-> FALSE, run |-> "next"]

Turn(m, g) ==
    IF g.ret = "EOF"
    THEN [m EXCEPT !.run = IF m.config = {} \/ m.interface = {} THEN "exit" ELSE "start"]
    ELSE IF g.ret = "c" THEN [m EXCEPT !.config = {g.optarg}]
    ELSE IF g.ret = "i" THEN [m EXCEPT !.interface = {g.optarg}]
    ELSE IF g.ret = "d" THEN [m EXCEPT !.daemonise = TRUE]
    ELSE [m EXCEPT !.run = "usage"]

Looped(argv, s) ==
    IF s.m.run # "next" THEN s
    ELSE LET g == next(argv, s.g) IN [g |-> g, m |-> Turn(s.m, g)]

\* Every call of next but the last takes a character at least.
main_options(argv) ==
    LET Chars[i \in 0..Len(argv)] == IF i = 0 THEN 0 ELSE Chars[i - 1] + Len(argv[i])
        Loop[i \in 0..(Chars[Len(argv)] + 1)] ==
            IF i = 0 THEN [g |-> NewGetopt, m |-> NoOptions] ELSE Looped(argv, Loop[i - 1])
    IN Loop[Chars[Len(argv)] + 1].m
=============================================================================
