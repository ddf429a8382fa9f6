------------------------------- MODULE RcLine -------------------------------
(***************************************************************************)
(* dsApprc::_add (share/dsApprc.cxx): the characters of an assignment.  A   *)
(* line is a sequence of one-character strings, without '$' (variables are  *)
(* in RcFile); "\" is written "e" and stands for the backslash.             *)
(***************************************************************************)
EXTENDS Integers, Sequences

Backslash == "e"
Blank == {" "}

\* What a backslash and a character stand for.  The label of the default case is
\* misspelt, so that any other character is dropped.
Escape(c) ==
    IF c = "n" THEN <<"LF">> ELSE IF c \in {"{", "}", Backslash} THEN <<c>> ELSE <<>>

\* Trailing spaces are cut off.
TrimRight(line) ==
    LET keep == {i \in DOMAIN line : line[i] \notin Blank}
    IN SubSeq(line, 1, IF keep = {} THEN 0 ELSE CHOOSE i \in keep : \A j \in keep : j <= i)

\* st: which of key and val is written, the depth of braces, a backslash was read,
\* the spaces at the start of the value are being skipped, a brace was unbalanced.
Start == [key |-> <<>>, val |-> <<>>, inval |-> FALSE, lit |-> 0, esc |-> FALSE,
          skip |-> FALSE, throw |-> FALSE]

Put(st, s) ==
    IF st.inval THEN [st EXCEPT !.val = @ \o s, !.skip = FALSE]
    ELSE [st EXCEPT !.key = @ \o s]

\* Mutant: spaces of a key are dropped inside braces, too.
Take_spaces(st, c) ==
    IF st.throw THEN st
    ELSE IF st.esc THEN [Put(st, Escape(c)) EXCEPT !.esc = FALSE]
    ELSE IF c = Backslash THEN [st EXCEPT !.esc = TRUE, !.skip = FALSE]
    ELSE IF c = "{" THEN [st EXCEPT !.lit = @ + 1, !.skip = FALSE]
    ELSE IF c = "}" THEN [st EXCEPT !.lit = @ - 1, !.skip = FALSE, !.throw = st.lit = 0]
    ELSE IF c \in Blank /\ (st.skip \/ ~st.inval) THEN st
    ELSE IF c = "=" /\ st.lit = 0 /\ ~st.inval THEN [st EXCEPT !.inval = TRUE, !.skip = TRUE]
    ELSE Put(st, <<c>>)
\* Mutant: an '=' in braces separates the key, too.
Take_equals(st, c) ==
    IF st.throw THEN st
    ELSE IF st.esc THEN [Put(st, Escape(c)) EXCEPT !.esc = FALSE]
    ELSE IF c = Backslash THEN [st EXCEPT !.esc = TRUE, !.skip = FALSE]
    ELSE IF c = "{" THEN [st EXCEPT !.lit = @ + 1, !.skip = FALSE]
    ELSE IF c = "}" THEN [st EXCEPT !.lit = @ - 1, !.skip = FALSE, !.throw = st.lit = 0]
    ELSE IF c \in Blank /\ (st.skip \/ (st.lit = 0 /\ ~st.inval)) THEN st
    ELSE IF c = "=" /\ ~st.inval THEN [st EXCEPT !.inval = TRUE, !.skip = TRUE]
    ELSE Put(st, <<c>>)

\* One character of the line.
Take(st, c) ==
    IF st.throw THEN st
    ELSE IF st.esc THEN [Put(st, Escape(c)) EXCEPT !.esc = FALSE]
    ELSE IF c = Backslash THEN [st EXCEPT !.esc = TRUE, !.skip = FALSE]
    ELSE IF c = "{" THEN [st EXCEPT !.lit = @ + 1, !.skip = FALSE]
    ELSE IF c = "}" THEN [st EXCEPT !.lit = @ - 1, !.skip = FALSE, !.throw = st.lit = 0]
    ELSE IF c \in Blank /\ (st.skip \/ (st.lit = 0 /\ ~st.inval)) THEN st
    ELSE IF c = "=" /\ st.lit = 0 /\ ~st.inval THEN [st EXCEPT !.inval = TRUE, !.skip = TRUE]
    ELSE Put(st, <<c>>)

\* What a line assigns to what, as a set; nothing when it throws.
_add(line) ==
    LET trimmed == TrimRight(line)
        Upto[i \in 0..Len(trimmed)] == IF i = 0 THEN Start ELSE Take(Upto[i - 1], trimmed[i])
        st == Upto[Len(trimmed)]
    IN IF st.throw \/ ~st.inval \/ st.lit # 0 THEN {} ELSE {[key |-> st.key, val |-> st.val]}

\* The line dump writes for an entry: braces around what has a space.
dump(key, val) ==
    LET Braced(s) == IF \E i \in DOMAIN s : s[i] = " " THEN <<"{">> \o s \o <<"}">> ELSE s
    IN Braced(key) \o <<"=">> \o Braced(val)
=============================================================================
