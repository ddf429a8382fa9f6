-------------------------------- MODULE RcFile --------------------------------
(***************************************************************************)
(* dsApprc::load (share/dsApprc.cxx): an rc file is read line by line into  *)
(* the hash table, with .if/.else/.endif blocks, includes, variables and    *)
(* array keys.  A line is what it says, not its characters (RcLine models   *)
(* those); lines fit the buffer and end with a newline.  A key is the       *)
(* sequence of its parts: "subnet-lan-addr" is <<"subnet", "lan", "addr">>. *)
(***************************************************************************)
EXTENDS HashTable

CONSTANTS
    File,           \* file names; main is the one on the command line
    MainFile,
    Contents,       \* what may be in the files: a set of functions from File
    Environment,    \* getenv, a function from the variables that are set
    MaxInclude,     \* MAX_INCLUDE_LEVEL
    IgnoreSize      \* the length of ignore[]

ASSUME MainIsFile == MainFile \in File
ASSUME LimitsTyped == MaxInclude \in Nat /\ IgnoreSize \in Nat \ {0}

VARIABLES
    files,          \* the text of the files
    h,              \* the hash table _h
    recursion_cnt,
    frames,         \* the activations of load(istream), innermost last
    outcome,        \* "loading", "loaded", "throw", or "overrun": a write behind ignore[]
    dict            \* history: what the assignments in force say, by their meaning

rc_vars == <<files, h, recursion_cnt, frames, outcome, dict>>

Decimal(n) == <<"0", "1", "2", "3", "4", "5", "6", "7", "8", "9">>[n + 1]
Decimal02(n) == <<"00", "01", "02", "03", "04", "05", "06", "07", "08", "09">>[n + 1]
atol(s) == IF \E n \in 0..9 : s = Decimal(n) THEN CHOOSE n \in 0..9 : s = Decimal(n) ELSE 0

\* The keys an array element goes to: name-NN and name-count.
ElementKey(name, n) == Append(name, Decimal02(n))
CountKey(name) == Append(name, "count")
FileKey == <<".file">>

\* The keys that are assigned to are keys of the table.
ArrayKeys(k) == {CountKey(k)} \cup {ElementKey(k, n) : n \in 0..9}
Assigns(l) == IF l.array THEN ArrayKeys(l.key) ELSE {l.key}
ASSUME FileKeys == ArrayKeys(FileKey) \subseteq Key
ASSUME TextsTyped ==
    \A c \in Contents, f \in File :
       /\ Len(c[f]) \in Nat
       /\ \A i \in 1..Len(c[f]) : c[f][i].op = "set" => Assigns(c[f][i]) \subseteq Key

----------------------------------------------------------------------------
(* Variables and conditions.                                                *)

\* An operand is a literal (var is <<>>), $var, or $$var, which falls back on the
\* environment.
Literal(s) == [var |-> <<>>, env |-> FALSE, lit |-> s]

\* Null stands for "Undefined variable", an exception.
expand_var(t, o) ==
    IF Lookup(t, o.var) # Null THEN Lookup(t, o.var)
    ELSE IF o.env /\ o.var \in DOMAIN Environment THEN Environment[o.var] ELSE Null

Operand(t, o) == IF o.var = <<>> THEN o.lit ELSE expand_var(t, o)

\* A condition is a sequence of comparisons [lh, eq, rh, join], where join says what
\* follows, "&&", "||" or "end", and rh is what the code takes for the right-hand
\* side: what is behind the operator and one more character, a blank or not.  A
\* condition that cannot be read (a comparison without an operator, or with a single
\* "=") is the empty sequence.  The right-hand side of each is searched for the first
\* "&&", then what is before it for "||"; the value of the rest is combined with the
\* sense of the comparison (== or !=), not with its result.
expand_condition(t, c) ==
    LET Value[i \in 1..Len(c), j \in 1..Len(c)] ==
            LET first(k, join) == c[k].join = join /\ \A m \in i..(k - 1) : c[m].join # join
                ands == {k \in i..(j - 1) : first(k, "&&")}
                upto == IF ands = {} THEN j ELSE Min(ands)
                ors == {k \in i..(upto - 1) : first(k, "||")}
                sense == (c[i].eq /\ \A k \in ands : Value[k + 1, j])
                            \/ \E k \in ors : Value[k + 1, upto]
            IN sense <=> (Operand(t, c[i].lh) = c[i].rh)
    IN Value[1, Len(c)]

\* An exception: the condition cannot be read, or has an undefined variable.
Undefined(t, c) == c = <<>> \/ \E i \in DOMAIN c : Operand(t, c[i].lh) = Null

----------------------------------------------------------------------------
(* The lines.                                                               *)

Top == frames[Len(frames)]
SetTop(f) == frames' = [frames EXCEPT ![Len(frames)] = f]
Line == files[Top.file][Top.pos]
NextLine == [Top EXCEPT !.pos = @ + 1]
Advanced == [frames EXCEPT ![Len(frames)] = NextLine]

\* Reading a line.
Reading(op) ==
    /\ outcome = "loading"
    /\ Top.pos <= Len(files[Top.file])
    /\ Line.op = op

Throw == outcome' = "throw" /\ UNCHANGED <<files, h, recursion_cnt, frames, dict>>

\* The reference: line j of text F is in force when every .if around it holds, or
\* fails and is followed by .else in its block.  An .else outside every block
\* turns the rest of the file off, and on again.  truth is the set of the .if lines
\* whose condition held, a history variable of the frame.
Depth(F, i) ==
    Cardinality({m \in 1..i : F[m].op = "if"}) - Cardinality({m \in 1..i : F[m].op = "endif"})
Around(F, j) ==
    {i \in 1..(j - 1) : F[i].op = "if" /\ \A m \in i..(j - 1) : Depth(F, m) >= Depth(F, i)}
Elses(F, i, j, d) == {m \in (i + 1)..(j - 1) : F[m].op = "else" /\ Depth(F, m) = d}
Odd(S) == Cardinality(S) % 2 = 1
InForce(F, j, truth) ==
    /\ ~Odd(Elses(F, 0, j, 0))
    /\ \A i \in Around(F, j) : i \in truth <=> ~Odd(Elses(F, i, j, Depth(F, i)))

Ignored(f) == \E i \in 0..f.lev : f.ignore[i]

\* Store a value under its key, or as the next element of an array: the outcome, as
\* a set of one.
_add2(t, k, v, array) ==
    IF ~array THEN {insert(t, k, v)}
    ELSE {IF first.throw THEN first
          ELSE insert(first.table, CountKey(k), Decimal(atol(Lookup(t, CountKey(k))) + 1)) :
            first \in {insert(t, ElementKey(k, atol(Lookup(t, CountKey(k)))), v)}}

\* What the assignment means for a dictionary.
Assign(d, k, v, array) ==
    IF ~array THEN [d EXCEPT ![k] = v]
    ELSE LET n == atol(d[CountKey(k)])
         IN [d EXCEPT ![ElementKey(k, n)] = v, ![CountKey(k)] = Decimal(n + 1)]

\* Store in the table and go on with the frames fs, unless the table throws.
Store(k, v, array, fs) ==
    \E r \in _add2(h, k, v, array) :
       IF r.throw THEN outcome' = "throw" /\ UNCHANGED <<h, frames>>
       ELSE h' = r.table /\ frames' = fs /\ UNCHANGED outcome

\* An assignment, key=value or key-[]=value.
ReadAssignment ==
    /\ Reading("set")
    /\ \E v \in {Operand(h, Line.val)} :
          /\ IF Ignored(Top) THEN SetTop(NextLine) /\ UNCHANGED <<h, outcome>>
             ELSE IF v = Null THEN outcome' = "throw" /\ UNCHANGED <<h, frames>>
             ELSE Store(Line.key, v, Line.array, Advanced)
          /\ dict' = IF outcome' # "throw" /\ InForce(files[Top.file], Top.pos, Top.truth)
                     THEN Assign(dict, Line.key, v, Line.array) ELSE dict
    /\ UNCHANGED <<files, recursion_cnt>>

\* A new activation of load for a file: its name is recorded in .file-[] first.
Frame(f) == [file |-> f, pos |-> 1, lev |-> 0, ignore |-> [i \in 0..(IgnoreSize - 1) |-> FALSE],
             truth |-> {}]

load(f, below) ==
    /\ Store(FileKey, f, TRUE, Append(below, Frame(f)))
    /\ dict' = IF outcome' = "throw" THEN dict ELSE Assign(dict, FileKey, f, TRUE)

\* .include is obeyed in a block that is ignored, too.
ReadInclude ==
    /\ Reading("include")
    /\ recursion_cnt' = recursion_cnt + 1
    /\ IF recursion_cnt > MaxInclude \/ Line.file \notin File
       THEN outcome' = "throw" /\ UNCHANGED <<h, frames, dict>>
       ELSE load(Line.file, Advanced)
    /\ UNCHANGED files

\* The condition is evaluated in a block that is ignored, too.
ReadIf ==
    /\ Reading("if")
    /\ IF Undefined(h, Line.cond) THEN outcome' = "throw" /\ UNCHANGED frames
       ELSE IF Top.lev + 1 >= IgnoreSize THEN outcome' = "overrun" /\ UNCHANGED frames
       ELSE /\ SetTop([NextLine EXCEPT !.lev = @ + 1,
                                       !.ignore[Top.lev + 1] = ~expand_condition(h, Line.cond),
                                       !.truth = IF expand_condition(h, Line.cond)
                                                 THEN @ \cup {Top.pos} ELSE @])
            /\ UNCHANGED outcome
    /\ UNCHANGED <<files, h, recursion_cnt, dict>>

\* Mutant: the line is looked at again.
ReadElse_again ==
    /\ Reading("else")
    /\ SetTop([Top EXCEPT !.ignore[Top.lev] = ~@])
    /\ UNCHANGED <<files, h, recursion_cnt, outcome, dict>>

ReadElse ==
    /\ Reading("else")
    /\ SetTop([NextLine EXCEPT !.ignore[Top.lev] = ~@])
    /\ UNCHANGED <<files, h, recursion_cnt, outcome, dict>>

ReadEndif ==
    /\ Reading("endif")
    /\ IF Top.lev = 0 THEN Throw
       ELSE /\ SetTop([NextLine EXCEPT !.lev = @ - 1])
            /\ UNCHANGED <<files, h, recursion_cnt, outcome, dict>>

\* The end of the file, or .end: back to the file that included it.
ReadEnd ==
    /\ outcome = "loading"
    /\ Top.pos <= Len(files[Top.file]) => Line.op = "end"
    /\ IF Top.lev # 0 THEN Throw
       ELSE /\ frames' = SubSeq(frames, 1, Len(frames) - 1)
            /\ outcome' = IF Len(frames) = 1 THEN "loaded" ELSE "loading"
            /\ UNCHANGED <<files, h, recursion_cnt, dict>>

\* A comment or an empty line.
ReadNothing ==
    /\ Reading("#")
    /\ SetTop(NextLine)
    /\ UNCHANGED <<files, h, recursion_cnt, outcome, dict>>

----------------------------------------------------------------------------

\* The constructor, and load of the main file, recorded like any other.
RcInit ==
    /\ files \in Contents
    /\ \E r \in _add2(NewTable(HashMin), FileKey, MainFile, TRUE) :
          /\ h = IF r.throw THEN NewTable(HashMin) ELSE r.table
          /\ outcome = IF r.throw THEN "throw" ELSE "loading"
          /\ dict = IF r.throw THEN [k \in Key |-> Null]
                    ELSE Assign([k \in Key |-> Null], FileKey, MainFile, TRUE)
    /\ recursion_cnt = 0
    /\ frames = <<Frame(MainFile)>>

RcNext ==
    \/ ReadAssignment
    \/ ReadInclude
    \/ ReadIf
    \/ ReadElse
    \/ ReadEndif
    \/ ReadEnd
    \/ ReadNothing

----------------------------------------------------------------------------
(* Properties.                                                              *)

\* The table is the dictionary the file describes: seek finds, for every key, the
\* value of the last assignment in force (conditions, nested blocks, includes and
\* array keys considered), through every growth of the table; unless something was
\* stored outside the array, an item that GrowUp found no slot for or a key whose
\* walk starts before the array.
TableIsDictionary == ~h.stray => \A k \in Key : Lookup(h, k) = dict[k]

\* A condition means what it says: "&&" is a conjunction.  (dsApprc.h shows
\* ".if $(Debug) == Yes && $(TestChdir)== NO".)
ConditionHolds(t, c) ==
    \A i \in DOMAIN c : c[i].eq <=> (Operand(t, c[i].lh) = c[i].rh)
AndIsConjunction ==
    Reading("if") =>
       LET c == Line.cond
       IN (~Undefined(h, c) /\ \A i \in DOMAIN c : c[i].join # "||")
             => (expand_condition(h, c) <=> ConditionHolds(h, c))
=============================================================================
