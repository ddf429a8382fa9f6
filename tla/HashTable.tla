------------------------------ MODULE HashTable ------------------------------
(***************************************************************************)
(* share/dsHashTable.cxx: open addressing with double hashing.  A table is  *)
(* a value [size, slot, stray]; slot is the array _Table, and stray holds   *)
(* once something was stored at _Table[-1], outside the array.  What the    *)
(* two hash functions make of a key's characters is in CharSum and          *)
(* CharPoly; the code reduces both modulo the current size.  Characters     *)
(* are signed, so that keys with bytes above 127 may have a negative sum.   *)
(***************************************************************************)
EXTENDS Integers, Sequences, FiniteSetsExt

CONSTANTS
    Key,        \* the keys
    Null,       \* what seek answers for a key that is not there
    CharSum(_),     \* of a key, the sum of its characters
    CharPoly(_),    \* of a key, the absolute value of its polynomial hash
    HashMin,    \* the size a table starts with (256 for the rc file)
    HashStep,   \* HASH_INCREMENT
    HashMax     \* HASH_MAXSIZE

\* The empty key is no key: it marks a free slot.
ASSUME KeysNamed == Key \subseteq Seq(STRING) /\ <<>> \notin Key
ASSUME HashesTyped == \A k \in Key : CharSum(k) \in Int /\ CharPoly(k) \in Nat
ASSUME NullIsNoText == Null \notin STRING
ASSUME SizesTyped ==
    /\ HashMin \in Nat \ {0} /\ HashStep \in Nat \ {0}
    /\ HashMax \in Nat /\ HashMin <= HashMax

\* A key is the sequence of its parts, between the delimiters.
EmptySlot == [key |-> <<>>, val |-> ""]

NewTable(n) == [size |-> n, slot |-> [i \in 0..(n - 1) |-> EmptySlot], stray |-> FALSE]

\* The remainder of C, which has the sign of the dividend.
Remainder(n, d) == IF n >= 0 THEN n % d ELSE -((-n) % d)

HFuncAddition(t, k) == Remainder(CharSum(k), t.size)
HFuncHorner(t, k) == CharPoly(k) % t.size

\* Where the walk for a key is after n steps, and where it ends: at the key or at a
\* free slot, or back at its start.
At(t, k, n) == (HFuncAddition(t, k) + n * HFuncHorner(t, k)) % t.size
Ends(t, k, n) == t.slot[At(t, k, n)].key \in {<<>>, k}
Stops(t, k, n) == Ends(t, k, n) \/ (n > 0 /\ At(t, k, n) = At(t, k, 0))
Walk(t, k) ==
    CHOOSE n \in 0..t.size : Stops(t, k, n) /\ \A m \in 0..(n - 1) : ~Stops(t, k, m)

\* The index of the key or of the free slot that ends its walk, -1 when the walk
\* is back where it started first.
IndexOf(t, k, i) == IF t.slot[i].key \in {<<>>, k} THEN i ELSE -1
_hi_seek(t, k) == IndexOf(t, k, At(t, k, Walk(t, k)))

HeldAt(t, k, i) == i # -1 /\ t.slot[i].key = k
Holds(t, k) == HeldAt(t, k, _hi_seek(t, k))

Lookup(t, k) == IF Holds(t, k) THEN t.slot[_hi_seek(t, k)].val ELSE Null

\* The walk starts before the array.  What is read and written there is not the
\* table's: such a key is stored outside the array, and nothing is found under it.
Before(t, k) == HFuncAddition(t, k) < 0

Put(t, i, e) ==
    IF i = -1 THEN [t EXCEPT !.stray = TRUE] ELSE [t EXCEPT !.slot[i] = e]

NextSize(t) == IF t.size + HashStep < HashMax THEN t.size + HashStep ELSE HashMax

\* Mutant: the slots keep their index in the larger array.
GrowUp_copy(t) ==
    [size |-> NextSize(t), stray |-> t.stray,
     slot |-> [i \in 0..(NextSize(t) - 1) |-> IF i < t.size THEN t.slot[i] ELSE EmptySlot]]

\* An item of the old array is placed anew.  Nothing checks that the walk found a
\* place.
Placed(g, e) ==
    IF e = EmptySlot \/ Holds(g, e.key) THEN g
    ELSE Put(g, IF Before(g, e.key) THEN -1 ELSE _hi_seek(g, e.key), e)

\* A larger array, and the items placed in it in the order of the old one.
Copies(t) ==
    LET Copied[i \in 0..t.size] ==
            IF i = 0 THEN [NewTable(NextSize(t)) EXCEPT !.stray = t.stray]
            ELSE Placed(Copied[i - 1], t.slot[i - 1])
    IN Copied

GrowUp(t) == Copies(t)[t.size]

\* insert with replace = true, as the rc file uses it; "throw" when the table
\* cannot grow or has no place for the key after it grew.
insert(t, k, v) ==
    LET e == [key |-> k, val |-> v]
        i == _hi_seek(t, k)
    IN IF Before(t, k) THEN [table |-> Put(t, -1, e), throw |-> FALSE]
       ELSE IF i # -1 THEN [table |-> Put(t, i, e), throw |-> FALSE]
       ELSE IF t.size >= HashMax THEN [table |-> t, throw |-> TRUE]
       ELSE LET g == GrowUp(t)
                j == _hi_seek(g, k)
            IN IF Before(g, k) THEN [table |-> Put(g, -1, e), throw |-> FALSE]
               ELSE IF j = -1 THEN [table |-> g, throw |-> TRUE]
               ELSE [table |-> Put(g, j, e), throw |-> FALSE]
=============================================================================
