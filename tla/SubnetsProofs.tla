---------------------------- MODULE SubnetsProofs ----------------------------
(***************************************************************************)
(* Proofs about the configuration: the hash table is a dictionary, the rc   *)
(* file is read into it as it says, and the subnets are found in it.        *)
(***************************************************************************)
EXTENDS Subnets, Induction, FiniteSetTheorems, SequenceTheorems

----------------------------------------------------------------------------
(* The walk of _hi_seek.                                                    *)

Slots(t) == 0..(t.size - 1)

\* A table is an array of slots with keys.
Table(t) ==
    /\ t.size \in Nat \ {0}
    /\ t.stray \in BOOLEAN
    /\ t = [size |-> t.size, slot |-> t.slot, stray |-> t.stray]
    /\ t.slot = [i \in Slots(t) |-> t.slot[i]]
    /\ \A i \in Slots(t) : t.slot[i].key \in Key \cup {<<>>}

\* The hash functions: the first is a remainder with the sign of the sum.
LEMMA RemaindersTyped ==
    ASSUME NEW t, Table(t), NEW k \in Key
    PROVE  /\ HFuncAddition(t, k) \in Int
           /\ -t.size < HFuncAddition(t, k) /\ HFuncAddition(t, k) < t.size
           /\ HFuncHorner(t, k) \in Nat
<1> DEFINE z == t.size
           c == CharSum(k)
<1>1. z \in Nat /\ z > 0 /\ c \in Int /\ CharPoly(k) \in Nat
    BY HashesTyped DEF Table
<1>2. HFuncAddition(t, k) = IF c >= 0 THEN c % z ELSE -((-c) % z)
    BY DEF HFuncAddition, Remainder
<1>3. HFuncHorner(t, k) \in Nat
    BY <1>1 DEF HFuncHorner
<1> HIDE DEF z, c
<1>4. CASE c >= 0
    <2>1. c % z \in 0..(z - 1)
        BY <1>1, <1>4
    <2> QED BY <1>1, <1>2, <1>3, <1>4, <2>1 DEF z
<1>5. CASE ~(c >= 0)
    <2>1. (-c) % z \in 0..(z - 1)
        BY <1>1, <1>5
    <2> QED BY <1>1, <1>2, <1>3, <1>5, <2>1 DEF z
<1> QED BY <1>4, <1>5

\* Whole rounds do not change a remainder, also of a number just below zero.
LEMMA WholeRounds ==
    ASSUME NEW z \in Nat, z > 0, NEW d \in 0..(z - 1), NEW b \in Int
    PROVE  (d + z * b) % z = d
OBVIOUS

LEMMA SignedRounds ==
    ASSUME NEW z \in Nat, z > 0, NEW a \in Int, -z < a, a < z, NEW b \in Nat
    PROVE  (a + z * b) % z = (a + 0 * b) % z
<1>1. CASE a >= 0
    <2>1. a \in 0..(z - 1) /\ a + 0 * b = a + z * 0
        BY <1>1
    <2> QED BY <2>1, WholeRounds
<1>2. CASE a < 0
    <2>1. a + z \in 0..(z - 1) /\ b - 1 \in Int /\ -1 \in Int
        BY <1>2
    <2>2. (a + z) + z * (-1) = a + 0 * b
        OBVIOUS
    <2>3. (a + z) + z * (b - 1) = a + z * b
        <3>1. z * (b - 1) = z * b - z /\ z * b \in Int
            OBVIOUS
        <3> QED BY <3>1
    <2>4. ((a + z) + z * (-1)) % z = a + z /\ ((a + z) + z * (b - 1)) % z = a + z
        <3> DEFINE d == a + z
        <3>1. d \in 0..(z - 1)
            BY <2>1
        <3> HIDE DEF d
        <3>2. (d + z * (-1)) % z = d /\ (d + z * (b - 1)) % z = d
            BY <2>1, <3>1, WholeRounds
        <3> QED BY <3>2 DEF d
    <2> QED BY <2>2, <2>3, <2>4
<1> QED BY <1>1, <1>2

\* The walk stays in the array.
LEMMA WalkInside ==
    ASSUME NEW t, Table(t), NEW k \in Key, NEW n \in Nat
    PROVE  At(t, k, n) \in Slots(t)
<1> DEFINE a == HFuncAddition(t, k)
           b == HFuncHorner(t, k)
           z == t.size
<1>1. z \in Nat /\ z > 0
    BY DEF Table
<1>2. a \in Int /\ b \in Nat
    BY <1>1, RemaindersTyped DEF z
<1> HIDE DEF a, b, z
<1>3. (a + n * b) \in Int
    BY <1>2
<1>4. (a + n * b) % z \in 0..(z - 1)
    BY <1>1, <1>3
<1> QED BY <1>4 DEF At, Slots, a, b, z

\* After as many steps as there are slots the walk is back at its start.
LEMMA WalkReturns ==
    ASSUME NEW t, Table(t), NEW k \in Key
    PROVE  At(t, k, t.size) = At(t, k, 0)
<1> DEFINE a == HFuncAddition(t, k)
           b == HFuncHorner(t, k)
           z == t.size
<1>1. z \in Nat /\ z > 0
    BY DEF Table
<1>2. a \in Int /\ -z < a /\ a < z /\ b \in Nat
    BY RemaindersTyped
<1> HIDE DEF a, b, z
<1>3. (a + z * b) % z = (a + 0 * b) % z
    BY <1>1, <1>2, SignedRounds
<1> QED BY <1>3 DEF At, a, b, z

\* The walk ends somewhere, and _hi_seek answers where.
LEMMA WalkStops ==
    ASSUME NEW t, Table(t), NEW k \in Key
    PROVE  /\ Walk(t, k) \in 0..t.size
           /\ Stops(t, k, Walk(t, k))
           /\ \A m \in 0..(Walk(t, k) - 1) : ~Stops(t, k, m)
<1> DEFINE T == {n \in Nat : Stops(t, k, n)}
<1>1. t.size \in Nat /\ t.size > 0
    BY DEF Table
<1>2. t.size \in T
    BY <1>1, WalkReturns DEF Stops
<1>3. T \subseteq Nat /\ T # {}
    BY <1>2
<1> HIDE DEF T
<1>4. PICK n \in T : \A m \in T : n <= m
    BY <1>3, LeastNatural
<1>5. n \in 0..t.size
    BY <1>1, <1>2, <1>3, <1>4
<1>6. Stops(t, k, n) /\ \A m \in 0..(n - 1) : ~Stops(t, k, m)
    <2>1. Stops(t, k, n)
        BY <1>4 DEF T
    <2>2. ASSUME NEW m \in 0..(n - 1), Stops(t, k, m)
          PROVE  FALSE
        <3>1. m \in T
            BY <2>2 DEF T
        <3> QED BY <3>1, <1>4, <1>5
    <2> QED BY <2>1, <2>2
<1>7. \E x \in 0..t.size : Stops(t, k, x) /\ \A m \in 0..(x - 1) : ~Stops(t, k, m)
    BY <1>5, <1>6
<1> QED BY <1>7, Zenon DEF Walk

\* The walk ends at most once.
LEMMA WalkUnique ==
    ASSUME NEW t, Table(t), NEW k \in Key, NEW n \in 0..t.size, Stops(t, k, n),
           \A m \in 0..(n - 1) : ~Stops(t, k, m)
    PROVE  n = Walk(t, k)
<1>1. t.size \in Nat
    BY DEF Table
<1> DEFINE w == Walk(t, k)
<1>2. w \in 0..t.size /\ Stops(t, k, w) /\ \A m \in 0..(w - 1) : ~Stops(t, k, m)
    BY WalkStops
<1> HIDE DEF w
<1>3. ~(n < w)
    <2> SUFFICES ASSUME n < w
                 PROVE  FALSE
        OBVIOUS
    <2>1. n \in 0..(w - 1)
        BY <1>1, <1>2
    <2> QED BY <2>1, <1>2
<1>4. ~(w < n)
    <2> SUFFICES ASSUME w < n
                 PROVE  FALSE
        OBVIOUS
    <2>1. w \in 0..(n - 1)
        BY <1>1, <1>2
    <2> QED BY <2>1, <1>2
<1>5. n = w
    BY <1>1, <1>2, <1>3, <1>4
<1> QED BY <1>5 DEF w

\* What _hi_seek answers: a slot with the key, a free one, or -1.
LEMMA SeekAnswers ==
    ASSUME NEW t, Table(t), NEW k \in Key
    PROVE  /\ _hi_seek(t, k) \in Slots(t) \cup {-1}
           /\ -1 \notin Slots(t)
           /\ _hi_seek(t, k) # -1 =>
                 /\ _hi_seek(t, k) = At(t, k, Walk(t, k))
                 /\ Ends(t, k, Walk(t, k))
                 /\ t.slot[_hi_seek(t, k)].key \in {<<>>, k}
<1>1. t.size \in Nat /\ Walk(t, k) \in Nat
    BY WalkStops DEF Table
<1>2. At(t, k, Walk(t, k)) \in Slots(t)
    BY <1>1, WalkInside
<1>3. -1 \notin Slots(t)
    BY <1>1 DEF Slots
<1> QED BY <1>2, <1>3 DEF _hi_seek, IndexOf, Ends

\* A walk that ends at the key or at a free slot decides the answer.
LEMMA SeekDecided ==
    ASSUME NEW t, Table(t), NEW k \in Key, NEW n \in 0..t.size, Ends(t, k, n),
           \A m \in 0..(n - 1) : ~Stops(t, k, m)
    PROVE  _hi_seek(t, k) = At(t, k, n)
<1>1. Stops(t, k, n)
    BY DEF Stops
<1>2. n = Walk(t, k)
    BY <1>1, WalkUnique
<1> QED BY <1>2 DEF _hi_seek, IndexOf, Ends

----------------------------------------------------------------------------
(* The table as a dictionary.                                               *)

\* Every item is where the walk for its key ends; so no key is in two slots.
Sound(t) ==
    /\ Table(t)
    /\ \A i \in Slots(t) :
          /\ t.slot[i].key = <<>> => t.slot[i] = EmptySlot
          /\ t.slot[i].key # <<>> => _hi_seek(t, t.slot[i].key) = i

\* What the table says of a key follows from the slot that has the key.
LEMMA HoldsIffStored ==
    ASSUME NEW t, Sound(t), NEW k \in Key
    PROVE  /\ Holds(t, k) <=> \E i \in Slots(t) : t.slot[i].key = k
           /\ \A i \in Slots(t) :
                 t.slot[i].key = k => _hi_seek(t, k) = i /\ Lookup(t, k) = t.slot[i].val
           /\ ~Holds(t, k) => Lookup(t, k) = Null
<1>1. k # <<>>
    BY KeysNamed
<1>2. Table(t)
    BY DEF Sound
<1>3. _hi_seek(t, k) \in Slots(t) \cup {-1} /\ -1 \notin Slots(t)
    BY <1>2, SeekAnswers
<1>4. \A i \in Slots(t) : t.slot[i].key = k => _hi_seek(t, k) = i
    BY <1>1 DEF Sound
<1> QED BY <1>3, <1>4 DEF Holds, HeldAt, Lookup

\* The walk depends on the size and on which slots on its way are free or have the
\* key.
LEMMA SamePlaces ==
    ASSUME NEW t, NEW u, u.size = t.size, NEW k, NEW n
    PROVE  At(u, k, n) = At(t, k, n)
BY DEF At, HFuncAddition, Remainder, HFuncHorner

\* An item stored where its walk ends: the table stays sound and changes its answer
\* for this key only.
LEMMA PutIsAssignment ==
    ASSUME NEW t, Sound(t), NEW k \in Key, NEW e, e.key = k, _hi_seek(t, k) # -1
    PROVE  LET u == Put(t, _hi_seek(t, k), e)
           IN  /\ Sound(u)
               /\ u.size = t.size
               /\ u.stray = t.stray
               /\ Holds(u, k) /\ Lookup(u, k) = e.val
               /\ \A x \in Key \ {k} : /\ Holds(u, x) <=> Holds(t, x)
                                       /\ Lookup(u, x) = Lookup(t, x)
<1> DEFINE i == _hi_seek(t, k)
           u == Put(t, i, e)
<1>1. Table(t) /\ k # <<>>
    BY KeysNamed DEF Sound
<1>2. i \in Slots(t) /\ t.slot[i].key \in {<<>>, k} /\ i = At(t, k, Walk(t, k))
      /\ Ends(t, k, Walk(t, k))
    BY <1>1, SeekAnswers
<1> HIDE DEF i
<1>3. /\ u = [size |-> t.size, slot |-> [t.slot EXCEPT ![i] = e], stray |-> t.stray]
      /\ u.size = t.size /\ u.stray = t.stray /\ Slots(u) = Slots(t)
      /\ u.slot = [t.slot EXCEPT ![i] = e]
    BY <1>1 DEF Put, Table, Slots, i
<1>4. u.slot[i] = e /\ \A j \in Slots(t) \ {i} : u.slot[j] = t.slot[j]
    BY <1>1, <1>2, <1>3 DEF Table
<1> HIDE DEF u
<1>5. Table(u)
    BY <1>1, <1>2, <1>3, <1>4 DEF Table
<1>6. \A x, n : At(u, x, n) = At(t, x, n)
    BY <1>3, SamePlaces
<1>7. _hi_seek(u, k) = i
    <2> DEFINE w == Walk(t, k)
    <2>1. w \in 0..t.size /\ t.size \in Nat /\ \A m \in 0..(w - 1) : ~Stops(t, k, m)
        BY <1>1, WalkStops DEF Table
    <2> HIDE DEF w
    <2>2. ASSUME NEW m \in 0..(w - 1)
          PROVE  ~Stops(u, k, m)
        <3>1. At(t, k, m) \in Slots(t) /\ ~Stops(t, k, m)
            BY <1>1, <2>1, WalkInside
        <3>2. t.slot[At(t, k, m)].key \notin {<<>>, k}
            BY <3>1 DEF Stops, Ends
        <3>3. At(t, k, m) # i
            BY <3>2, <1>2
        <3>4. u.slot[At(t, k, m)] = t.slot[At(t, k, m)]
            BY <3>1, <3>3, <1>4
        <3> QED BY <3>1, <3>4, <1>6 DEF Stops, Ends
    <2>3. Ends(u, k, w)
        BY <1>2, <1>4, <1>6 DEF Ends, w
    <2>4. _hi_seek(u, k) = At(u, k, w)
        BY <1>5, <2>1, <2>2, <2>3, <1>3, SeekDecided
    <2> QED BY <2>4, <1>6, <1>2 DEF w
<1>8. ASSUME NEW x \in Key, x # k, NEW j \in Slots(t), t.slot[j].key = x
      PROVE  _hi_seek(u, x) = j /\ u.slot[j] = t.slot[j]
    <2> DEFINE w == Walk(t, x)
    <2>1. x # <<>> /\ j # i
        BY KeysNamed, <1>2, <1>8
    <2>2. _hi_seek(t, x) = j /\ j # -1
        BY <2>1, <1>8, <1>1, SeekAnswers DEF Sound
    <2>3. j = At(t, x, w) /\ Ends(t, x, w)
        BY <2>2, <1>1, SeekAnswers
    <2>4. w \in 0..t.size /\ t.size \in Nat /\ \A m \in 0..(w - 1) : ~Stops(t, x, m)
        BY <1>1, WalkStops DEF Table
    <2> HIDE DEF w
    <2>5. u.slot[j] = t.slot[j]
        BY <2>1, <1>4
    <2>6. ASSUME NEW m \in 0..(w - 1)
          PROVE  ~Stops(u, x, m)
        <3> DEFINE q == At(t, x, m)
        <3>1. q \in Slots(t) /\ ~Stops(t, x, m)
            BY <1>1, <2>4, WalkInside
        <3>2. t.slot[q].key \notin {<<>>, x}
            BY <3>1 DEF Stops, Ends
        <3>3. u.slot[q].key \notin {<<>>, x}
            BY <3>1, <3>2, <1>4, <1>8, <1>1
        <3> QED BY <3>1, <3>3, <1>6 DEF Stops, Ends
    <2>7. Ends(u, x, w)
        BY <2>3, <2>5, <1>6 DEF Ends
    <2>8. _hi_seek(u, x) = At(u, x, w)
        BY <1>5, <2>4, <2>6, <2>7, <1>3, SeekDecided
    <2> QED BY <2>8, <2>3, <2>5, <1>6
<1>9. Sound(u)
    <2> SUFFICES ASSUME NEW j \in Slots(u)
                 PROVE  /\ u.slot[j].key = <<>> => u.slot[j] = EmptySlot
                        /\ u.slot[j].key # <<>> => _hi_seek(u, u.slot[j].key) = j
        BY <1>5 DEF Sound
    <2>1. CASE j = i
        BY <2>1, <1>1, <1>4, <1>7
    <2>2. CASE j # i
        <3>1. u.slot[j] = t.slot[j] /\ j \in Slots(t)
            BY <2>2, <1>3, <1>4
        <3>2. t.slot[j].key # k
            BY <3>1, <2>2, HoldsIffStored DEF i
        <3>3. t.slot[j].key \in Key \cup {<<>>}
            BY <3>1, <1>1 DEF Table
        <3>4. CASE t.slot[j].key = <<>>
            BY <3>1, <3>4 DEF Sound
        <3>5. CASE t.slot[j].key \in Key
            BY <3>1, <3>2, <3>5, <1>8, KeysNamed
        <3> QED BY <3>3, <3>4, <3>5
    <2> QED BY <2>1, <2>2
<1>10. Holds(u, k) /\ Lookup(u, k) = e.val
    <2>1. i \in Slots(u) /\ u.slot[i].key = k /\ u.slot[i].val = e.val
        BY <1>2, <1>3, <1>4
    <2> QED BY <2>1, <1>9, HoldsIffStored
<1>11. ASSUME NEW x \in Key \ {k}
       PROVE  /\ Holds(u, x) <=> Holds(t, x)
              /\ Lookup(u, x) = Lookup(t, x)
    <2>1. CASE Holds(t, x)
        <3>1. PICK j \in Slots(t) : t.slot[j].key = x
            BY <2>1, HoldsIffStored
        <3>2. u.slot[j] = t.slot[j] /\ j \in Slots(u)
            BY <3>1, <1>8, <1>3
        <3>3. Lookup(t, x) = t.slot[j].val
            BY <3>1, HoldsIffStored
        <3>4. Holds(u, x) /\ Lookup(u, x) = u.slot[j].val
            BY <3>1, <3>2, <1>9, HoldsIffStored
        <3> QED BY <2>1, <3>2, <3>3, <3>4
    <2>2. CASE ~Holds(t, x)
        <3>1. ~Holds(u, x)
            <4> SUFFICES ASSUME Holds(u, x)
                         PROVE  FALSE
                OBVIOUS
            <4>1. PICK j \in Slots(u) : u.slot[j].key = x
                BY <1>9, HoldsIffStored
            <4>2. j # i /\ j \in Slots(t)
                BY <4>1, <1>3, <1>4
            <4>3. t.slot[j].key = x
                BY <4>1, <4>2, <1>4
            <4> QED BY <4>2, <4>3, <2>2, HoldsIffStored
        <3> QED BY <2>2, <3>1, <1>9, HoldsIffStored
    <2> QED BY <2>1, <2>2
<1> QED BY <1>3, <1>9, <1>10, <1>11 DEF u, i

\* A new table has no key.
LEMMA NewTableEmpty ==
    ASSUME NEW n \in Nat \ {0}
    PROVE  /\ Sound(NewTable(n))
           /\ NewTable(n).size = n /\ NewTable(n).stray = FALSE
           /\ \A x \in Key : ~Holds(NewTable(n), x) /\ Lookup(NewTable(n), x) = Null
<1> DEFINE t == NewTable(n)
<1>1. /\ t.size = n /\ t.stray = FALSE
      /\ t = [size |-> t.size, slot |-> t.slot, stray |-> t.stray]
      /\ t.slot = [i \in Slots(t) |-> t.slot[i]]
      /\ \A i \in Slots(t) : t.slot[i] = EmptySlot
    BY DEF NewTable, Slots
<1> HIDE DEF t
<1>2. \A i \in Slots(t) : t.slot[i].key = <<>>
    <2>1. EmptySlot.key = <<>>
        BY DEF EmptySlot
    <2> QED BY <1>1, <2>1
<1>3. Table(t)
    BY <1>1, <1>2 DEF Table
<1>4. Sound(t)
    BY <1>1, <1>2, <1>3 DEF Sound
<1>5. ASSUME NEW x \in Key
      PROVE  ~Holds(t, x) /\ Lookup(t, x) = Null
    BY <1>2, <1>4, HoldsIffStored, KeysNamed
<1> QED BY <1>1, <1>4, <1>5 DEF t

\* What is outside the array does not matter for the walks in it.
LEMMA StraySound ==
    ASSUME NEW t, Sound(t)
    PROVE  Sound([t EXCEPT !.stray = TRUE]) /\ [t EXCEPT !.stray = TRUE].stray
<1> DEFINE u == [t EXCEPT !.stray = TRUE]
<1>1. Table(t)
    BY DEF Sound
<1>2. u = [size |-> t.size, slot |-> t.slot, stray |-> TRUE]
    <2>1. t = [size |-> t.size, slot |-> t.slot, stray |-> t.stray]
        BY <1>1 DEF Table
    <2> DEFINE a == t.size
               b == t.slot
               c == t.stray
    <2> HIDE DEF a, b, c
    <2>2. t = [size |-> a, slot |-> b, stray |-> c]
        BY <2>1 DEF a, b, c
    <2>3. \A v : [t EXCEPT !.stray = v] = [size |-> a, slot |-> b, stray |-> v]
        BY <2>2
    <2> QED BY <2>3, Zenon DEF a, b
<1>3. u.size = t.size /\ u.slot = t.slot /\ u.stray = TRUE
    BY <1>2
<1> HIDE DEF u
<1>4. Table(u) /\ Slots(u) = Slots(t)
    BY <1>1, <1>2, <1>3 DEF Table, Slots
<1>5. \A k, n : /\ At(u, k, n) = At(t, k, n)
                /\ Ends(u, k, n) <=> Ends(t, k, n)
                /\ Stops(u, k, n) <=> Stops(t, k, n)
    BY <1>3, SamePlaces DEF Ends, Stops
<1>6. ASSUME NEW k \in Key
      PROVE  _hi_seek(u, k) = _hi_seek(t, k)
    <2>1. /\ Walk(t, k) \in 0..t.size
          /\ Stops(t, k, Walk(t, k))
          /\ \A m \in 0..(Walk(t, k) - 1) : ~Stops(t, k, m)
        BY <1>1, WalkStops
    <2>2. Walk(t, k) = Walk(u, k)
        BY <1>3, <1>4, <1>5, <2>1, WalkUnique
    <2> QED BY <1>5, <2>2 DEF _hi_seek, IndexOf, Ends
<1>7. \A i \in Slots(t) : t.slot[i].key # <<>> => t.slot[i].key \in Key
    BY <1>1 DEF Table
<1> QED BY <1>3, <1>4, <1>6, <1>7 DEF Sound, u

\* The tables that GrowUp goes through have one size and the items of the old table.
Copy(z, E) == [size : {z}, slot : [0..(z - 1) -> E], stray : BOOLEAN]

LEMMA CopiesDefined ==
    ASSUME NEW t, Table(t)
    PROVE  /\ Copies(t)[0] = [NewTable(NextSize(t)) EXCEPT !.stray = t.stray]
           /\ \A i \in 1..t.size : Copies(t)[i] = Placed(Copies(t)[i - 1], t.slot[i - 1])
<1> DEFINE z == NextSize(t)
           E == {t.slot[j] : j \in Slots(t)} \cup {EmptySlot}
           S == Copy(z, E)
           first == [NewTable(z) EXCEPT !.stray = t.stray]
           n == t.size
           step == [i \in 1..n |-> [g \in S |-> Placed(g, t.slot[i - 1])]]
<1>1. n \in Nat
    BY DEF Table
<1>2. first \in S
    <2>1. t.stray \in BOOLEAN
        BY DEF Table
    <2> HIDE DEF z
    <2> QED BY <2>1 DEF NewTable, Copy
<1>3. step \in [1..n -> [S -> S]]
    <2> SUFFICES ASSUME NEW i \in 1..n, NEW g \in S
                 PROVE  Placed(g, t.slot[i - 1]) \in S
        OBVIOUS
    <2>1. t.slot[i - 1] \in E
        BY <1>1 DEF Slots
    <2> DEFINE e == t.slot[i - 1]
    <2> HIDE DEF z, E, e
    <2>2. ASSUME NEW q
          PROVE  Put(g, q, e) \in S
        BY <2>1 DEF Put, Copy, e
    <2> HIDE DEF S
    <2> QED BY <2>2 DEF Placed, e
<1> DEFINE Rec(f, i) == IF i = 0 THEN first ELSE Placed(f[i - 1], t.slot[i - 1])
<1>4. \E f : f = [i \in 0..n |-> Rec(f, i)]
    <2> HIDE DEF S, first, step, n
    <2>1. PICK f \in [0..n -> S] : f[0] = first /\ \A i \in 1..n : f[i] = step[i][f[i - 1]]
        BY ONLY <1>1, <1>2, <1>3, PrimitiveRecursion
    <2>2. ASSUME NEW i \in 0..n
          PROVE  f[i] = Rec(f, i)
        <3>1. CASE i = 0
            BY <3>1, <2>1
        <3>2. CASE i # 0
            <4>1. i \in 1..n /\ i - 1 \in 0..n
                BY <3>2, <1>1
            <4>2. f[i - 1] \in S
                BY <4>1
            <4>3. step[i][f[i - 1]] = Placed(f[i - 1], t.slot[i - 1])
                BY <4>1, <4>2 DEF step
            <4> QED BY <4>1, <4>3, <2>1, <3>2
        <3> QED BY <3>1, <3>2
    <2>3. f = [i \in 0..n |-> Rec(f, i)]
        <3> HIDE DEF Rec
        <3>1. f = [i \in 0..n |-> f[i]]
            OBVIOUS
        <3> QED BY <3>1, <2>2
    <2> QED BY <2>3
<1>5. Copies(t) = [i \in 0..n |-> Rec(Copies(t), i)]
    <2>1. Copies(t) = CHOOSE f : f = [i \in 0..n |-> Rec(f, i)]
        BY DEF Copies
    <2> QED BY <1>4, <2>1, Zenon
<1> HIDE DEF first, n
<1>6. Copies(t)[0] = first
    BY <1>1, <1>5
<1>7. ASSUME NEW i \in 1..n
      PROVE  Copies(t)[i] = Placed(Copies(t)[i - 1], t.slot[i - 1])
    <2>1. i \in 0..n /\ i # 0
        BY <1>1
    <2> QED BY <2>1, <1>5
<1> QED BY <1>6, <1>7 DEF first, n

\* A table that holds the first i items of t, unless something was stored outside
\* the array.
HoldsFirst(g, t, i) ==
    /\ Sound(g)
    /\ t.stray => g.stray
    /\ ~g.stray =>
          /\ \A x \in Key : Holds(g, x) <=> \E j \in 0..(i - 1) : t.slot[j].key = x
          /\ \A j \in 0..(i - 1) : t.slot[j].key \in Key => Lookup(g, t.slot[j].key) = t.slot[j].val

\* GrowUp places one item after the other.
LEMMA PlacedHoldsNext ==
    ASSUME NEW t, Sound(t), NEW i \in 1..t.size, NEW g, HoldsFirst(g, t, i - 1)
    PROVE  HoldsFirst(Placed(g, t.slot[i - 1]), t, i)
<1> DEFINE e == t.slot[i - 1]
           p == IF Before(g, e.key) THEN -1 ELSE _hi_seek(g, e.key)
           u == Placed(g, e)
<1>1. /\ t.size \in Nat /\ i - 1 \in Slots(t) /\ Table(t)
      /\ 0..((i - 1) - 1) \subseteq Slots(t)
      /\ 0..(i - 1) = 0..((i - 1) - 1) \cup {i - 1}
      /\ i - 1 \notin 0..((i - 1) - 1)
    BY DEF Sound, Table, Slots
<1>2. e.key \in Key \cup {<<>>} /\ (e.key = <<>> => e = EmptySlot)
    BY <1>1 DEF Sound, Table
<1>3. EmptySlot.key = <<>> /\ <<>> \notin Key
    BY KeysNamed DEF EmptySlot
<1> HIDE DEF e
<1>4. CASE e = EmptySlot
    <2>1. u = g
        BY <1>4 DEF Placed
    <2> QED BY <2>1, <1>1, <1>3, <1>4 DEF HoldsFirst, e
<1>5. CASE e # EmptySlot /\ g.stray
    <2>1. Sound(g) /\ e.key \in Key
        BY <1>2, <1>5 DEF HoldsFirst
    <2>2. CASE Holds(g, e.key)
        <3>1. u = g
            BY <2>2 DEF Placed
        <3> QED BY <3>1, <1>5 DEF HoldsFirst, e
    <2>3. CASE ~Holds(g, e.key) /\ p = -1
        <3>1. u = [g EXCEPT !.stray = TRUE]
            BY <2>3, <1>5 DEF Placed, Put
        <3>2. Sound(u) /\ u.stray
            BY <2>1, <3>1, StraySound
        <3> QED BY <3>2 DEF HoldsFirst, e
    <2>4. CASE ~Holds(g, e.key) /\ p # -1
        <3>1. u = Put(g, p, e)
            BY <2>4, <1>5 DEF Placed
        <3>2. Sound(u) /\ u.stray = g.stray
            BY <2>1, <2>4, <3>1, PutIsAssignment
        <3> QED BY <3>2, <1>5 DEF HoldsFirst, e
    <2> QED BY <2>2, <2>3, <2>4
<1>6. CASE e # EmptySlot /\ ~g.stray
    <2>1. e.key \in Key
        BY <1>2, <1>6
    <2>2. ~Holds(g, e.key)
        <3> SUFFICES ASSUME Holds(g, e.key)
                     PROVE  FALSE
            OBVIOUS
        <3>1. PICK j \in 0..((i - 1) - 1) : t.slot[j].key = e.key
            BY <2>1, <1>6 DEF HoldsFirst
        <3>2. j \in Slots(t) /\ j # i - 1
            BY <1>1, <3>1
        <3>3. _hi_seek(t, e.key) = j
            BY <2>1, <3>1, <3>2, HoldsIffStored
        <3>4. _hi_seek(t, e.key) = i - 1
            BY <2>1, <1>1, HoldsIffStored DEF e
        <3> QED BY <3>2, <3>3, <3>4
    <2>3. u = Put(g, p, e)
        BY <1>6, <2>2 DEF Placed
    <2>4. CASE p = -1
        <3>1. u = [g EXCEPT !.stray = TRUE]
            BY <2>3, <2>4 DEF Put
        <3>2. Sound(u) /\ u.stray
            BY <3>1, StraySound DEF HoldsFirst
        <3> QED BY <3>2 DEF HoldsFirst, e
    <2>5. CASE p # -1
        <3>1. Sound(g) /\ ~t.stray
            BY <1>6 DEF HoldsFirst
        <3>2. /\ Sound(u) /\ u.stray = g.stray
              /\ Holds(u, e.key) /\ Lookup(u, e.key) = e.val
              /\ \A x \in Key \ {e.key} : /\ Holds(u, x) <=> Holds(g, x)
                                          /\ Lookup(u, x) = Lookup(g, x)
            BY <2>1, <2>3, <2>5, <3>1, PutIsAssignment
        <3> HIDE DEF u, p
        <3>3. ASSUME NEW x \in Key
              PROVE  Holds(u, x) <=> \E j \in 0..(i - 1) : t.slot[j].key = x
            <4>1. CASE x = e.key
                BY <4>1, <3>2, <1>1 DEF e
            <4>2. CASE x # e.key
                <5>1. Holds(g, x) <=> \E j \in 0..((i - 1) - 1) : t.slot[j].key = x
                    BY <1>6 DEF HoldsFirst
                <5> QED BY <5>1, <4>2, <3>2, <1>1 DEF e
            <4> QED BY <4>1, <4>2
        <3>4. ASSUME NEW j \in 0..(i - 1), t.slot[j].key \in Key
              PROVE  Lookup(u, t.slot[j].key) = t.slot[j].val
            <4>1. CASE j = i - 1
                BY <4>1, <3>2 DEF e
            <4>2. CASE j # i - 1
                <5>1. j \in 0..((i - 1) - 1)
                    BY <4>2, <1>1
                <5>2. Lookup(g, t.slot[j].key) = t.slot[j].val /\ Holds(g, t.slot[j].key)
                    BY <5>1, <3>4, <1>6 DEF HoldsFirst
                <5> QED BY <5>2, <2>2, <3>2, <3>4
            <4> QED BY <4>1, <4>2
        <3> QED BY <3>1, <3>2, <3>3, <3>4 DEF HoldsFirst, u, e
    <2> QED BY <2>4, <2>5
<1> QED BY <1>4, <1>5, <1>6

\* In the end all items are placed.
LEMMA GrowUpHoldsAll ==
    ASSUME NEW t, Sound(t)
    PROVE  HoldsFirst(GrowUp(t), t, t.size)
<1> DEFINE c == Copies(t)
           first == [NewTable(NextSize(t)) EXCEPT !.stray = t.stray]
           n == t.size
<1>1. Table(t) /\ n \in Nat
    BY DEF Sound, Table
<1>2. c[0] = first /\ \A i \in 1..n : c[i] = Placed(c[i - 1], t.slot[i - 1])
    BY <1>1, CopiesDefined
<1>3. HoldsFirst(first, t, 0)
    <2>1. NextSize(t) \in Nat \ {0}
        BY <1>1, SizesTyped DEF NextSize, Table
    <2> DEFINE m == NextSize(t)
               N == NewTable(m)
    <2> HIDE DEF m
    <2>2. /\ Sound(N) /\ N.stray = FALSE
          /\ \A x \in Key : ~Holds(N, x) /\ Lookup(N, x) = Null
        BY <2>1, NewTableEmpty DEF m
    <2>3. N = [size |-> N.size, slot |-> N.slot, stray |-> N.stray]
        BY <2>2 DEF Sound, Table
    <2> HIDE DEF N
    <2>4. t.stray \in BOOLEAN
        BY <1>1 DEF Table
    <2>5. CASE t.stray
        <3>1. first = [N EXCEPT !.stray = TRUE]
            BY <2>4, <2>5 DEF N, m
        <3>2. Sound(first) /\ first.stray
            BY <2>2, <3>1, StraySound
        <3> QED BY <3>2 DEF HoldsFirst
    <2>6. CASE ~t.stray
        <3>1. first = N
            BY <2>2, <2>3, <2>4, <2>6 DEF N, m
        <3>2. 0..(0 - 1) = {}
            OBVIOUS
        <3> HIDE DEF first
        <3> QED BY <2>2, <2>6, <3>1, <3>2 DEF HoldsFirst
    <2> QED BY <2>5, <2>6
<1> HIDE DEF first, c, n
<1> DEFINE G == {i \in 0..n : HoldsFirst(c[i], t, i)}
<1>4. 0 \in G
    BY <1>1, <1>2, <1>3
<1>5. ASSUME NEW i \in 1..n, i - 1 \in G
      PROVE  i \in G
    <2>1. HoldsFirst(c[i - 1], t, i - 1)
        BY <1>5
    <2>2. HoldsFirst(Placed(c[i - 1], t.slot[i - 1]), t, i)
        BY <2>1, PlacedHoldsNext DEF n
    <2> QED BY <2>2, <1>1, <1>2
<1>6. n \in G
    <2> HIDE DEF G
    <2>1. 0..n \subseteq G
        BY <1>1, <1>4, <1>5, BoundedInduction
    <2> QED BY <2>1, <1>1
<1> QED BY <1>6 DEF GrowUp, c, n

\* A table that grows keeps its items, unless one of them found no slot.
LEMMA GrowUpKeeps ==
    ASSUME NEW t, Sound(t)
    PROVE  /\ Sound(GrowUp(t))
           /\ t.stray => GrowUp(t).stray
           /\ ~GrowUp(t).stray => \A x \in Key : Lookup(GrowUp(t), x) = Lookup(t, x)
<1> DEFINE g == GrowUp(t)
<1>1. HoldsFirst(g, t, t.size)
    BY GrowUpHoldsAll
<1> HIDE DEF g
<1>2. ASSUME ~g.stray, NEW x \in Key
      PROVE  Lookup(g, x) = Lookup(t, x)
    <2>1. /\ Sound(g)
          /\ Holds(g, x) <=> \E j \in Slots(t) : t.slot[j].key = x
          /\ \A j \in Slots(t) : t.slot[j].key \in Key => Lookup(g, t.slot[j].key) = t.slot[j].val
        BY <1>1, <1>2 DEF HoldsFirst, Slots
    <2>2. CASE Holds(t, x)
        <3>1. PICK j \in Slots(t) : t.slot[j].key = x
            BY <2>2, HoldsIffStored
        <3> QED BY <3>1, <2>1, HoldsIffStored
    <2>3. CASE ~Holds(t, x)
        BY <2>1, <2>3, HoldsIffStored
    <2> QED BY <2>2, <2>3
<1> QED BY <1>1, <1>2 DEF HoldsFirst, g

\* An insertion is an assignment to the dictionary, unless the table throws or
\* stores an item outside the array.
THEOREM InsertIsAssignment ==
    ASSUME NEW t, Sound(t), NEW k \in Key, NEW v
    PROVE  LET r == insert(t, k, v)
           IN  /\ Sound(r.table)
               /\ t.stray => r.table.stray
               /\ (~r.throw /\ ~r.table.stray) =>
                     \A x \in Key : Lookup(r.table, x) = IF x = k THEN v ELSE Lookup(t, x)
<1> DEFINE e == [key |-> k, val |-> v]
           r == insert(t, k, v)
           g == GrowUp(t)
<1>1. e.key = k /\ e.val = v
    OBVIOUS
<1> HIDE DEF e
<1> DEFINE away(w) == Before(w, k) /\ r.table = Put(w, -1, e)
<1>0. ASSUME NEW w, Sound(w), away(w)
      PROVE  Sound(r.table) /\ r.table.stray
    <2>1. r.table = [w EXCEPT !.stray = TRUE]
        BY <1>0 DEF Put
    <2> QED BY <2>1, <1>0, StraySound
<1>2. CASE ~Before(t, k) /\ _hi_seek(t, k) # -1
    <2>1. r.table = Put(t, _hi_seek(t, k), e)
        BY <1>2 DEF insert, e
    <2> HIDE DEF r
    <2>2. r.table.stray = t.stray /\ Sound(r.table) /\ Lookup(r.table, k) = v
          /\ \A x \in Key \ {k} : Lookup(r.table, x) = Lookup(t, x)
        BY <2>1, <1>1, <1>2, PutIsAssignment
    <2> QED BY <2>2 DEF r
<1>3. CASE ~Before(t, k) /\ _hi_seek(t, k) = -1 /\ t.size >= HashMax
    <2>1. r.table = t /\ r.throw = TRUE
        BY <1>3 DEF insert
    <2> QED BY <2>1
<1> DEFINE grows == ~Before(t, k) /\ _hi_seek(t, k) = -1 /\ ~(t.size >= HashMax)
<1>4. CASE grows /\ ~Before(g, k) /\ _hi_seek(g, k) = -1
    <2>1. r.table = g /\ r.throw = TRUE
        BY <1>4 DEF insert
    <2> QED BY <2>1, GrowUpKeeps
<1>5. CASE grows /\ ~Before(g, k) /\ _hi_seek(g, k) # -1
    <2>1. r.table = Put(g, _hi_seek(g, k), e)
        BY <1>5 DEF insert, e
    <2>2. /\ Sound(g)
          /\ t.stray => g.stray
          /\ ~g.stray => \A x \in Key : Lookup(g, x) = Lookup(t, x)
        BY GrowUpKeeps
    <2> HIDE DEF g, r
    <2>3. r.table.stray = g.stray /\ Sound(r.table) /\ Lookup(r.table, k) = v
          /\ \A x \in Key \ {k} : Lookup(r.table, x) = Lookup(g, x)
        BY <2>1, <2>2, <1>1, <1>5, PutIsAssignment
    <2> QED BY <2>2, <2>3 DEF r
<1>6. CASE Before(t, k)
    <2>1. away(t)
        BY <1>6 DEF insert, e
    <2> QED BY <1>0, <2>1
<1>7. CASE grows /\ Before(g, k)
    <2>1. away(g)
        BY <1>7 DEF insert, e
    <2>2. Sound(g)
        BY GrowUpKeeps
    <2>3. Sound(r.table) /\ r.table.stray
        <3> HIDE DEF g, away, r
        <3> QED BY <1>0, <2>1, <2>2
    <2> HIDE DEF g, r
    <2> QED BY <2>3 DEF r
<1> QED BY <1>2, <1>3, <1>4, <1>5, <1>6, <1>7

----------------------------------------------------------------------------
(* Blocks: what the reference says of a line, and how it changes from one   *)
(* line to the next.                                                        *)

\* Counting the lines with a property, up to a line.
LEMMA CountNext ==
    ASSUME NEW p \in Nat \ {0}, NEW C
    PROVE  LET A == {m \in 1..(p - 1) : m \in C}
               B == {m \in 1..p : m \in C}
           IN  /\ Cardinality(A) \in Nat
               /\ Cardinality(B) = Cardinality(A) + IF p \in C THEN 1 ELSE 0
<1> DEFINE A == {m \in 1..(p - 1) : m \in C}
           B == {m \in 1..p : m \in C}
<1>1. IsFiniteSet(1..(p - 1))
    BY FS_Interval
<1>2. A \subseteq 1..(p - 1)
    OBVIOUS
<1>3. p \notin A
    OBVIOUS
<1>4. B = IF p \in C THEN A \cup {p} ELSE A
    OBVIOUS
<1> HIDE DEF A, B
<1>5. IsFiniteSet(A)
    BY <1>1, <1>2, FS_Subset
<1>6. Cardinality(A) \in Nat
    BY <1>5, FS_CardinalityType
<1>7. Cardinality(A \cup {p}) = Cardinality(A) + 1
    BY <1>3, <1>5, FS_AddElement
<1>8. Cardinality(B) = Cardinality(A) + IF p \in C THEN 1 ELSE 0
    BY <1>4, <1>6, <1>7
<1> QED BY <1>6, <1>8 DEF A, B

\* The depth after a line.
LEMMA DepthNext ==
    ASSUME NEW F, NEW p \in Nat \ {0}
    PROVE  /\ Depth(F, p - 1) \in Int
           /\ Depth(F, p) = Depth(F, p - 1)
                             + (IF F[p].op = "if" THEN 1 ELSE IF F[p].op = "endif" THEN -1 ELSE 0)
<1> DEFINE Lines(q, o) == {m \in 1..q : F[m].op = o}
           C(o) == {m \in Nat : F[m].op = o}
<1>1. ASSUME NEW o
      PROVE  /\ Cardinality(Lines(p - 1, o)) \in Nat
             /\ Cardinality(Lines(p, o)) = Cardinality(Lines(p - 1, o)) + IF F[p].op = o THEN 1 ELSE 0
    <2>1. \A q \in Nat : Lines(q, o) = {m \in 1..q : m \in C(o)}
        OBVIOUS
    <2>2. p \in C(o) <=> F[p].op = o
        OBVIOUS
    <2>3. p - 1 \in Nat
        OBVIOUS
    <2> HIDE DEF C, Lines
    <2> QED BY <2>1, <2>2, <2>3, CountNext
<1>2. \A q : Depth(F, q) = Cardinality(Lines(q, "if")) - Cardinality(Lines(q, "endif"))
    BY DEF Depth
<1> HIDE DEF Lines
<1>3. "if" # "endif"
    OBVIOUS
<1> QED BY <1>1, <1>2, <1>3

LEMMA DepthStart ==
    ASSUME NEW F
    PROVE  Depth(F, 0) = 0
<1>1. {m \in 1..0 : F[m].op = "if"} = {} /\ {m \in 1..0 : F[m].op = "endif"} = {}
    OBVIOUS
<1> QED BY <1>1, FS_EmptySet DEF Depth

\* The .else lines of a block, one line later.
LEMMA ElsesNext ==
    ASSUME NEW F, NEW p \in Nat \ {0}, NEW i \in 0..(p - 1), NEW d
    PROVE  Odd(Elses(F, i, p + 1, d)) <=>
              IF F[p].op = "else" /\ Depth(F, p) = d
              THEN ~Odd(Elses(F, i, p, d)) ELSE Odd(Elses(F, i, p, d))
<1> DEFINE A == Elses(F, i, p, d)
           B == Elses(F, i, p + 1, d)
           hit == F[p].op = "else" /\ Depth(F, p) = d
<1>1. B = IF hit THEN A \cup {p} ELSE A
    <2>1. (p + 1) - 1 = p /\ (i + 1)..p = ((i + 1)..(p - 1)) \cup {p}
        OBVIOUS
    <2> QED BY <2>1 DEF Elses
<1>2. p \notin A /\ A \subseteq (i + 1)..(p - 1)
    BY DEF Elses
<1> HIDE DEF A, B, hit
<1>3. IsFiniteSet(A)
    <2>1. IsFiniteSet((i + 1)..(p - 1))
        BY FS_Interval
    <2> QED BY <1>2, <2>1, FS_Subset
<1>4. Cardinality(A) \in Nat /\ Cardinality(A \cup {p}) = Cardinality(A) + 1
    BY <1>2, <1>3, FS_CardinalityType, FS_AddElement
<1>5. Odd(A \cup {p}) <=> ~Odd(A)
    <2> DEFINE c == Cardinality(A)
    <2> HIDE DEF c
    <2>1. c \in Nat => ((c + 1) % 2 = 1 <=> ~(c % 2 = 1))
        OBVIOUS
    <2> QED BY <1>4, <2>1 DEF Odd, c
<1> QED BY <1>1, <1>5 DEF A, B, hit

LEMMA ElsesStart ==
    ASSUME NEW F, NEW i \in Nat, NEW d
    PROVE  ~Odd(Elses(F, i, i + 1, d))
<1>1. Elses(F, i, i + 1, d) = {}
    BY DEF Elses
<1> QED BY <1>1, FS_EmptySet DEF Odd

\* The blocks around a line, one line later.
LEMMA AroundNext ==
    ASSUME NEW F, NEW p \in Nat \ {0}, Depth(F, p) \in Int
    PROVE  Around(F, p + 1) =
              {i \in Around(F, p) : Depth(F, p) >= Depth(F, i)}
                 \cup (IF F[p].op = "if" THEN {p} ELSE {})
<1> DEFINE Ok(i, q) == \A m \in i..q : Depth(F, m) >= Depth(F, i)
<1>1. \A i \in 1..(p - 1) : Ok(i, p) <=> Ok(i, p - 1) /\ Depth(F, p) >= Depth(F, i)
    <2>1. \A i \in 1..(p - 1) : i..p = (i..(p - 1)) \cup {p}
        OBVIOUS
    <2> QED BY <2>1
<1>2. Ok(p, p)
    <2>1. p..p = {p}
        OBVIOUS
    <2>2. Depth(F, p) >= Depth(F, p)
        OBVIOUS
    <2> QED BY <2>1, <2>2
<1>3. 1..p = (1..(p - 1)) \cup {p} /\ (p + 1) - 1 = p
    OBVIOUS
<1>4. Around(F, p) = {i \in 1..(p - 1) : F[i].op = "if" /\ Ok(i, p - 1)}
    BY DEF Around
<1>5. Around(F, p + 1) = {i \in 1..p : F[i].op = "if" /\ Ok(i, p)}
    BY <1>3 DEF Around
<1> HIDE DEF Ok
<1> QED BY <1>1, <1>2, <1>3, <1>4, <1>5

LEMMA AroundStart ==
    ASSUME NEW F
    PROVE  Around(F, 1) = {}
BY DEF Around

\* In front of line p of text F: lev counts the open blocks, and ignore[] has for
\* each of them what the reference says.
Blocks(F, p, lev, ignore, truth) ==
    /\ p \in Nat \ {0}
    /\ lev \in 0..(IgnoreSize - 1)
    /\ ignore \in [0..(IgnoreSize - 1) -> BOOLEAN]
    /\ lev = Depth(F, p - 1)
    /\ ignore[0] <=> Odd(Elses(F, 0, p, 0))
    /\ truth \subseteq 1..(p - 1)
    /\ \A i \in Around(F, p) :
          /\ Depth(F, i) \in 1..lev
          /\ ignore[Depth(F, i)] <=> (i \in truth <=> Odd(Elses(F, i, p, Depth(F, i))))
    /\ \A d \in 1..lev : \E i \in Around(F, p) : Depth(F, i) = d

LEMMA AroundBefore ==
    ASSUME NEW F, NEW p \in Nat
    PROVE  Around(F, p) \subseteq 1..(p - 1)
BY DEF Around

\* A line is skipped exactly if it is not in force.
LEMMA IgnoredIffNotInForce ==
    ASSUME NEW F, NEW p, NEW lev, NEW ignore, NEW truth, Blocks(F, p, lev, ignore, truth)
    PROVE  (\E d \in 0..lev : ignore[d]) <=> ~InForce(F, p, truth)
<1>1. /\ lev \in Nat
      /\ ignore[0] <=> Odd(Elses(F, 0, p, 0))
      /\ \A i \in Around(F, p) :
            /\ Depth(F, i) \in 1..lev
            /\ ignore[Depth(F, i)] <=> (i \in truth <=> Odd(Elses(F, i, p, Depth(F, i))))
      /\ \A d \in 1..lev : \E i \in Around(F, p) : Depth(F, i) = d
    BY DEF Blocks
<1>2. 0..lev = {0} \cup (1..lev)
    BY <1>1
<1>3. (\E d \in 1..lev : ignore[d]) <=>
         \E i \in Around(F, p) : i \in truth <=> Odd(Elses(F, i, p, Depth(F, i)))
    BY <1>1, Zenon
<1> QED BY <1>1, <1>2, <1>3 DEF InForce

\* The first line of a text.
LEMMA BlocksStart ==
    ASSUME NEW F
    PROVE  Blocks(F, 1, 0, [i \in 0..(IgnoreSize - 1) |-> FALSE], {})
<1>1. Depth(F, 0) = 0 /\ Around(F, 1) = {} /\ ~Odd(Elses(F, 0, 1, 0))
    BY DepthStart, AroundStart, ElsesStart
<1>2. IgnoreSize \in Nat /\ IgnoreSize > 0
    BY LimitsTyped
<1> QED BY <1>1, <1>2 DEF Blocks

\* A line that is neither .if, .else nor .endif.
LEMMA BlocksPlain ==
    ASSUME NEW F, NEW p, NEW lev, NEW ignore, NEW truth, Blocks(F, p, lev, ignore, truth),
           F[p].op \notin {"if", "else", "endif"}
    PROVE  Blocks(F, p + 1, lev, ignore, truth)
<1>1. p \in Nat \ {0} /\ p + 1 \in Nat \ {0} /\ (p + 1) - 1 = p
      /\ lev \in Nat /\ lev = Depth(F, p - 1)
    BY LimitsTyped DEF Blocks
<1>2. Depth(F, p) = lev
    BY <1>1, DepthNext
<1>3. Around(F, p + 1) = Around(F, p)
    <2>1. \A i \in Around(F, p) : Depth(F, p) >= Depth(F, i)
        BY <1>1, <1>2 DEF Blocks
    <2>2. Around(F, p + 1) = {i \in Around(F, p) : Depth(F, p) >= Depth(F, i)}
        BY <1>1, <1>2, AroundNext
    <2> QED BY <2>1, <2>2
<1>4. \A i \in 0..(p - 1) : \A d : Odd(Elses(F, i, p + 1, d)) <=> Odd(Elses(F, i, p, d))
    BY <1>1, ElsesNext
<1>5. Around(F, p) \subseteq 0..(p - 1) /\ 0 \in 0..(p - 1)
    BY <1>1, AroundBefore
<1> QED BY <1>1, <1>2, <1>3, <1>4, <1>5 DEF Blocks

\* One entry of ignore[] is set.
LEMMA FlagSet ==
    ASSUME NEW S, NEW g \in [S -> BOOLEAN], NEW l \in S, NEW v \in BOOLEAN
    PROVE  /\ [g EXCEPT ![l] = v] \in [S -> BOOLEAN]
           /\ [g EXCEPT ![l] = v][l] = v
           /\ \A d \in S \ {l} : [g EXCEPT ![l] = v][d] = g[d]
BY Zenon

\* An .if opens a block.
LEMMA BlocksIf ==
    ASSUME NEW F, NEW p, NEW lev, NEW ignore, NEW truth, Blocks(F, p, lev, ignore, truth),
           F[p].op = "if", lev + 1 < IgnoreSize, NEW c
    PROVE  Blocks(F, p + 1, lev + 1, [ignore EXCEPT ![lev + 1] = ~c],
                  IF c THEN truth \cup {p} ELSE truth)
<1> DEFINE ig == [ignore EXCEPT ![lev + 1] = ~c]
           tr == IF c THEN truth \cup {p} ELSE truth
<1>1. p \in Nat \ {0} /\ p + 1 \in Nat \ {0} /\ (p + 1) - 1 = p
      /\ lev \in Nat /\ lev = Depth(F, p - 1) /\ IgnoreSize \in Nat
    BY LimitsTyped DEF Blocks
<1>2. Depth(F, p) = lev + 1
    BY <1>1, DepthNext
<1>3. Around(F, p + 1) = Around(F, p) \cup {p}
    <2>1. \A i \in Around(F, p) : Depth(F, p) >= Depth(F, i)
        BY <1>1, <1>2 DEF Blocks
    <2>2. Around(F, p + 1) = {i \in Around(F, p) : Depth(F, p) >= Depth(F, i)} \cup {p}
        BY <1>1, <1>2, AroundNext
    <2> QED BY <2>1, <2>2
<1>4. \A i \in 0..(p - 1) : \A d : Odd(Elses(F, i, p + 1, d)) <=> Odd(Elses(F, i, p, d))
    BY <1>1, ElsesNext
<1>5. Around(F, p) \subseteq 0..(p - 1) /\ 0 \in 0..(p - 1)
    BY <1>1, AroundBefore
<1>6. /\ ig \in [0..(IgnoreSize - 1) -> BOOLEAN]
      /\ ig[lev + 1] <=> ~c
      /\ \A d \in 0..lev : ig[d] = ignore[d]
      /\ lev + 1 \in 0..(IgnoreSize - 1)
    <2> DEFINE S == 0..(IgnoreSize - 1)
               v == ~c
    <2>1. lev + 1 \in S /\ 0..lev \subseteq S \ {lev + 1} /\ ignore \in [S -> BOOLEAN]
        BY <1>1 DEF Blocks
    <2>2. v \in BOOLEAN
        BY Zenon
    <2> HIDE DEF S, v
    <2>3. /\ [ignore EXCEPT ![lev + 1] = v] \in [S -> BOOLEAN]
          /\ [ignore EXCEPT ![lev + 1] = v][lev + 1] = v
          /\ \A d \in S \ {lev + 1} : [ignore EXCEPT ![lev + 1] = v][d] = ignore[d]
        BY <2>1, <2>2, FlagSet
    <2> QED BY <2>1, <2>3, Zenon DEF S, v
<1>7. /\ tr \subseteq 1..p
      /\ p \in tr <=> c
      /\ \A i \in Around(F, p) : i \in tr <=> i \in truth
    <2>1. truth \subseteq 1..(p - 1) /\ p \in 1..p /\ 1..(p - 1) \subseteq 1..p /\ p \notin 1..(p - 1)
        BY <1>1 DEF Blocks
    <2>2. Around(F, p) \subseteq 1..(p - 1)
        BY <1>1, AroundBefore
    <2> QED BY <2>1, <2>2, Zenon
<1>8. ~Odd(Elses(F, p, p + 1, lev + 1))
    BY <1>1, ElsesStart
<1> HIDE DEF ig, tr
<1>9. ASSUME NEW i \in Around(F, p + 1)
      PROVE  /\ Depth(F, i) \in 1..(lev + 1)
             /\ ig[Depth(F, i)] <=> (i \in tr <=> Odd(Elses(F, i, p + 1, Depth(F, i))))
    <2>1. CASE i = p
        BY <2>1, <1>1, <1>2, <1>6, <1>7, <1>8
    <2>2. CASE i \in Around(F, p)
        <3>1. Depth(F, i) \in 1..lev
              /\ (ignore[Depth(F, i)] <=> (i \in truth <=> Odd(Elses(F, i, p, Depth(F, i)))))
            BY <2>2 DEF Blocks
        <3>2. Depth(F, i) \in 0..lev /\ Depth(F, i) \in 1..(lev + 1)
            BY <1>1, <3>1
        <3> QED BY <2>2, <3>1, <3>2, <1>4, <1>5, <1>6, <1>7
    <2> QED BY <2>1, <2>2, <1>3
<1>10. \A d \in 1..(lev + 1) : \E i \in Around(F, p + 1) : Depth(F, i) = d
    <2>1. 1..(lev + 1) = (1..lev) \cup {lev + 1}
        BY <1>1
    <2> QED BY <2>1, <1>2, <1>3 DEF Blocks
<1>11. ig[0] <=> Odd(Elses(F, 0, p + 1, 0))
    <2>1. 0 \in 0..lev
        BY <1>1
    <2> QED BY <2>1, <1>4, <1>5, <1>6 DEF Blocks
<1>12. Blocks(F, p + 1, lev + 1, ig, tr)
    BY <1>1, <1>2, <1>6, <1>7, <1>9, <1>10, <1>11 DEF Blocks
<1> QED BY <1>12 DEF ig, tr

\* An .else turns the innermost block.
LEMMA BlocksElse ==
    ASSUME NEW F, NEW p, NEW lev, NEW ignore, NEW truth, Blocks(F, p, lev, ignore, truth),
           F[p].op = "else"
    PROVE  Blocks(F, p + 1, lev, [ignore EXCEPT ![lev] = ~ignore[lev]], truth)
<1> DEFINE ig == [ignore EXCEPT ![lev] = ~ignore[lev]]
<1>1. p \in Nat \ {0} /\ p + 1 \in Nat \ {0} /\ (p + 1) - 1 = p
      /\ lev \in Nat /\ lev = Depth(F, p - 1) /\ IgnoreSize \in Nat
    BY LimitsTyped DEF Blocks
<1>2. Depth(F, p) = lev
    BY <1>1, DepthNext
<1>3. Around(F, p + 1) = Around(F, p)
    <2>1. \A i \in Around(F, p) : Depth(F, p) >= Depth(F, i)
        BY <1>1, <1>2 DEF Blocks
    <2>2. Around(F, p + 1) = {i \in Around(F, p) : Depth(F, p) >= Depth(F, i)}
        BY <1>1, <1>2, AroundNext
    <2> QED BY <2>1, <2>2
<1>4. \A i \in 0..(p - 1) : \A d :
         Odd(Elses(F, i, p + 1, d)) <=>
            IF lev = d THEN ~Odd(Elses(F, i, p, d)) ELSE Odd(Elses(F, i, p, d))
    BY <1>1, <1>2, ElsesNext
<1>5. Around(F, p) \subseteq 0..(p - 1) /\ 0 \in 0..(p - 1)
    BY <1>1, AroundBefore
<1>6. /\ ig \in [0..(IgnoreSize - 1) -> BOOLEAN]
      /\ \A d \in 0..lev : ig[d] <=> IF lev = d THEN ~ignore[d] ELSE ignore[d]
    <2> DEFINE S == 0..(IgnoreSize - 1)
               v == ~ignore[lev]
    <2>1. lev \in S /\ 0..lev \subseteq S /\ ignore \in [S -> BOOLEAN]
        BY <1>1 DEF Blocks
    <2>2. v \in BOOLEAN
        BY Zenon
    <2> HIDE DEF S, v
    <2>3. /\ [ignore EXCEPT ![lev] = v] \in [S -> BOOLEAN]
          /\ [ignore EXCEPT ![lev] = v][lev] = v
          /\ \A d \in S \ {lev} : [ignore EXCEPT ![lev] = v][d] = ignore[d]
        BY <2>1, <2>2, FlagSet
    <2>4. ASSUME NEW d \in 0..lev
          PROVE  ig[d] <=> IF lev = d THEN ~ignore[d] ELSE ignore[d]
        BY <2>1, <2>3, Zenon DEF v
    <2> QED BY <2>3, <2>4, Zenon DEF S, v
<1> HIDE DEF ig
<1>7. ASSUME NEW i \in Around(F, p)
      PROVE  /\ Depth(F, i) \in 1..lev
             /\ ig[Depth(F, i)] <=> (i \in truth <=> Odd(Elses(F, i, p + 1, Depth(F, i))))
    <2>1. Depth(F, i) \in 1..lev
          /\ (ignore[Depth(F, i)] <=> (i \in truth <=> Odd(Elses(F, i, p, Depth(F, i)))))
        BY DEF Blocks
    <2>2. Depth(F, i) \in 0..lev
        BY <1>1, <2>1
    <2> QED BY <2>1, <2>2, <1>4, <1>5, <1>6
<1>8. ig[0] <=> Odd(Elses(F, 0, p + 1, 0))
    <2>1. 0 \in 0..lev
        BY <1>1
    <2>2. ignore[0] <=> Odd(Elses(F, 0, p, 0))
        BY DEF Blocks
    <2> QED BY <2>1, <2>2, <1>4, <1>5, <1>6
<1>9. Blocks(F, p + 1, lev, ig, truth)
    BY <1>1, <1>2, <1>3, <1>6, <1>7, <1>8 DEF Blocks
<1> QED BY <1>9 DEF ig

\* An .endif closes the innermost block.
LEMMA BlocksEndif ==
    ASSUME NEW F, NEW p, NEW lev, NEW ignore, NEW truth, Blocks(F, p, lev, ignore, truth),
           F[p].op = "endif", lev # 0
    PROVE  Blocks(F, p + 1, lev - 1, ignore, truth)
<1>1. p \in Nat \ {0} /\ p + 1 \in Nat \ {0} /\ (p + 1) - 1 = p
      /\ lev \in Nat /\ lev = Depth(F, p - 1) /\ IgnoreSize \in Nat
      /\ lev - 1 \in 0..(IgnoreSize - 1)
    BY LimitsTyped DEF Blocks
<1>2. Depth(F, p) = lev - 1
    BY <1>1, DepthNext
<1>3. Around(F, p + 1) = {i \in Around(F, p) : lev - 1 >= Depth(F, i)}
    BY <1>1, <1>2, AroundNext
<1>4. \A i \in 0..(p - 1) : \A d : Odd(Elses(F, i, p + 1, d)) <=> Odd(Elses(F, i, p, d))
    BY <1>1, ElsesNext
<1>5. Around(F, p) \subseteq 0..(p - 1) /\ 0 \in 0..(p - 1)
    BY <1>1, AroundBefore
<1>6. \A i \in Around(F, p + 1) :
         /\ Depth(F, i) \in 1..(lev - 1)
         /\ ignore[Depth(F, i)] <=> (i \in truth <=> Odd(Elses(F, i, p + 1, Depth(F, i))))
    BY <1>1, <1>3, <1>4, <1>5 DEF Blocks
<1>7. ASSUME NEW d \in 1..(lev - 1)
      PROVE  \E i \in Around(F, p + 1) : Depth(F, i) = d
    <2>1. d \in 1..lev /\ lev - 1 >= d
        BY <1>1
    <2>2. PICK i \in Around(F, p) : Depth(F, i) = d
        BY <2>1 DEF Blocks
    <2> QED BY <2>1, <2>2, <1>3
<1> QED BY <1>1, <1>2, <1>3, <1>4, <1>5, <1>6, <1>7 DEF Blocks

----------------------------------------------------------------------------
(* Reading the rc file.                                                     *)

\* The table answers as the dictionary does.
Answers(t, d) ==
    /\ Sound(t)
    /\ d = [k \in Key |-> d[k]]
    /\ ~t.stray => \A k \in Key : Lookup(t, k) = d[k]

LEMMA InsertAnswers ==
    ASSUME NEW t, NEW d, Answers(t, d), NEW k \in Key, NEW v, ~insert(t, k, v).throw
    PROVE  /\ Answers(insert(t, k, v).table, [d EXCEPT ![k] = v])
           /\ t.stray => insert(t, k, v).table.stray
<1> DEFINE u == insert(t, k, v).table
<1>1. /\ Sound(u)
      /\ t.stray => u.stray
      /\ ~u.stray => \A x \in Key : Lookup(u, x) = IF x = k THEN v ELSE Lookup(t, x)
    BY InsertIsAssignment DEF Answers
<1> HIDE DEF u
<1>2. /\ [d EXCEPT ![k] = v] = [x \in Key |-> [d EXCEPT ![k] = v][x]]
      /\ \A x \in Key : [d EXCEPT ![k] = v][x] = IF x = k THEN v ELSE d[x]
    BY DEF Answers
<1>3. Answers(u, [d EXCEPT ![k] = v])
    BY <1>1, <1>2 DEF Answers
<1> QED BY <1>1, <1>3 DEF u

LEMMA AtolDigit ==
    ASSUME NEW s
    PROVE  atol(s) \in 0..9
<1>1. CASE \E n \in 0..9 : s = Decimal(n)
    BY <1>1, Zenon DEF atol
<1>2. CASE ~\E n \in 0..9 : s = Decimal(n)
    BY <1>2 DEF atol
<1> QED BY <1>1, <1>2

\* An assignment, of one key or of the next element of an array.
LEMMA AddAnswers ==
    ASSUME NEW t, NEW d, Answers(t, d), NEW k, NEW v, NEW array,
           (IF array THEN ArrayKeys(k) ELSE {k}) \subseteq Key,
           NEW r \in _add2(t, k, v, array), ~r.throw
    PROVE  Answers(r.table, Assign(d, k, v, array))
<1>1. CASE ~array
    <2>1. k \in Key /\ r = insert(t, k, v) /\ Assign(d, k, v, array) = [d EXCEPT ![k] = v]
        BY <1>1 DEF _add2, Assign
    <2>2. ~insert(t, k, v).throw
        BY <2>1
    <2>3. Answers(insert(t, k, v).table, [d EXCEPT ![k] = v])
        BY <2>1, <2>2, InsertAnswers
    <2> QED BY <2>1, <2>3
<1>2. CASE array
    <2> DEFINE n == atol(Lookup(t, CountKey(k)))
               m == atol(d[CountKey(k)])
               first == insert(t, ElementKey(k, n), v)
    <2>1. CountKey(k) \in Key
        BY <1>2 DEF ArrayKeys
    <2>2. n \in 0..9 /\ m \in 0..9
        BY AtolDigit
    <2>3. ElementKey(k, n) \in Key /\ ElementKey(k, m) \in Key
        BY <1>2, <2>2 DEF ArrayKeys
    <2>4. r = IF first.throw THEN first
              ELSE insert(first.table, CountKey(k), Decimal(n + 1))
        BY <1>2 DEF _add2
    <2>5. ~first.throw
        BY <2>4
    <2>6. r = insert(first.table, CountKey(k), Decimal(n + 1))
        BY <2>4, <2>5
    <2> DEFINE d1 == [d EXCEPT ![ElementKey(k, n)] = v]
               d2 == [d1 EXCEPT ![CountKey(k)] = Decimal(n + 1)]
    <2>7. Answers(first.table, d1) /\ (t.stray => first.table.stray)
        BY <2>3, <2>5, InsertAnswers
    <2>8. Answers(r.table, d2) /\ (first.table.stray => r.table.stray)
        <3> HIDE DEF first, n, d1
        <3> QED BY <2>1, <2>6, <2>7, InsertAnswers
    <2>9. Assign(d, k, v, array) =
             [d EXCEPT ![ElementKey(k, m)] = v, ![CountKey(k)] = Decimal(m + 1)]
        BY <1>2 DEF Assign
    <2> HIDE DEF n, m, first
    <2>10. CASE r.table.stray
        <3> DEFINE D == [d EXCEPT ![ElementKey(k, m)] = v, ![CountKey(k)] = Decimal(m + 1)]
        <3>1. D = [x \in Key |-> D[x]]
            BY <2>1, <2>3 DEF Answers
        <3> HIDE DEF D
        <3> QED BY <2>8, <2>9, <2>10, <3>1 DEF Answers, D
    <2>11. CASE ~r.table.stray
        <3>1. n = m
            BY <2>1, <2>7, <2>8, <2>11 DEF Answers, n, m
        <3>2. Assign(d, k, v, array) = d2
            BY <2>9, <3>1
        <3> QED BY <2>8, <3>2
    <2> QED BY <2>10, <2>11
<1> QED BY <1>1, <1>2

FrameType ==
    [file : File, pos : Nat, lev : Nat, ignore : [0..(IgnoreSize - 1) -> BOOLEAN],
     truth : SUBSET Nat]

FrameOk(f, fs) == f \in FrameType /\ Blocks(fs[f.file], f.pos, f.lev, f.ignore, f.truth)

FramesOk(fr, fs) == fr \in Seq(FrameType) /\ \A n \in 1..Len(fr) : FrameOk(fr[n], fs)

LEMMA FramesSet ==
    ASSUME NEW fr, NEW fs, FramesOk(fr, fs), Len(fr) # 0, NEW f, FrameOk(f, fs)
    PROVE  LET g == [fr EXCEPT ![Len(fr)] = f] IN FramesOk(g, fs) /\ Len(g) = Len(fr)
BY DEF FramesOk, FrameOk

LEMMA FramesPush ==
    ASSUME NEW fr, NEW fs, FramesOk(fr, fs), NEW f, FrameOk(f, fs)
    PROVE  FramesOk(Append(fr, f), fs) /\ Len(Append(fr, f)) # 0
<1> DEFINE g == Append(fr, f)
<1>1. /\ g \in Seq(FrameType) /\ Len(g) = Len(fr) + 1 /\ Len(fr) \in Nat
      /\ g[Len(fr) + 1] = f
      /\ \A n \in 1..Len(fr) : g[n] = fr[n]
    BY DEF FramesOk, FrameOk
<1> HIDE DEF g
<1>2. 1..Len(g) = (1..Len(fr)) \cup {Len(fr) + 1}
    BY <1>1
<1>3. FramesOk(g, fs) /\ Len(g) # 0
    BY <1>1, <1>2 DEF FramesOk
<1> QED BY <1>3 DEF g

LEMMA FramesPop ==
    ASSUME NEW fr, NEW fs, FramesOk(fr, fs), Len(fr) # 0
    PROVE  LET g == SubSeq(fr, 1, Len(fr) - 1) IN FramesOk(g, fs) /\ Len(g) = Len(fr) - 1
<1> DEFINE g == SubSeq(fr, 1, Len(fr) - 1)
<1>1. fr \in Seq(FrameType) /\ Len(fr) \in Nat
    BY DEF FramesOk
<1>2. Len(g) = Len(fr) - 1 /\ \A n \in 1..Len(g) : g[n] = fr[n] /\ n \in 1..Len(fr)
    <2> DEFINE z == Len(fr) - 1
    <2>1. z \in Nat /\ z <= Len(fr)
        BY <1>1
    <2> HIDE DEF z
    <2>2. Len(SubSeq(fr, 1, z)) = z
        BY <1>1, <2>1
    <2>3. \A n \in 1..z : SubSeq(fr, 1, z)[n] = fr[n]
        BY <1>1, <2>1
    <2>4. 1..z \subseteq 1..Len(fr)
        BY <1>1, <2>1
    <2> QED BY <2>2, <2>3, <2>4 DEF z
<1>3. g \in Seq(FrameType)
    <2> HIDE DEF FrameType
    <2> QED BY <1>1
<1> HIDE DEF g
<1>4. FramesOk(g, fs) /\ Len(g) = Len(fr) - 1
    BY <1>2, <1>3 DEF FramesOk
<1> QED BY <1>4 DEF g

LEMMA FrameStarts ==
    ASSUME NEW f \in File, NEW fs
    PROVE  FrameOk(Frame(f), fs)
<1>1. Frame(f) \in FrameType
    BY DEF Frame, FrameType
<1>2. Blocks(fs[f], 1, 0, [i \in 0..(IgnoreSize - 1) |-> FALSE], {})
    BY BlocksStart
<1> QED BY <1>1, <1>2 DEF FrameOk, Frame

\* A frame that goes on to the next line, by what the line is.
LEMMA FramePlain ==
    ASSUME NEW f, NEW fs, FrameOk(f, fs), fs[f.file][f.pos].op \notin {"if", "else", "endif"}
    PROVE  FrameOk([f EXCEPT !.pos = @ + 1], fs)
<1>1. Blocks(fs[f.file], f.pos + 1, f.lev, f.ignore, f.truth)
    BY BlocksPlain DEF FrameOk
<1> QED BY <1>1 DEF FrameOk, FrameType

LEMMA FrameMade ==
    ASSUME NEW a \in File, NEW fs, NEW p, NEW lev, NEW ig, NEW tr, Blocks(fs[a], p, lev, ig, tr)
    PROVE  FrameOk([file |-> a, pos |-> p, lev |-> lev, ignore |-> ig, truth |-> tr], fs)
<1>1. /\ p \in Nat /\ lev \in Nat /\ ig \in [0..(IgnoreSize - 1) -> BOOLEAN]
      /\ tr \in SUBSET Nat
    BY LimitsTyped DEF Blocks
<1> DEFINE I == [0..(IgnoreSize - 1) -> BOOLEAN]
           T == SUBSET Nat
           g == [file |-> a, pos |-> p, lev |-> lev, ignore |-> ig, truth |-> tr]
<1>2. ig \in I /\ tr \in T
    BY <1>1
<1> HIDE DEF I, T
<1>3. g \in [file : File, pos : Nat, lev : Nat, ignore : I, truth : T]
    BY <1>1, <1>2
<1>4. g \in FrameType
    BY <1>3 DEF I, T, FrameType
<1>5. g.file = a /\ g.pos = p /\ g.lev = lev /\ g.ignore = ig /\ g.truth = tr
    OBVIOUS
<1> HIDE DEF g
<1>6. FrameOk(g, fs)
    BY <1>4, <1>5 DEF FrameOk
<1> QED BY <1>6 DEF g

LEMMA FrameRecord ==
    ASSUME NEW f, NEW fs, FrameOk(f, fs)
    PROVE  /\ f.file \in File
           /\ f = [file |-> f.file, pos |-> f.pos, lev |-> f.lev, ignore |-> f.ignore,
                   truth |-> f.truth]
BY DEF FrameOk, FrameType

\* A frame with another value in one of its fields.
LEMMA FrameUpdate ==
    ASSUME NEW a, NEW p, NEW l, NEW i, NEW t, NEW x, NEW j, NEW f,
           f = [file |-> a, pos |-> p, lev |-> l, ignore |-> i, truth |-> t]
    PROVE  /\ [f EXCEPT !.pos = x]
                 = [file |-> a, pos |-> x, lev |-> l, ignore |-> i, truth |-> t]
           /\ [f EXCEPT !.lev = x]
                 = [file |-> a, pos |-> p, lev |-> x, ignore |-> i, truth |-> t]
           /\ [f EXCEPT !.ignore[j] = x]
                 = [file |-> a, pos |-> p, lev |-> l, ignore |-> [i EXCEPT ![j] = x], truth |-> t]
           /\ [f EXCEPT !.truth = x]
                 = [file |-> a, pos |-> p, lev |-> l, ignore |-> i, truth |-> x]
<1>1. [f EXCEPT !.pos = x] = [file |-> a, pos |-> x, lev |-> l, ignore |-> i, truth |-> t]
    OBVIOUS
<1>2. [f EXCEPT !.lev = x] = [file |-> a, pos |-> p, lev |-> x, ignore |-> i, truth |-> t]
    OBVIOUS
<1>3. [f EXCEPT !.ignore[j] = x]
         = [file |-> a, pos |-> p, lev |-> l, ignore |-> [i EXCEPT ![j] = x], truth |-> t]
    OBVIOUS
<1>4. [f EXCEPT !.truth = x] = [file |-> a, pos |-> p, lev |-> l, ignore |-> i, truth |-> x]
    OBVIOUS
<1> QED BY <1>1, <1>2, <1>3, <1>4

\* The next line.
LEMMA FrameForth ==
    ASSUME NEW f, NEW fs, FrameOk(f, fs)
    PROVE  [f EXCEPT !.pos = @ + 1] =
              [file |-> f.file, pos |-> f.pos + 1, lev |-> f.lev, ignore |-> f.ignore,
               truth |-> f.truth]
BY FrameRecord

\* A frame behind the line that it was at: an .if whose condition is c, an .else or
\* an .endif.
IfFrame(f, c) ==
    [[f EXCEPT !.pos = @ + 1] EXCEPT !.lev = @ + 1, !.ignore[f.lev + 1] = ~c,
                                     !.truth = IF c THEN @ \cup {f.pos} ELSE @]
ElseFrame(f) == [[f EXCEPT !.pos = @ + 1] EXCEPT !.ignore[f.lev] = ~@]
EndifFrame(f) == [[f EXCEPT !.pos = @ + 1] EXCEPT !.lev = @ - 1]

LEMMA FrameIf ==
    ASSUME NEW f, NEW fs, FrameOk(f, fs), fs[f.file][f.pos].op = "if", f.lev + 1 < IgnoreSize,
           NEW c
    PROVE  FrameOk(IfFrame(f, c), fs)
<1> DEFINE v == ~c
           ig == [f.ignore EXCEPT ![f.lev + 1] = v]
           tr == IF c THEN f.truth \cup {f.pos} ELSE f.truth
           g0 == [f EXCEPT !.pos = @ + 1]
           g1 == [g0 EXCEPT !.lev = f.lev + 1]
           g2 == [g1 EXCEPT !.ignore[f.lev + 1] = v]
           g3 == [g2 EXCEPT !.truth = tr]
<1>1. Blocks(fs[f.file], f.pos + 1, f.lev + 1, ig, tr)
    BY BlocksIf DEF FrameOk
<1> HIDE DEF g0, g1, g2, g3, ig, tr, v
<1>2. g0 = [file |-> f.file, pos |-> f.pos + 1, lev |-> f.lev, ignore |-> f.ignore,
            truth |-> f.truth]
    BY FrameForth DEF g0
<1>3. g1 = [file |-> f.file, pos |-> f.pos + 1, lev |-> f.lev + 1, ignore |-> f.ignore,
            truth |-> f.truth]
    BY <1>2, FrameUpdate DEF g1
<1>4. g2 = [file |-> f.file, pos |-> f.pos + 1, lev |-> f.lev + 1, ignore |-> ig,
            truth |-> f.truth]
    BY <1>3, FrameUpdate DEF g2, ig
<1>5. g3 = [file |-> f.file, pos |-> f.pos + 1, lev |-> f.lev + 1, ignore |-> ig, truth |-> tr]
    BY <1>4, FrameUpdate DEF g3
<1>6. FrameOk(g3, fs)
    BY <1>1, <1>5, FrameMade, FrameRecord
<1>7. \A y, z : [g0 EXCEPT !.lev = @ + 1, !.ignore[f.lev + 1] = y, !.truth = z]
                  = [[[g0 EXCEPT !.lev = g0.lev + 1] EXCEPT !.ignore[f.lev + 1] = y]
                        EXCEPT !.truth = z]
    OBVIOUS
<1>8. g0.lev = f.lev /\ g0.truth = f.truth
    BY <1>2
<1>9. [g0 EXCEPT !.lev = @ + 1, !.ignore[f.lev + 1] = v, !.truth = tr] = g3
    BY <1>7, <1>8 DEF g1, g2, g3
<1>10. FrameOk([g0 EXCEPT !.lev = @ + 1, !.ignore[f.lev + 1] = v, !.truth = tr], fs)
    BY <1>6, <1>9
<1>11. tr = IF c THEN g0.truth \cup {f.pos} ELSE g0.truth
    BY <1>8 DEF tr
<1>12. FrameOk([g0 EXCEPT !.lev = @ + 1, !.ignore[f.lev + 1] = v,
                          !.truth = IF c THEN g0.truth \cup {f.pos} ELSE g0.truth], fs)
    BY <1>10, <1>11
<1> QED BY <1>12 DEF v, g0, IfFrame

LEMMA FrameElse ==
    ASSUME NEW f, NEW fs, FrameOk(f, fs), fs[f.file][f.pos].op = "else"
    PROVE  FrameOk(ElseFrame(f), fs)
<1> DEFINE v == ~f.ignore[f.lev]
           ig == [f.ignore EXCEPT ![f.lev] = v]
           g0 == [f EXCEPT !.pos = @ + 1]
           g1 == [g0 EXCEPT !.ignore[f.lev] = v]
<1>1. Blocks(fs[f.file], f.pos + 1, f.lev, ig, f.truth)
    BY BlocksElse DEF FrameOk
<1> HIDE DEF g0, g1, ig, v
<1>2. g0 = [file |-> f.file, pos |-> f.pos + 1, lev |-> f.lev, ignore |-> f.ignore,
            truth |-> f.truth]
    BY FrameForth DEF g0
<1>3. g1 = [file |-> f.file, pos |-> f.pos + 1, lev |-> f.lev, ignore |-> ig,
            truth |-> f.truth]
    BY <1>2, FrameUpdate DEF g1, ig
<1>4. FrameOk(g1, fs)
    BY <1>1, <1>3, FrameMade, FrameRecord
<1>5. g0.ignore = f.ignore
    BY <1>2
<1>6. FrameOk([g0 EXCEPT !.ignore[f.lev] = ~g0.ignore[f.lev]], fs)
    BY <1>4, <1>5 DEF g1, v
<1> QED BY <1>6 DEF g0, ElseFrame

LEMMA FrameEndif ==
    ASSUME NEW f, NEW fs, FrameOk(f, fs), fs[f.file][f.pos].op = "endif", f.lev # 0
    PROVE  FrameOk(EndifFrame(f), fs)
<1> DEFINE g0 == [f EXCEPT !.pos = @ + 1]
           g1 == [g0 EXCEPT !.lev = f.lev - 1]
<1>1. Blocks(fs[f.file], f.pos + 1, f.lev - 1, f.ignore, f.truth)
    BY BlocksEndif DEF FrameOk
<1> HIDE DEF g0, g1
<1>2. g0 = [file |-> f.file, pos |-> f.pos + 1, lev |-> f.lev, ignore |-> f.ignore,
            truth |-> f.truth]
    BY FrameForth DEF g0
<1>3. g1 = [file |-> f.file, pos |-> f.pos + 1, lev |-> f.lev - 1, ignore |-> f.ignore,
            truth |-> f.truth]
    BY <1>2, FrameUpdate DEF g1
<1>4. FrameOk(g1, fs)
    BY <1>1, <1>3, FrameMade, FrameRecord
<1>5. g0.lev = f.lev
    BY <1>2
<1>6. FrameOk([g0 EXCEPT !.lev = g0.lev - 1], fs)
    BY <1>4, <1>5 DEF g1
<1> QED BY <1>6 DEF g0, EndifFrame

\* The invariant of the reader.  The table answers as the assignments in force say,
\* and every activation of load knows which lines are in force.
RcInv ==
    /\ files \in Contents
    /\ Answers(h, dict)
    /\ FramesOk(frames, files)
    /\ outcome = "loading" => Len(frames) # 0

LEMMA TopOk ==
    ASSUME RcInv, outcome = "loading"
    PROVE  FrameOk(Top, files) /\ Top \in FrameType /\ Len(frames) # 0
<1>1. Len(frames) \in 1..Len(frames)
    BY DEF RcInv, FramesOk
<1> QED BY <1>1 DEF RcInv, FramesOk, FrameOk, Top

\* The innermost activation goes on with the frame f.
LEMMA SetTopOk ==
    ASSUME RcInv, outcome = "loading", NEW f, FrameOk(f, files)
    PROVE  LET g == [frames EXCEPT ![Len(frames)] = f] IN FramesOk(g, files) /\ Len(g) # 0
BY TopOk, FramesSet DEF RcInv

\* A line that is read is one of the file, and the frame behind it is right.
LEMMA LineRead ==
    ASSUME RcInv, NEW op, Reading(op)
    PROVE  /\ outcome = "loading" /\ Line.op = op /\ Line = files[Top.file][Top.pos]
           /\ op \notin {"if", "else", "endif"} => FrameOk(NextLine, files)
           /\ op = "set" => Assigns(Line) \subseteq Key
<1>1. outcome = "loading" /\ Line.op = op /\ Line = files[Top.file][Top.pos]
      /\ Top.pos <= Len(files[Top.file])
    BY DEF Reading, Line
<1>2. FrameOk(Top, files)
    BY <1>1, TopOk
<1>3. Top.file \in File /\ Top.pos \in Nat \ {0}
    BY <1>2, FrameRecord DEF FrameOk, Blocks
<1>4. op \notin {"if", "else", "endif"} => FrameOk(NextLine, files)
    BY <1>1, <1>2, FramePlain DEF NextLine
<1>5. op = "set" => Assigns(Line) \subseteq Key
    <2>1. Len(files[Top.file]) \in Nat /\ \A i \in 1..Len(files[Top.file]) :
             files[Top.file][i].op = "set" => Assigns(files[Top.file][i]) \subseteq Key
        BY <1>3, TextsTyped DEF RcInv
    <2>2. Top.pos \in 1..Len(files[Top.file])
        BY <1>1, <1>3, <2>1
    <2> QED BY <1>1, <2>1, <2>2
<1> QED BY <1>1, <1>4, <1>5

LEMMA AssignmentKeeps ==
    ASSUME RcInv, ReadAssignment
    PROVE  RcInv'
<1>1. PICK v : /\ IF Ignored(Top) THEN SetTop(NextLine) /\ UNCHANGED <<h, outcome>>
                  ELSE IF v = Null THEN outcome' = "throw" /\ UNCHANGED <<h, frames>>
                  ELSE Store(Line.key, v, Line.array, Advanced)
               /\ dict' = IF outcome' # "throw" /\ InForce(files[Top.file], Top.pos, Top.truth)
                          THEN Assign(dict, Line.key, v, Line.array) ELSE dict
    BY DEF ReadAssignment
<1>2. Reading("set") /\ files' = files
    BY DEF ReadAssignment
<1>3. outcome = "loading" /\ FrameOk(NextLine, files) /\ Assigns(Line) \subseteq Key
    BY <1>2, LineRead
<1>4. FramesOk(Advanced, files) /\ Len(Advanced) # 0
    BY <1>3, SetTopOk DEF Advanced
<1>5. Ignored(Top) <=> ~InForce(files[Top.file], Top.pos, Top.truth)
    BY <1>3, TopOk, IgnoredIffNotInForce DEF FrameOk, Ignored
<1>6. CASE Ignored(Top)
    <2>1. frames' = Advanced /\ h' = h /\ outcome' = outcome /\ dict' = dict
        BY <1>1, <1>5, <1>6 DEF SetTop, Advanced
    <2> QED BY <1>2, <1>4, <2>1 DEF RcInv
<1>7. CASE ~Ignored(Top) /\ v = Null
    <2>1. frames' = frames /\ h' = h /\ outcome' = "throw" /\ dict' = dict
        BY <1>1, <1>7
    <2> QED BY <1>2, <2>1 DEF RcInv
<1>8. CASE ~Ignored(Top) /\ v # Null
    <2>1. Store(Line.key, v, Line.array, Advanced)
        BY <1>1, <1>8
    <2>2. PICK r \in _add2(h, Line.key, v, Line.array) :
             IF r.throw THEN outcome' = "throw" /\ UNCHANGED <<h, frames>>
             ELSE h' = r.table /\ frames' = Advanced /\ UNCHANGED outcome
        BY <2>1 DEF Store
    <2>3. CASE r.throw
        <3>1. frames' = frames /\ h' = h /\ outcome' = "throw" /\ dict' = dict
            BY <1>1, <2>2, <2>3
        <3> QED BY <1>2, <3>1 DEF RcInv
    <2>4. CASE ~r.throw
        <3>1. frames' = Advanced /\ h' = r.table /\ outcome' = "loading"
            BY <2>2, <2>4, <1>3
        <3>2. dict' = Assign(dict, Line.key, v, Line.array)
            BY <1>1, <1>5, <1>8, <3>1
        <3>3. Answers(r.table, Assign(dict, Line.key, v, Line.array))
            BY <1>3, <2>2, <2>4, AddAnswers DEF RcInv, Assigns
        <3> QED BY <1>2, <1>4, <3>1, <3>2, <3>3 DEF RcInv
    <2> QED BY <2>3, <2>4
<1> QED BY <1>6, <1>7, <1>8

LEMMA IncludeKeeps ==
    ASSUME RcInv, ReadInclude
    PROVE  RcInv'
<1>1. Reading("include") /\ files' = files
    BY DEF ReadInclude
<1>2. outcome = "loading" /\ FrameOk(NextLine, files)
    BY <1>1, LineRead
<1>3. FramesOk(Advanced, files) /\ Len(Advanced) # 0
    BY <1>2, SetTopOk DEF Advanced
<1>4. CASE recursion_cnt > MaxInclude \/ Line.file \notin File
    <2>1. outcome' = "throw" /\ h' = h /\ frames' = frames /\ dict' = dict
        BY <1>4 DEF ReadInclude
    <2> QED BY <1>1, <2>1 DEF RcInv
<1>5. CASE ~(recursion_cnt > MaxInclude \/ Line.file \notin File)
    <2> DEFINE f == Line.file
               fs == Append(Advanced, Frame(f))
    <2>1. f \in File /\ load(f, Advanced)
        BY <1>5 DEF ReadInclude
    <2>2. FrameOk(Frame(f), files)
        BY <2>1, FrameStarts
    <2> HIDE DEF f
    <2>3. FramesOk(fs, files) /\ Len(fs) # 0
        BY <1>3, <2>2, FramesPush
    <2>4. /\ Store(FileKey, f, TRUE, fs)
          /\ dict' = IF outcome' = "throw" THEN dict ELSE Assign(dict, FileKey, f, TRUE)
        BY <2>1 DEF load
    <2> HIDE DEF fs
    <2>5. PICK r \in _add2(h, FileKey, f, TRUE) :
             IF r.throw THEN outcome' = "throw" /\ UNCHANGED <<h, frames>>
             ELSE h' = r.table /\ frames' = fs /\ UNCHANGED outcome
        BY <2>4 DEF Store
    <2>6. CASE r.throw
        <3>1. frames' = frames /\ h' = h /\ outcome' = "throw" /\ dict' = dict
            BY <2>4, <2>5, <2>6
        <3> QED BY <1>1, <3>1 DEF RcInv
    <2>7. CASE ~r.throw
        <3>1. frames' = fs /\ h' = r.table /\ outcome' = "loading"
            BY <2>5, <2>7, <1>2
        <3>2. dict' = Assign(dict, FileKey, f, TRUE)
            BY <2>4, <3>1
        <3>3. Answers(r.table, Assign(dict, FileKey, f, TRUE))
            BY <2>5, <2>7, FileKeys, AddAnswers DEF RcInv
        <3> QED BY <1>1, <2>3, <3>1, <3>2, <3>3 DEF RcInv
    <2> QED BY <2>6, <2>7
<1> QED BY <1>4, <1>5

\* The other lines change the frames only.
LEMMA FramesOnly ==
    ASSUME RcInv, NEW fr, FramesOk(fr, files),
           frames' = fr, UNCHANGED <<files, h, dict>>,
           outcome' = "loading" => Len(fr) # 0
    PROVE  RcInv'
BY DEF RcInv

LEMMA OtherLinesKeep ==
    ASSUME RcInv, ReadIf \/ ReadElse \/ ReadEndif \/ ReadEnd \/ ReadNothing
    PROVE  RcInv'
<1>1. outcome = "loading"
    BY DEF ReadIf, ReadElse, ReadEndif, ReadEnd, ReadNothing, Reading
<1>2. FrameOk(Top, files) /\ Len(frames) # 0 /\ FramesOk(frames, files)
    BY <1>1, TopOk DEF RcInv
<1>3. CASE ReadIf
    <2>1. files[Top.file][Top.pos].op = "if" /\ UNCHANGED <<files, h, dict>>
        BY <1>3, LineRead DEF ReadIf
    <2>2. CASE frames' = frames
        BY <1>2, <2>1, <2>2, FramesOnly
    <2>3. CASE frames' # frames
        <3> DEFINE c == expand_condition(h, Line.cond)
                   f == [NextLine EXCEPT !.lev = @ + 1, !.ignore[Top.lev + 1] = ~c,
                                         !.truth = IF c THEN @ \cup {Top.pos} ELSE @]
        <3>1. ~(Top.lev + 1 >= IgnoreSize) /\ SetTop(f)
            BY <1>3, <2>3 DEF ReadIf
        <3>2. Top.lev + 1 < IgnoreSize
            BY <3>1, <1>2, LimitsTyped DEF FrameOk, Blocks
        <3> HIDE DEF c
        <3>3. FrameOk(f, files)
            <4>1. FrameOk(Top, files) /\ files[Top.file][Top.pos].op = "if"
                BY <1>2, <2>1
            <4>2. FrameOk(IfFrame(Top, c), files)
                BY ONLY <4>1, <3>2, FrameIf
            <4> QED BY ONLY <4>2 DEF IfFrame, NextLine
        <3> HIDE DEF f
        <3>4. frames' = [frames EXCEPT ![Len(frames)] = f]
            BY <3>1 DEF SetTop
        <3> QED BY <1>1, <2>1, <3>3, <3>4, SetTopOk, FramesOnly
    <2> QED BY <2>2, <2>3
<1>4. CASE ReadElse
    <2> DEFINE f == [NextLine EXCEPT !.ignore[Top.lev] = ~@]
    <2>1. files[Top.file][Top.pos].op = "else" /\ UNCHANGED <<files, h, dict>> /\ SetTop(f)
        BY <1>4, LineRead DEF ReadElse
    <2>2. FrameOk(f, files)
        <3>1. FrameOk(ElseFrame(Top), files)
            BY <1>2, <2>1, FrameElse
        <3> QED BY ONLY <3>1 DEF ElseFrame, NextLine
    <2> HIDE DEF f
    <2>3. frames' = [frames EXCEPT ![Len(frames)] = f]
        BY <2>1 DEF SetTop
    <2> QED BY <1>1, <2>1, <2>2, <2>3, SetTopOk, FramesOnly
<1>5. CASE ReadEndif
    <2>1. files[Top.file][Top.pos].op = "endif" /\ UNCHANGED <<files, h, dict>>
        BY <1>5, LineRead DEF ReadEndif, Throw
    <2>2. CASE Top.lev = 0
        BY <1>2, <1>5, <2>1, <2>2, FramesOnly DEF ReadEndif, Throw
    <2>3. CASE Top.lev # 0
        <3> DEFINE f == [NextLine EXCEPT !.lev = @ - 1]
        <3>1. SetTop(f)
            BY <1>5, <2>3 DEF ReadEndif
        <3>2. FrameOk(f, files)
            <4>1. FrameOk(EndifFrame(Top), files)
                BY <1>2, <2>1, <2>3, FrameEndif
            <4> QED BY ONLY <4>1 DEF EndifFrame, NextLine
        <3> HIDE DEF f
        <3>3. frames' = [frames EXCEPT ![Len(frames)] = f]
            BY <3>1 DEF SetTop
        <3> QED BY <1>1, <2>1, <3>2, <3>3, SetTopOk, FramesOnly
    <2> QED BY <2>2, <2>3
<1>6. CASE ReadEnd
    <2>1. CASE Top.lev # 0
        BY <1>2, <1>6, <2>1, FramesOnly DEF ReadEnd, Throw
    <2>2. CASE Top.lev = 0
        <3> DEFINE g == SubSeq(frames, 1, Len(frames) - 1)
        <3>1. frames' = g /\ UNCHANGED <<files, h, dict>>
              /\ outcome' = IF Len(frames) = 1 THEN "loaded" ELSE "loading"
            BY <1>6, <2>2 DEF ReadEnd
        <3>2. FramesOk(g, files) /\ Len(g) = Len(frames) - 1
            BY <1>2, FramesPop
        <3>3. Len(frames) \in Nat
            BY <1>2 DEF FramesOk
        <3> HIDE DEF g
        <3>4. outcome' = "loading" => Len(g) # 0
            BY <3>1, <3>2, <3>3
        <3> QED BY <3>1, <3>2, <3>4, FramesOnly
    <2> QED BY <2>1, <2>2
<1>7. CASE ReadNothing
    <2>1. FrameOk(NextLine, files) /\ UNCHANGED <<files, h, dict>>
          /\ frames' = [frames EXCEPT ![Len(frames)] = NextLine]
        BY <1>7, LineRead DEF ReadNothing, SetTop
    <2> QED BY <1>1, <2>1, SetTopOk, FramesOnly
<1> QED BY <1>3, <1>4, <1>5, <1>6, <1>7

LEMMA RcInvInit ==
    ASSUME RcInit
    PROVE  RcInv
<1> DEFINE t == NewTable(HashMin)
           d == [k \in Key |-> Null]
<1>1. Answers(t, d)
    <2>1. HashMin \in Nat \ {0}
        BY SizesTyped
    <2> QED BY <2>1, NewTableEmpty DEF Answers
<1>2. FramesOk(<<Frame(MainFile)>>, files) /\ Len(<<Frame(MainFile)>>) # 0
    <2>1. FrameOk(Frame(MainFile), files)
        BY MainIsFile, FrameStarts
    <2> QED BY <2>1 DEF FramesOk, FrameOk
<1>3. files \in Contents /\ frames = <<Frame(MainFile)>>
    BY DEF RcInit
<1> HIDE DEF t, d
<1>4. PICK r \in _add2(t, FileKey, MainFile, TRUE) :
         /\ h = IF r.throw THEN t ELSE r.table
         /\ dict = IF r.throw THEN d ELSE Assign(d, FileKey, MainFile, TRUE)
    BY DEF RcInit, t, d
<1>5. Answers(h, dict)
    <2>1. CASE r.throw
        BY <1>1, <1>4, <2>1
    <2>2. CASE ~r.throw
        <3>1. Answers(r.table, Assign(d, FileKey, MainFile, TRUE))
            BY <1>1, <1>4, <2>2, FileKeys, AddAnswers
        <3> QED BY <1>4, <2>2, <3>1
    <2> QED BY <2>1, <2>2
<1> QED BY <1>2, <1>3, <1>5 DEF RcInv

LEMMA RcInvStep ==
    ASSUME RcInv, [SubnetsNext]_subnet_vars
    PROVE  RcInv'
<1>1. CASE RcNext
    BY <1>1, AssignmentKeeps, IncludeKeeps, OtherLinesKeep DEF RcNext
<1>2. CASE LoadGlobals \/ LoadSlot \/ LoadDone
    <2>1. UNCHANGED rc_file
        BY <1>2 DEF LoadGlobals, LoadSlot, LoadDone, rc_file
    <2>2. outcome = "loaded" /\ outcome' \in {"loaded", "throw", "configured"}
        BY <1>2 DEF LoadGlobals, LoadSlot, LoadDone, Fail
    <2> QED BY <2>1, <2>2 DEF rc_file, RcInv
<1>3. CASE UNCHANGED subnet_vars
    BY <1>3 DEF subnet_vars, rc_vars, RcInv
<1> QED BY <1>1, <1>2, <1>3 DEF SubnetsNext, Stopped

\* Whatever the files say, how ever their blocks nest and the table grows: seek finds
\* for every key the value of the last assignment in force, unless something was
\* stored outside the array.
THEOREM Dictionary == SubnetsSpec => []TableIsDictionary
<1>1. SubnetsInit => RcInv
    BY RcInvInit DEF SubnetsInit
<1>2. RcInv /\ [SubnetsNext]_subnet_vars => RcInv'
    BY RcInvStep
<1>3. RcInv => TableIsDictionary
    BY DEF RcInv, Answers, TableIsDictionary
<1> QED BY <1>1, <1>2, <1>3, PTL DEF SubnetsSpec

----------------------------------------------------------------------------
(* Keys as tuples of their parts.                                           *)

LEMMA SeqOfOne ==
    ASSUME NEW S, NEW s \in Seq(S), Len(s) = 1
    PROVE  s = <<s[1]>>
<1>1. s \in [1..1 -> S]
    BY LenProperties
<1> QED BY <1>1

LEMMA SeqOfTwo ==
    ASSUME NEW S, NEW s \in Seq(S), Len(s) = 2
    PROVE  s = <<s[1], s[2]>>
<1>1. s \in [1..2 -> S]
    BY LenProperties
<1> QED BY <1>1

LEMMA SeqOfThree ==
    ASSUME NEW S, NEW s \in Seq(S), Len(s) = 3
    PROVE  s = <<s[1], s[2], s[3]>>
<1>1. s \in [1..3 -> S]
    BY LenProperties
<1> QED BY <1>1

LEMMA SeqOfFour ==
    ASSUME NEW S, NEW s \in Seq(S), Len(s) = 4
    PROVE  s = <<s[1], s[2], s[3], s[4]>>
<1>1. s \in [1..4 -> S]
    BY LenProperties
<1> QED BY <1>1

\* A part below a prefix.
LEMMA PartsJoined ==
    ASSUME NEW a, NEW n, NEW b
    PROVE  /\ <<>> \o <<a>> = <<a>>
           /\ <<a>> \o <<n>> = <<a, n>>
           /\ <<a, n>> \o <<b>> = <<a, n, b>>
<1> DEFINE S == {a, n, b}
<1>1. <<a>> \in Seq(S) /\ <<n>> \in Seq(S) /\ <<b>> \in Seq(S) /\ <<a, n>> \in Seq(S)
    OBVIOUS
<1>2. <<>> \o <<a>> = <<a>>
    OBVIOUS
<1>3. <<a>> \o <<n>> = <<a, n>>
    <2> DEFINE s == <<a>> \o <<n>>
    <2>1. s \in Seq(S) /\ Len(s) = 2 /\ s[1] = a /\ s[2] = n
        BY <1>1, ConcatProperties
    <2> HIDE DEF s, S
    <2>2. s = <<a, n>>
        BY <2>1, SeqOfTwo
    <2> QED BY <2>2 DEF s
<1>4. <<a, n>> \o <<b>> = <<a, n, b>>
    <2> DEFINE s == <<a, n>> \o <<b>>
    <2>1. s \in Seq(S) /\ Len(s) = 3 /\ s[1] = a /\ s[2] = n /\ s[3] = b
        BY <1>1, ConcatProperties
    <2> HIDE DEF s, S
    <2>2. s = <<a, n, b>>
        BY <2>1, SeqOfThree
    <2> QED BY <2>2 DEF s
<1> QED BY <1>2, <1>3, <1>4

\* Two parts below a prefix.
LEMMA PairJoined ==
    ASSUME NEW a, NEW n, NEW b, NEW c
    PROVE  <<a, n>> \o <<b, c>> = <<a, n, b, c>>
<1> DEFINE S == {a, n, b, c}
           s == <<a, n>> \o <<b, c>>
<1>1. <<a, n>> \in Seq(S) /\ <<b, c>> \in Seq(S)
    OBVIOUS
<1>2. s \in Seq(S) /\ Len(s) = 4 /\ s[1] = a /\ s[2] = n /\ s[3] = b /\ s[4] = c
    BY <1>1, ConcatProperties
<1> HIDE DEF s, S
<1>3. s = <<a, n, b, c>>
    BY <1>2, SeqOfFour
<1> QED BY <1>3 DEF s

\* pop takes the last part.
LEMMA PartPopped ==
    ASSUME NEW a, NEW n
    PROVE  pop(<<a>>) = <<>> /\ pop(<<a, n>>) = <<a>>
<1>1. pop(<<a>>) = <<>>
    BY DEF pop
<1>2. SubSeq(<<a, n>>, 1, 1) = <<a>>
    <2> DEFINE s == SubSeq(<<a, n>>, 1, 1)
               S == {a, n}
    <2>1. \A i \in 1..1 : <<a, n>>[i] \in S
        OBVIOUS
    <2>2. s \in Seq(S) /\ Len(s) = 1 /\ s[1] = a
        BY <2>1, SubSeqProperties
    <2> HIDE DEF s, S
    <2>3. s = <<a>>
        BY <2>2, SeqOfOne
    <2> QED BY <2>3 DEF s
<1>3. Len(<<a, n>>) - 1 = 1
    OBVIOUS
<1> QED BY <1>1, <1>2, <1>3, Zenon DEF pop

\* The name in the middle of a key.
LEMMA MiddlePart ==
    ASSUME NEW a, NEW n, NEW b
    PROVE  SubSeq(<<a, n, b>>, 2, Len(<<a, n, b>>) - 1) = <<n>>
<1> DEFINE s == SubSeq(<<a, n, b>>, 2, 2)
           S == {a, n, b}
<1>1. \A i \in 2..2 : <<a, n, b>>[i] \in S
    OBVIOUS
<1>2. s \in Seq(S) /\ Len(s) = 1 /\ s[1] = n
    BY <1>1, SubSeqProperties
<1> HIDE DEF s, S
<1>3. s = <<n>>
    BY <1>2, SeqOfOne
<1>4. Len(<<a, n, b>>) - 1 = 2
    OBVIOUS
<1> QED BY <1>3, <1>4, Zenon DEF s

LEMMA KeyOfThree ==
    ASSUME NEW k \in Seq(STRING), NEW n, Len(k) >= 3, SubSeq(k, 2, Len(k) - 1) = <<n>>
    PROVE  Len(k) = 3 /\ k = <<k[1], n, k[3]>>
<1> DEFINE z == Len(k)
<1>1. z \in Nat /\ z >= 3
    OBVIOUS
<1>2. Len(SubSeq(k, 2, z - 1)) = z - 2 /\ SubSeq(k, 2, z - 1)[1] = k[2]
    <2> HIDE DEF z
    <2>1. \A i \in 2..(z - 1) : k[i] \in STRING
        BY <1>1 DEF z
    <2>2. 2 \in Int /\ z - 1 \in Int /\ 2 <= z - 1
        BY <1>1
    <2> QED BY <1>1, <2>1, <2>2, SubSeqProperties
<1>3. Len(<<n>>) = 1 /\ <<n>>[1] = n
    OBVIOUS
<1> HIDE DEF z
<1>4. SubSeq(k, 2, z - 1) = <<n>>
    BY Zenon DEF z
<1>5. z = 3 /\ k[2] = n
    <2> DEFINE w == SubSeq(k, 2, z - 1)
               u == <<n>>
    <2> HIDE DEF w, u
    <2>1. Len(w) = z - 2 /\ w[1] = k[2] /\ Len(u) = 1 /\ u[1] = n /\ w = u
        BY <1>2, <1>3, <1>4, Zenon DEF w, u
    <2>2. z - 2 = 1 /\ k[2] = n
        BY <2>1, Zenon
    <2>3. ASSUME NEW y \in Nat, y - 2 = 1
          PROVE  y = 3
        BY <2>3
    <2> QED BY <1>1, <2>2, <2>3, Zenon
<1>6. k = <<k[1], k[2], k[3]>>
    BY <1>5, SeqOfThree DEF z
<1> QED BY <1>5, <1>6 DEF z

----------------------------------------------------------------------------
(* The walk of Subnets::load.                                               *)

\* No name holds the delimiter.
PlainNames == \A n \in DOMAIN Delim : Len(Delim[n]) = 1
AddrKey(n) == <<"subnet", n, "addr">>

\* A name is read out of a key exactly if the key is subnet-name-addr, the key
\* subnet-addr aside.
LEMMA NameOfKey ==
    ASSUME PlainNames, NEW k \in Key \cup {<<>>}, k # <<"subnet", "addr">>
    PROVE  /\ SubnetName(k) # Null => SubnetName(k) \in DOMAIN Delim /\ k = AddrKey(SubnetName(k))
           /\ \A n \in DOMAIN Delim : k = AddrKey(n) => SubnetName(k) # Null
<1> DEFINE Named == Len(k) >= 3 /\ k[1] = "subnet" /\ k[Len(k)] = "addr"
           Match(n) == Delim[n] = SubSeq(k, 2, Len(k) - 1)
<1>1. \A n \in DOMAIN Delim : Delim[n] = <<n>>
    BY NamesTyped DEF PlainNames
<1>2. ASSUME Named, k \in Key
      PROVE  SubnetName(k) \in DOMAIN Delim /\ k = AddrKey(SubnetName(k))
    <2>1. \E n \in DOMAIN Delim : Match(n)
        BY <1>2, NamesTyped
    <2>2. SubnetName(k) = CHOOSE n \in DOMAIN Delim : Match(n)
        BY <1>2, Zenon DEF SubnetName
    <2> DEFINE n == SubnetName(k)
    <2>3. n \in DOMAIN Delim /\ Match(n)
        BY <2>1, <2>2, Zenon
    <2> HIDE DEF n
    <2>4. SubSeq(k, 2, Len(k) - 1) = <<n>>
        BY <1>1, <2>3
    <2>5. Len(k) = 3 /\ k = <<k[1], n, k[3]>>
        BY <1>2, <2>4, KeysNamed, KeyOfThree
    <2>6. k = <<"subnet", n, "addr">>
        BY <1>2, <2>5
    <2> QED BY <2>3, <2>6 DEF AddrKey, n
<1>3. Null \notin DOMAIN Delim
    BY NamesTyped, NullIsNoText
<1>4. ~Named => SubnetName(k) = Null
    BY Zenon DEF SubnetName
<1>5. k = <<>> => ~Named
    OBVIOUS
<1>6. ASSUME NEW n \in DOMAIN Delim, k = AddrKey(n)
      PROVE  SubnetName(k) # Null
    <2>1. Named
        BY <1>6 DEF AddrKey
    <2> HIDE DEF Named
    <2> QED BY <2>1, <1>2, <1>3, <1>5
<1> HIDE DEF Named
<1> QED BY <1>2, <1>4, <1>5, <1>6

\* A subnet has the values of its keys.
AsWritten(b, d) ==
    /\ b.name \in DOMAIN Delim /\ AddrKey(b.name) \in Key
    /\ b.addr = d[AddrKey(b.name)] /\ b.addr # Null
    /\ b.gateway = d[<<"subnet", b.name, "gateway">>]
    /\ b.first = d[<<"subnet", b.name, "range", "start">>]

\* In front of slot s of the walk over table t: the subnets sn are those of the slots
\* before it, each once.
Found(t, d, sn, s) ==
    /\ \E S : sn \in Seq(S)
    /\ \A i \in 1..Len(sn) :
          AsWritten(sn[i], d) /\ \E j \in 0..(s - 2) : t.slot[j].key = AddrKey(sn[i].name)
    /\ \A j \in 0..(s - 2) : \A n \in DOMAIN Delim :
          t.slot[j].key = AddrKey(n) => \E i \in 1..Len(sn) : sn[i].name = n
    /\ \A i, j \in 1..Len(sn) : sn[i].name = sn[j].name => i = j

LEMMA FoundStart ==
    ASSUME NEW t, NEW d, NEW s \in {0, 1}
    PROVE  Found(t, d, <<>>, s)
<1>1. <<>> \in Seq({}) /\ 1..Len(<<>>) = {} /\ 0..(s - 2) = {}
    OBVIOUS
<1> QED BY <1>1 DEF Found

LEMMA FoundSkip ==
    ASSUME NEW t, NEW d, NEW sn, NEW s \in Nat \ {0}, Found(t, d, sn, s),
           \A n \in DOMAIN Delim : t.slot[s - 1].key # AddrKey(n)
    PROVE  Found(t, d, sn, s + 1)
<1>1. 0..((s + 1) - 2) = (0..(s - 2)) \cup {s - 1}
    OBVIOUS
<1> QED BY <1>1 DEF Found

LEMMA AddrKeyInjective ==
    ASSUME NEW m, NEW n, AddrKey(m) = AddrKey(n)
    PROVE  m = n
BY DEF AddrKey

LEMMA FoundAppend ==
    ASSUME NEW t, Sound(t), NEW d, NEW sn, NEW s \in 1..t.size, Found(t, d, sn, s),
           NEW b, AsWritten(b, d), t.slot[s - 1].key = AddrKey(b.name)
    PROVE  Found(t, d, Append(sn, b), s + 1)
<1> DEFINE g == Append(sn, b)
           z == Len(sn)
<1>1. PICK S : sn \in Seq(S)
    BY DEF Found
<1>2. sn \in Seq(S \cup {b}) /\ b \in S \cup {b}
    BY <1>1
<1>3. /\ g \in Seq(S \cup {b}) /\ Len(g) = z + 1 /\ z \in Nat
      /\ g[z + 1] = b
      /\ \A i \in 1..z : g[i] = sn[i]
    BY <1>2, AppendProperties
<1> HIDE DEF g, z
<1>4. 1..Len(g) = (1..z) \cup {z + 1} /\ z + 1 \notin 1..z
    BY <1>3
<1>5. 0..((s + 1) - 2) = (0..(s - 2)) \cup {s - 1}
    OBVIOUS
<1>6. \A i \in 1..z : g[i].name # b.name
    <2> SUFFICES ASSUME NEW i \in 1..z, g[i].name = b.name
                 PROVE  FALSE
        OBVIOUS
    <2>1. PICK j \in 0..(s - 2) : t.slot[j].key = AddrKey(sn[i].name)
        BY DEF Found, z
    <2>2. t.slot[j].key = t.slot[s - 1].key /\ AddrKey(b.name) \in Key
        BY <1>3, <2>1 DEF AsWritten
    <2>3. t.size \in Nat /\ j \in Slots(t) /\ s - 1 \in Slots(t) /\ j # s - 1
        BY DEF Sound, Table, Slots
    <2>4. _hi_seek(t, AddrKey(b.name)) = j /\ _hi_seek(t, AddrKey(b.name)) = s - 1
        BY <2>2, <2>3, HoldsIffStored
    <2> QED BY <2>3, <2>4
<1>7. \A i \in 1..Len(g) :
         AsWritten(g[i], d) /\ \E j \in 0..((s + 1) - 2) : t.slot[j].key = AddrKey(g[i].name)
    <2> SUFFICES ASSUME NEW i \in 1..Len(g)
                 PROVE  AsWritten(g[i], d)
                        /\ \E j \in 0..((s + 1) - 2) : t.slot[j].key = AddrKey(g[i].name)
        OBVIOUS
    <2>1. CASE i = z + 1
        BY <2>1, <1>3, <1>5
    <2>2. CASE i \in 1..z
        <3>1. AsWritten(sn[i], d) /\ \E j \in 0..(s - 2) : t.slot[j].key = AddrKey(sn[i].name)
            BY <2>2 DEF Found, z
        <3>2. g[i] = sn[i]
            BY <2>2, <1>3
        <3> QED BY <3>1, <3>2, <1>5
    <2> QED BY <2>1, <2>2, <1>4
<1>8. ASSUME NEW j \in 0..((s + 1) - 2), NEW n \in DOMAIN Delim, t.slot[j].key = AddrKey(n)
      PROVE  \E i \in 1..Len(g) : g[i].name = n
    <2>1. CASE j = s - 1
        <3>1. n = b.name
            BY <2>1, <1>8, AddrKeyInjective
        <3> QED BY <3>1, <1>3, <1>4
    <2>2. CASE j \in 0..(s - 2)
        <3>1. PICK i \in 1..z : sn[i].name = n
            BY <2>2, <1>8 DEF Found, z
        <3> QED BY <3>1, <1>3, <1>4
    <2> QED BY <2>1, <2>2, <1>5
<1>9. ASSUME NEW i \in 1..Len(g), NEW j \in 1..Len(g), g[i].name = g[j].name
      PROVE  i = j
    <2>1. CASE i = z + 1 /\ j = z + 1
        BY <2>1
    <2>2. CASE i \in 1..z /\ j \in 1..z
        BY <2>2, <1>3, <1>9 DEF Found, z
    <2>3. CASE i \in 1..z /\ j = z + 1
        BY <2>3, <1>3, <1>6, <1>9
    <2>4. CASE j \in 1..z /\ i = z + 1
        BY <2>4, <1>3, <1>6, <1>9
    <2> QED BY <2>1, <2>2, <2>3, <2>4, <1>4
<1>10. Found(t, d, g, s + 1)
    BY <1>3, <1>7, <1>8, <1>9 DEF Found
<1> QED BY <1>10 DEF g

\* Before the walk there is nothing on the key stack; during it the stack holds the
\* word subnet, and what was found is what was passed.
WalkInv ==
    /\ outcome = "loading" => slot = 0 /\ keyst = <<>> /\ subnets = <<>>
    /\ (PlainNames /\ ~h.stray /\ ~Nameless /\ outcome \in {"loaded", "configured"}) =>
          /\ slot \in 0..(h.size + 1)
          /\ keyst = IF outcome = "loaded" /\ slot > 0 THEN <<"subnet">> ELSE <<>>
          /\ outcome = "configured" => slot = h.size + 1
          /\ Found(h, dict, subnets, slot)

LEMMA GlobalsKeep ==
    ASSUME RcInv, WalkInv, LoadGlobals
    PROVE  WalkInv'
<1>1. outcome = "loaded" /\ slot = 0 /\ h' = h /\ dict' = dict
    BY DEF LoadGlobals, rc_file
<1>2. CASE outcome' = "throw"
    BY <1>2 DEF WalkInv
<1>3. CASE outcome' # "throw"
    <2>1. slot' = 1 /\ keyst' = push(keyst, "subnet") /\ outcome' = outcome /\ subnets' = subnets
        BY <1>3 DEF LoadGlobals, Fail
    <2>2. ASSUME PlainNames, ~h.stray, ~Nameless
          PROVE  /\ slot' \in 0..(h.size + 1) /\ keyst' = <<"subnet">>
                 /\ Found(h, dict, subnets, 1)
        <3>1. keyst = <<>> /\ Found(h, dict, subnets, 0)
            BY <1>1, <2>2 DEF WalkInv
        <3>2. Delim["subnet"] = <<"subnet">>
            BY <2>2, NamesTyped DEF PlainNames
        <3>3. keyst' = <<"subnet">>
            BY <2>1, <3>1, <3>2, PartsJoined DEF push
        <3>4. 0..(0 - 2) = 0..(1 - 2)
            OBVIOUS
        <3>5. Found(h, dict, subnets, 1)
            BY <3>1, <3>4 DEF Found
        <3>6. 1 \in 0..(h.size + 1)
            BY DEF RcInv, Answers, Sound, Table
        <3> QED BY <2>1, <3>3, <3>5, <3>6
    <2> QED BY <1>1, <2>1, <2>2 DEF WalkInv, PlainNames, Nameless
<1> QED BY <1>2, <1>3

LEMMA SlotKeeps ==
    ASSUME RcInv, WalkInv, LoadSlot
    PROVE  WalkInv'
<1>1. outcome = "loaded" /\ slot \in 1..h.size /\ h' = h /\ dict' = dict
    BY DEF LoadSlot, rc_file
<1>2. CASE outcome' = "throw"
    BY <1>2 DEF WalkInv
<1>3. CASE outcome' # "throw"
    <2> DEFINE name == SubnetName(h.slot[slot - 1].key)
               ks == push(keyst, name)
               b == ReadSubnet(name, ks)
    <2>1. /\ outcome' = outcome /\ slot' = slot + 1
          /\ \/ name = Null /\ keyst' = keyst /\ subnets' = subnets
             \/ name # Null /\ ~Unreadable(b) /\ keyst' = AfterSubnet(b, ks)
                /\ subnets' = Append(subnets, b)
        BY <1>3 DEF LoadSlot, Fail
    <2>2. ASSUME PlainNames, ~h.stray, ~Nameless
          PROVE  /\ slot' \in 0..(h.size + 1) /\ slot' > 0 /\ keyst' = <<"subnet">>
                 /\ Found(h, dict, subnets', slot + 1)
        <3>1. keyst = <<"subnet">> /\ Found(h, dict, subnets, slot)
            BY <1>1, <2>2 DEF WalkInv
        <3>2. Sound(h) /\ \A k \in Key : Lookup(h, k) = dict[k]
            BY <2>2 DEF RcInv, Answers
        <3>3. h.size \in Nat /\ slot - 1 \in Slots(h) /\ slot \in Nat \ {0}
            BY <1>1, <3>2 DEF Sound, Table, Slots
        <3>4. h.slot[slot - 1].key \in Key \cup {<<>>}
            BY <3>2, <3>3 DEF Sound, Table
        <3> DEFINE k == h.slot[slot - 1].key
        <3>0. k # <<"subnet", "addr">>
            <4>1. slot - 1 \in DOMAIN h.slot
                BY <3>2, <3>3 DEF Sound, Table
            <4> QED BY <2>2, <4>1 DEF Nameless
        <3>5. slot' \in 0..(h.size + 1) /\ slot' > 0
            BY <1>1, <2>1, <3>3
        <3>6. CASE name = Null
            <4>1. \A n \in DOMAIN Delim : h.slot[slot - 1].key # AddrKey(n)
                BY <2>2, <3>0, <3>4, <3>6, NameOfKey
            <4>2. Found(h, dict, subnets, slot + 1)
                BY <3>1, <3>3, <4>1, FoundSkip
            <4> QED BY <2>1, <3>1, <3>5, <3>6, <4>2
        <3>7. CASE name # Null
            <4>1. name \in DOMAIN Delim /\ h.slot[slot - 1].key = AddrKey(name)
                BY <2>2, <3>0, <3>4, <3>7, NameOfKey
            <4>2. Delim[name] = <<name>>
                BY <2>2, <4>1, NamesTyped DEF PlainNames
            <4> HIDE DEF name
            <4>3. ks = <<"subnet", name>>
                BY <3>1, <4>2, PartsJoined DEF push
            <4>4. AddrKey(name) \in Key
                <5>1. AddrKey(name) # <<>>
                    BY DEF AddrKey
                <5> QED BY <3>4, <4>1, <5>1
            <4>5. <<"subnet", name, "gateway">> \in Key /\ <<"subnet", name, "range", "start">> \in Key
                BY <4>1, <4>4, NamesTyped DEF AddrKey
            <4> HIDE DEF ks
            <4>6. /\ getstring(ks, <<"addr">>) = Lookup(h, AddrKey(name))
                  /\ getstring(ks, <<"gateway">>) = Lookup(h, <<"subnet", name, "gateway">>)
                  /\ getstring(ks, <<"range", "start">>)
                        = Lookup(h, <<"subnet", name, "range", "start">>)
                <5>1. <<"subnet", name>> \o <<"addr">> = <<"subnet", name, "addr">>
                    BY PartsJoined, Zenon
                <5>2. <<"subnet", name>> \o <<"gateway">> = <<"subnet", name, "gateway">>
                    BY PartsJoined, Zenon
                <5>3. <<"subnet", name>> \o <<"range", "start">>
                        = <<"subnet", name, "range", "start">>
                    BY PairJoined, Zenon
                <5> QED BY <4>3, <5>1, <5>2, <5>3, Zenon DEF getstring, AddrKey
            <4>7. b.name = name /\ b.addr = getstring(ks, <<"addr">>)
                  /\ b.gateway = getstring(ks, <<"gateway">>)
                  /\ b.first = getstring(ks, <<"range", "start">>)
                BY DEF ReadSubnet
            <4>8. ~Unreadable(b) /\ keyst' = AfterSubnet(b, ks) /\ subnets' = Append(subnets, b)
                BY <2>1, <3>7
            <4> HIDE DEF b
            <4>9. b.addr # Null
                BY <4>8 DEF Unreadable
            <4>10. AsWritten(b, dict)
                BY <3>2, <4>1, <4>4, <4>5, <4>6, <4>7, <4>9 DEF AsWritten
            <4>11. Found(h, dict, Append(subnets, b), slot + 1)
                BY <1>1, <3>1, <3>2, <4>1, <4>7, <4>10, FoundAppend
            <4>12. keyst' = <<"subnet">>
                BY <4>3, <4>8, PartPopped DEF AfterSubnet
            <4> QED BY <3>5, <4>8, <4>11, <4>12
        <3> QED BY <3>6, <3>7
    <2> HIDE DEF name, ks, b
    <2> QED BY <1>1, <2>1, <2>2 DEF WalkInv, PlainNames, Nameless
<1> QED BY <1>2, <1>3

LEMMA DoneKeeps ==
    ASSUME RcInv, WalkInv, LoadDone
    PROVE  WalkInv'
<1>1. /\ outcome = "loaded" /\ slot > h.size /\ h' = h /\ dict' = dict
      /\ outcome' = "configured" /\ keyst' = pop(keyst) /\ subnets' = subnets /\ slot' = slot
    BY DEF LoadDone, rc_file
<1>2. ASSUME PlainNames, ~h.stray, ~Nameless
      PROVE  /\ slot \in 0..(h.size + 1) /\ slot = h.size + 1 /\ keyst' = <<>>
             /\ Found(h, dict, subnets, slot)
    <2>1. h.size \in Nat
        BY DEF RcInv, Answers, Sound, Table
    <2>2. /\ slot \in 0..(h.size + 1) /\ Found(h, dict, subnets, slot)
          /\ keyst = IF slot > 0 THEN <<"subnet">> ELSE <<>>
        BY <1>1, <1>2 DEF WalkInv
    <2>3. slot = h.size + 1 /\ slot > 0
        BY <1>1, <2>1, <2>2
    <2>4. keyst = <<"subnet">>
        BY <2>2, <2>3
    <2>5. keyst' = <<>>
        BY <1>1, <2>4, PartPopped
    <2> QED BY <2>2, <2>3, <2>5
<1> QED BY <1>1, <1>2 DEF WalkInv, PlainNames, Nameless

LEMMA ReadingKeepsWalk ==
    ASSUME RcInv, WalkInv, RcNext, UNCHANGED <<keyst, subnets, slot>>, RcInv'
    PROVE  WalkInv'
<1>1. outcome = "loading"
    BY DEF RcNext, ReadAssignment, ReadInclude, ReadIf, ReadElse, ReadEndif, ReadEnd, ReadNothing,
           Reading
<1>2. slot' = 0 /\ keyst' = <<>> /\ subnets' = <<>>
    BY <1>1 DEF WalkInv
<1>3. outcome' # "configured"
    BY <1>1 DEF RcNext, ReadAssignment, ReadInclude, ReadIf, ReadElse, ReadEndif, ReadEnd,
           ReadNothing, Reading, load, Store, Throw
<1>4. \A t, d : Found(t, d, <<>>, 0)
    BY FoundStart
<1>5. 0 \in 0..(h'.size + 1)
    BY DEF RcInv, Answers, Sound, Table
<1> QED BY <1>2, <1>3, <1>4, <1>5 DEF WalkInv

\* For every configuration file: once the configuration is read, the subnets are
\* those with an addr key, each once and with its own values, and the key stack is
\* empty again, unless a name holds the delimiter, the key subnet-addr is in the table
\* or something was stored outside the array.
THEOREM SubnetsRead == SubnetsSpec => []SubnetsAsWritten
<1>1. SubnetsInit => RcInv /\ WalkInv
    <2> SUFFICES ASSUME SubnetsInit
                 PROVE  RcInv /\ WalkInv
        OBVIOUS
    <2>1. RcInv
        BY RcInvInit DEF SubnetsInit
    <2>2. outcome \in {"loading", "throw"} /\ slot = 0 /\ keyst = <<>> /\ subnets = <<>>
        BY DEF SubnetsInit, RcInit
    <2> QED BY <2>1, <2>2 DEF WalkInv
<1>2. RcInv /\ WalkInv /\ [SubnetsNext]_subnet_vars => RcInv' /\ WalkInv'
    <2> SUFFICES ASSUME RcInv, WalkInv, [SubnetsNext]_subnet_vars
                 PROVE  RcInv' /\ WalkInv'
        OBVIOUS
    <2>1. RcInv'
        BY RcInvStep
    <2>2. CASE RcNext /\ UNCHANGED <<keyst, subnets, slot>>
        BY <2>1, <2>2, ReadingKeepsWalk
    <2>3. CASE LoadGlobals
        BY <2>1, <2>3, GlobalsKeep
    <2>4. CASE LoadSlot
        BY <2>1, <2>4, SlotKeeps
    <2>5. CASE LoadDone
        BY <2>1, <2>5, DoneKeeps
    <2>6. CASE UNCHANGED subnet_vars
        BY <2>1, <2>6 DEF subnet_vars, rc_vars, WalkInv, PlainNames, Nameless
    <2> QED BY <2>2, <2>3, <2>4, <2>5, <2>6 DEF SubnetsNext, Stopped
<1>3. RcInv /\ WalkInv => SubnetsAsWritten
    <2> SUFFICES ASSUME RcInv, WalkInv, outcome = "configured", ~h.stray, ~Nameless, PlainNames
                 PROVE  /\ keyst = <<>>
                        /\ \A n \in DOMAIN Delim : AddrKey(n) \in Key =>
                             Cardinality({i \in DOMAIN subnets : subnets[i].name = n})
                                = IF dict[AddrKey(n)] # Null THEN 1 ELSE 0
                        /\ \A i \in DOMAIN subnets : AsWritten(subnets[i], dict)
        BY DEF SubnetsAsWritten, PlainNames, AsWritten, AddrKey
    <2>1. keyst = <<>> /\ slot = h.size + 1 /\ Found(h, dict, subnets, slot)
        BY DEF WalkInv
    <2>2. Sound(h) /\ h.size \in Nat /\ \A k \in Key : Lookup(h, k) = dict[k]
        BY DEF RcInv, Answers, Sound, Table
    <2>3. DOMAIN subnets = 1..Len(subnets)
        <3>1. PICK S : subnets \in Seq(S)
            BY <2>1 DEF Found
        <3> QED BY <3>1, LenProperties
    <2>4. 0..(slot - 2) = Slots(h)
        BY <2>1, <2>2 DEF Slots
    <2>5. \A i \in DOMAIN subnets : AsWritten(subnets[i], dict)
        BY <2>1, <2>3 DEF Found
    <2>6. ASSUME NEW n \in DOMAIN Delim, AddrKey(n) \in Key
          PROVE  Cardinality({i \in DOMAIN subnets : subnets[i].name = n})
                    = IF dict[AddrKey(n)] # Null THEN 1 ELSE 0
        <3> DEFINE I == {i \in DOMAIN subnets : subnets[i].name = n}
        <3>1. CASE dict[AddrKey(n)] # Null
            <4>1. Holds(h, AddrKey(n))
                BY <2>2, <2>6, <3>1 DEF Lookup
            <4>2. PICK j \in Slots(h) : h.slot[j].key = AddrKey(n)
                BY <2>2, <2>6, <4>1, HoldsIffStored
            <4>3. PICK i \in DOMAIN subnets : subnets[i].name = n
                BY <2>1, <2>3, <2>4, <4>2 DEF Found
            <4>4. I = {i}
                BY <2>1, <2>3, <4>3 DEF Found
            <4>5. Cardinality({i}) = 1
                BY FS_Singleton
            <4> QED BY <3>1, <4>4, <4>5
        <3>2. CASE dict[AddrKey(n)] = Null
            <4>1. I = {}
                BY <2>5, <3>2 DEF AsWritten
            <4> QED BY <3>2, <4>1, FS_EmptySet
        <3> QED BY <3>1, <3>2
    <2> QED BY <2>1, <2>5, <2>6
<1> QED BY <1>1, <1>2, <1>3, PTL DEF SubnetsSpec
=============================================================================
