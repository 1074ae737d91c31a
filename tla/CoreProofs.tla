------------------------------ MODULE CoreProofs ------------------------------
(*****************************************************************************)
(* Proofs about the hash map, for every table size, every set of keys and    *)
(* values and every hash function, about the core configuration and the ISR  *)
(* stacks, for every number of cores and every device tree, and about the    *)
(* boot page allocator, for every area and every size of its bitmap.         *)
(*****************************************************************************)
EXTENDS HashMap, IsrStacks, BufferedPageAllocator, Induction, FiniteSetTheorems

(* The types of the table, of the hash function and of the caller's view. *)
TypeOK ==
  /\ map \in [Slot -> {Empty} \cup (Key \X Value)]
  /\ hash \in [Key -> Nat]
  /\ dict \in [Key -> {Absent} \cup {<<v>> : v \in Value}]
  /\ result \in BOOLEAN

(* A probe of key k meets its newest pair before any other pair of k. *)
NewestAt(k, i) ==
  /\ Holds(map, ProbeIndex(hash[k], i), k)
  /\ map[ProbeIndex(hash[k], i)][2] = dict[k][1]
  /\ \A j \in Slot : j < i => ~Holds(map, ProbeIndex(hash[k], j), k)

(* The inductive invariant of InsertedKeysFound. *)
NewestFirst == \A k \in Key : dict[k] # Absent => \E i \in Slot : NewestAt(k, i)

(* Min of the community modules is the least element: the probe that a      *)
(* search of the table ends at.                                             *)
LEMMA MinOfNat ==
  ASSUME NEW S \in SUBSET Nat, S # {}
  PROVE  Min(S) \in S /\ \A n \in S : Min(S) <= n
BY NatMin DEF Min

(* Every probe falls into the table. *)
LEMMA ProbeInTable ==
  ASSUME NEW h \in Nat, NEW i \in Slot
  PROVE  ProbeIndex(h, i) \in Slot
<1>1. i \in Nat /\ N \in Nat \ {0}
  BY TableAssumption DEF Slot
<1>2. i * i \in Nat
  BY <1>1
<1>3. (h + i * i) % N \in 0 .. N - 1
  <2> DEFINE x == h + i * i
  <2>1. x \in Nat
    BY <1>2
  <2> HIDE DEF x
  <2>2. x % N \in 0 .. N - 1
    BY <1>1, <2>1
  <2> QED BY <2>2 DEF x
<1> QED BY <1>3 DEF ProbeIndex, Slot

(* The probe where insert ends is the first whose slot is empty or holds    *)
(* the key, and that where find and erase end the first that holds it.      *)
LEMMA FirstProbes ==
  ASSUME NEW m, NEW h \in Nat, NEW k
  PROVE  /\ InsertProbes(m, h, k) # {} =>
              /\ Min(InsertProbes(m, h, k)) \in InsertProbes(m, h, k)
              /\ \A j \in InsertProbes(m, h, k) : Min(InsertProbes(m, h, k)) <= j
         /\ KeyProbes(m, h, k) # {} =>
              /\ Min(KeyProbes(m, h, k)) \in KeyProbes(m, h, k)
              /\ \A j \in KeyProbes(m, h, k) : Min(KeyProbes(m, h, k)) <= j
<1>1. Slot \subseteq Nat
  BY TableAssumption DEF Slot
<1>2. InsertProbes(m, h, k) \in SUBSET Nat /\ KeyProbes(m, h, k) \in SUBSET Nat
  BY <1>1 DEF InsertProbes, KeyProbes
<1> QED BY <1>2, MinOfNat

(* find returns the value of the pair that a probe of the key meets first. *)
LEMMA FindNewest ==
  ASSUME TypeOK, NEW k \in Key, NEW i \in Slot, NewestAt(k, i)
  PROVE  Found(k) = {dict[k][1]}
<1> DEFINE P == KeyProbes(map, hash[k], k)
<1>1. hash[k] \in Nat
  BY DEF TypeOK
<1>2. i \in P
  BY DEF NewestAt, KeyProbes
<1>3. Min(P) \in P /\ Min(P) <= i
  BY <1>1, <1>2, FirstProbes
<1>4. Min(P) \in Slot /\ Holds(map, ProbeIndex(hash[k], Min(P)), k)
  BY <1>3 DEF KeyProbes
<1>5. Min(P) = i
  <2>1. ~(Min(P) < i)
    BY <1>4 DEF NewestAt
  <2>2. Min(P) \in Int /\ i \in Int
    BY <1>4, TableAssumption DEF Slot
  <2> QED BY <1>3, <2>1, <2>2
<1>6. Found(k) = {map[ProbeIndex(hash[k], Min(P))][2]}
  BY <1>2 DEF Found, Find
<1> QED BY <1>5, <1>6 DEF NewestAt

(* The invariant is what find sees. *)
LEMMA NewestFirstFound ==
  ASSUME TypeOK, NewestFirst
  PROVE  InsertedKeysFound
<1> SUFFICES ASSUME NEW k \in Key, dict[k] # Absent
             PROVE  Found(k) = {dict[k][1]}
  BY DEF InsertedKeysFound
<1>1. PICK i \in Slot : NewestAt(k, i)
  BY DEF NewestFirst
<1> QED BY <1>1, FindNewest

(* insert keeps the types, and the newest pair of every key first: it       *)
(* writes to a slot that held nothing or the same key, before every other   *)
(* pair of that key.                                                        *)
LEMMA InsertNewest ==
  ASSUME TypeOK, NewestFirst, NEW k \in Key, NEW v \in Value, Insert(k, v)
  PROVE  TypeOK' /\ NewestFirst'
<1> DEFINE P == InsertProbes(map, hash[k], k)
<1>0. hash' = hash /\ hash[k] \in Nat /\ \A q \in Key : hash[q] \in Nat
  BY DEF TypeOK, Insert
<1>1. CASE ~CanInsert(map, hash[k], k)
  <2>1. map' = map /\ dict' = dict /\ result' \in BOOLEAN
    <3>1. map' = map
      BY <1>1 DEF Insert, InsertKey
    <3>2. result' = FALSE
      BY <1>1 DEF Insert, CanInsert
    <3> QED BY <3>1, <3>2 DEF Insert
  <2> QED BY <1>0, <2>1 DEF TypeOK, NewestFirst, NewestAt
<1>2. CASE CanInsert(map, hash[k], k)
  <2>0. Min(P) \in P /\ \A j \in P : Min(P) <= j
    BY <1>0, <1>2, FirstProbes DEF CanInsert
  <2>1. PICK i \in P : i = Min(P) /\ \A j \in P : i <= j
    BY <2>0
  <2> DEFINE at == ProbeIndex(hash[k], i)
  <2>2. i \in Slot /\ (map[at] = Empty \/ Holds(map, at, k))
    BY <2>1 DEF InsertProbes
  <2>3. at \in Slot
    BY <1>0, <2>2, ProbeInTable
  <2>4. map' = [map EXCEPT ![at] = <<k, v>>] /\ dict' = [dict EXCEPT ![k] = <<v>>] /\ result' = TRUE
    BY <1>2, <2>1 DEF Insert, InsertKey
  <2> HIDE DEF at, P
  <2>5. TypeOK'
    BY <1>0, <2>3, <2>4 DEF TypeOK
  <2>6. ASSUME NEW q \in Key, dict'[q] # Absent
        PROVE  \E j \in Slot : NewestAt(q, j)'
    <3>1. CASE q = k
      <4>1. map'[at] = <<k, v>> /\ dict'[k] = <<v>>
        BY <2>3, <2>4 DEF TypeOK
      <4>2. Holds(map', at, k)
        BY <4>1 DEF Holds, Empty
      <4>3. ASSUME NEW j \in Slot, j < i
            PROVE  ~Holds(map', ProbeIndex(hash[k], j), k)
        <5>1. j \notin P
          <6>1. i \in Int /\ j \in Int
            BY <2>2, TableAssumption DEF Slot
          <6> QED BY <2>1, <4>3, <6>1
        <5>2. map[ProbeIndex(hash[k], j)] # Empty /\ ~Holds(map, ProbeIndex(hash[k], j), k)
          BY <5>1 DEF P, InsertProbes
        <5>3. ProbeIndex(hash[k], j) # at
          BY <2>2, <5>2
        <5>4. ProbeIndex(hash[k], j) \in Slot
          BY <1>0, ProbeInTable
        <5> QED BY <2>4, <5>2, <5>3, <5>4 DEF Holds, TypeOK
      <4>4. NewestAt(k, i)'
        BY <1>0, <4>1, <4>2, <4>3 DEF NewestAt, at
      <4> QED BY <2>2, <3>1, <4>4
    <3>2. CASE q # k
      <4>1. dict'[q] = dict[q]
        BY <2>4, <3>2 DEF TypeOK
      <4>2. PICK j \in Slot : NewestAt(q, j)
        BY <2>6, <4>1 DEF NewestFirst
      <4>3. \A t \in Slot : Holds(map', t, q) <=> Holds(map, t, q)
        BY <2>2, <2>3, <2>4, <3>2 DEF Holds, Empty, TypeOK
      <4>4. \A u \in Slot : ProbeIndex(hash[q], u) \in Slot
        BY <1>0, ProbeInTable
      <4>5. ProbeIndex(hash[q], j) # at
        BY <2>2, <3>2, <4>2 DEF NewestAt, Holds
      <4>6. map'[ProbeIndex(hash[q], j)] = map[ProbeIndex(hash[q], j)]
        BY <2>4, <4>4, <4>5 DEF TypeOK
      <4>7. NewestAt(q, j)'
        BY <1>0, <4>1, <4>2, <4>3, <4>4, <4>6 DEF NewestAt
      <4> QED BY <4>7
    <3> QED BY <3>1, <3>2
  <2> QED BY <2>5, <2>6 DEF NewestFirst
<1> QED BY <1>1, <1>2

(* erase keeps the types and the newest pair of every other key: the slot   *)
(* it empties held the erased key.                                          *)
LEMMA EraseNewest ==
  ASSUME TypeOK, NewestFirst, NEW k \in Key, Erase(k)
  PROVE  TypeOK' /\ NewestFirst'
<1> DEFINE P == KeyProbes(map, hash[k], k)
           at == ProbeIndex(hash[k], Min(P))
<1>0. hash' = hash /\ hash[k] \in Nat /\ \A q \in Key : hash[q] \in Nat
  BY DEF TypeOK, Erase
<1>1. dict' = [dict EXCEPT ![k] = Absent] /\ result' \in BOOLEAN
  BY DEF Erase
<1>2. /\ map' \in [Slot -> {Empty} \cup (Key \X Value)]
      /\ \A q \in Key \ {k}, t \in Slot : Holds(map, t, q) => map'[t] = map[t]
      /\ \A q \in Key \ {k}, t \in Slot : Holds(map', t, q) => Holds(map, t, q)
  <2>1. CASE P = {}
    BY <2>1 DEF Erase, EraseKey, TypeOK
  <2>2. CASE P # {}
    <3>1. Min(P) \in Slot /\ Holds(map, at, k)
      BY <1>0, <2>2, FirstProbes DEF KeyProbes
    <3>2. at \in Slot
      BY <1>0, <3>1, ProbeInTable
    <3>3. map' = [map EXCEPT ![at] = Empty]
      BY <2>2 DEF Erase, EraseKey
    <3> HIDE DEF at, P
    <3> QED BY <3>1, <3>2, <3>3 DEF TypeOK, Holds
  <2> QED BY <2>1, <2>2
<1>3. TypeOK'
  BY <1>0, <1>1, <1>2 DEF TypeOK
<1>4. ASSUME NEW q \in Key, dict'[q] # Absent
      PROVE  \E j \in Slot : NewestAt(q, j)'
  <2>1. q # k /\ dict'[q] = dict[q]
    BY <1>1, <1>4 DEF TypeOK
  <2>2. PICK j \in Slot : NewestAt(q, j)
    BY <1>4, <2>1 DEF NewestFirst
  <2>3. \A u \in Slot : ProbeIndex(hash[q], u) \in Slot
    BY <1>0, ProbeInTable
  <2>4. map'[ProbeIndex(hash[q], j)] = map[ProbeIndex(hash[q], j)]
    BY <1>2, <2>1, <2>2, <2>3 DEF NewestAt
  <2>5. NewestAt(q, j)'
    BY <1>0, <1>2, <2>1, <2>2, <2>3, <2>4 DEF NewestAt, Holds
  <2> QED BY <2>5
<1> QED BY <1>3, <1>4 DEF NewestFirst

(* The newest pair of every key stays first in its probe sequence. *)
LEMMA NewestFirstInvariant == MapSpec => [](TypeOK /\ NewestFirst)
<1>1. MapInit => TypeOK /\ NewestFirst
  BY TableAssumption DEF MapInit, TypeOK, NewestFirst, EmptyTable
<1>2. TypeOK /\ NewestFirst /\ [MapNext]_map_vars => TypeOK' /\ NewestFirst'
  <2> SUFFICES ASSUME TypeOK, NewestFirst, [MapNext]_map_vars
               PROVE  TypeOK' /\ NewestFirst'
    OBVIOUS
  <2>1. ASSUME NEW k \in Key, NEW v \in Value, Insert(k, v)
        PROVE  TypeOK' /\ NewestFirst'
    BY <2>1, InsertNewest
  <2>2. ASSUME NEW k \in Key, Erase(k)
        PROVE  TypeOK' /\ NewestFirst'
    BY <2>2, EraseNewest
  <2>3. CASE Clear
    BY <2>3 DEF Clear, TypeOK, NewestFirst, EmptyTable
  <2>4. CASE UNCHANGED map_vars
    BY <2>4 DEF map_vars, TypeOK, NewestFirst, NewestAt
  <2> QED BY <2>1, <2>2, <2>3, <2>4 DEF MapNext
<1> QED BY <1>1, <1>2, PTL DEF MapSpec

(* find returns the newest value of every key that was inserted and not     *)
(* erased, whatever holes and duplicates erase left in the table, for every *)
(* table size (prime or not) and every hash function.                       *)
THEOREM InsertedAreFound == MapSpec => []InsertedKeysFound
BY NewestFirstInvariant, NewestFirstFound, PTL

-----------------------------------------------------------------------------
(*****************************************************************************)
(* Quadratic probing in a table of prime size.                               *)
(*****************************************************************************)

(* "The hash table should be a prime number." *)
IsPrime(p) == p \in Nat /\ p > 1 /\ \A a, b \in Nat : p = a * b => a = 1 \/ b = 1

Divides(p, n) == \E q \in Int : n = q * p

(* Euclid's lemma: a prime divides no product of numbers between it and 0.  *)
LEMMA NoDivisorOfPrime ==
  ASSUME NEW p, IsPrime(p), NEW a \in 1 .. p - 1, NEW b \in 1 .. p - 1
  PROVE  ~Divides(p, a * b)
<1> SUFFICES ASSUME Divides(p, a * b) PROVE FALSE
  OBVIOUS
<1>0. p \in Nat /\ p > 1 /\ b \in Nat /\ b > 0 /\ b < p
  BY DEF IsPrime
<1> DEFINE S == {x \in 1 .. p - 1 : Divides(p, x * b)}
<1>1. S \in SUBSET Nat /\ a \in S
  BY <1>0
<1>2. PICK m \in S : \A x \in S : m <= x
  BY <1>1, NatMin
<1>3. m \in Nat /\ m > 0 /\ m < p /\ Divides(p, m * b)
  BY <1>0, <1>2
<1>4. PICK c \in Int : m * b = c * p
  BY <1>3 DEF Divides
<1> DEFINE q == p \div m
           r == p % m
<1>5. q \in Nat /\ r \in 0 .. m - 1 /\ p = q * m + r
  BY <1>0, <1>3
<1> HIDE DEF q, r, S
<1>6. r * b = (b - q * c) * p
  <2>1. r = p - q * m
    BY <1>0, <1>3, <1>5
  <2>2. r * b = p * b - (q * m) * b
    BY <1>0, <1>3, <1>5, <2>1
  <2>3. (q * m) * b = q * (m * b) /\ q * (c * p) = (q * c) * p
    BY <1>0, <1>3, <1>4, <1>5
  <2>4. (b - q * c) * p = b * p - (q * c) * p
    BY <1>0, <1>4, <1>5
  <2>5. (q * m) * b = (q * c) * p
    BY <1>4, <2>3
  <2>6. p * b = b * p
    BY <1>0
  <2> QED BY <2>2, <2>4, <2>5, <2>6
<1>7. Divides(p, r * b)
  <2>1. b - q * c \in Int
    BY <1>0, <1>4, <1>5
  <2> QED BY <1>6, <2>1 DEF Divides
<1>8. r = 0
  <2>1. r \notin S
    BY <1>2, <1>3, <1>5
  <2> QED BY <1>0, <1>3, <1>5, <1>7, <2>1 DEF S
<1>9. m = 1 \/ q = 1
  BY <1>0, <1>3, <1>5, <1>8 DEF IsPrime
<1>10. m = 1
  BY <1>0, <1>3, <1>5, <1>8, <1>9
<1>11. b = c * p
  BY <1>0, <1>4, <1>10
<1>12. c > 0
  <2>1. c <= 0 => c * p <= 0
    BY <1>0, <1>4
  <2> QED BY <1>0, <1>4, <1>11, <2>1
<1>13. c * p >= p
  BY <1>0, <1>4, <1>12
<1> QED BY <1>0, <1>11, <1>13

(* Two of the first (N + 1) / 2 probes never fall on the same slot. *)
LEMMA ProbesDistinct ==
  ASSUME IsPrime(N), NEW h \in Nat,
         NEW i \in 0 .. (N + 1) \div 2 - 1, NEW j \in 0 .. (N + 1) \div 2 - 1, i < j
  PROVE  ProbeIndex(h, i) # ProbeIndex(h, j)
<1> SUFFICES ASSUME ProbeIndex(h, i) = ProbeIndex(h, j) PROVE FALSE
  OBVIOUS
<1>0. N \in Nat /\ N > 1
  BY DEF IsPrime
<1>1. i \in Nat /\ j \in Nat /\ j - i \in 1 .. N - 1 /\ j + i \in 1 .. N - 1
  BY <1>0
<1> DEFINE x == h + i * i
           y == h + j * j
<1>2. x \in Nat /\ y \in Nat
  BY <1>1
<1>3. x % N = y % N
  BY DEF ProbeIndex
<1>4. y - x = (j - i) * (j + i)
  <2>1. (j - i) * (j + i) = j * j - i * i
    BY <1>1
  <2> QED BY <1>1, <2>1
<1> HIDE DEF x, y
<1>5. Divides(N, y - x)
  <2>1. x = (x \div N) * N + (x % N) /\ y = (y \div N) * N + (y % N)
    BY <1>0, <1>2
  <2>2. x \div N \in Int /\ y \div N \in Int
    BY <1>0, <1>2
  <2> DEFINE u == x \div N
             v == y \div N
             w == x % N
  <2>3. w \in Int
    BY <1>0, <1>2
  <2>4. x = u * N + w /\ y = v * N + w /\ u \in Int /\ v \in Int
    BY <1>3, <2>1, <2>2
  <2> HIDE DEF u, v, w
  <2>5. y - x = (v - u) * N
    <3>1. (v - u) * N = v * N - u * N
      BY <1>0, <2>4
    <3> QED BY <1>0, <2>3, <2>4, <3>1
  <2>6. v - u \in Int
    BY <2>4
  <2> QED BY <2>5, <2>6 DEF Divides
<1>6. Divides(N, (j - i) * (j + i))
  BY <1>4, <1>5
<1> QED BY <1>1, <1>6, NoDivisorOfPrime

(* When no probe of a key meets an empty slot, the first (N + 1) / 2 of     *)
(* them are so many taken slots.                                            *)
LEMMA HalfFull ==
  ASSUME IsPrime(N), NEW h \in Nat, NEW m, NEW k, InsertProbes(m, h, k) = {}
  PROVE  Cardinality({at \in Slot : m[at] # Empty}) >= (N + 1) \div 2
<1> DEFINE I == 0 .. (N + 1) \div 2 - 1
           T == {at \in Slot : m[at] # Empty}
           f == [i \in I |-> ProbeIndex(h, i)]
<1>0. N \in Nat /\ N > 1 /\ I \subseteq Slot
  BY DEF IsPrime, Slot
<1>1. f \in [I -> T]
  <2> SUFFICES ASSUME NEW i \in I PROVE ProbeIndex(h, i) \in T
    OBVIOUS
  <2>1. ProbeIndex(h, i) \in Slot
    BY <1>0, ProbeInTable
  <2>2. m[ProbeIndex(h, i)] # Empty
    BY <1>0 DEF InsertProbes
  <2> QED BY <2>1, <2>2
<1>2. \A i, j \in I : f[i] = f[j] => i = j
  <2> SUFFICES ASSUME NEW i \in I, NEW j \in I, ProbeIndex(h, i) = ProbeIndex(h, j), i # j
               PROVE  FALSE
    OBVIOUS
  <2>1. i < j \/ j < i
    BY <1>0
  <2> QED BY <2>1, ProbesDistinct
<1>3. f \in Injection(I, T)
  BY <1>1, <1>2 DEF Injection, IsInjective
<1>4. IsFiniteSet(Slot)
  BY <1>0, FS_Interval DEF Slot
<1>5. IsFiniteSet(T)
  BY <1>4, FS_Subset
<1>6. Cardinality(I) <= Cardinality(T)
  BY <1>3, <1>5, FS_Injection
<1>7. Cardinality(I) = (N + 1) \div 2
  <2> DEFINE c == (N + 1) \div 2
  <2>1. c \in Nat /\ c > 0
    BY <1>0
  <2> HIDE DEF c
  <2>2. 0 \in Int /\ c - 1 \in Int /\ Cardinality(0 .. c - 1) = IF 0 > c - 1 THEN 0 ELSE (c - 1) - 0 + 1
    BY <2>1, FS_Interval
  <2>3. Cardinality(0 .. c - 1) = c
    BY <2>1, <2>2
  <2> QED BY <2>3 DEF c
<1>8. Cardinality(T) \in Nat
  BY <1>5, FS_CardinalityType
<1> HIDE DEF T
<1>9. Cardinality(T) >= (N + 1) \div 2
  BY <1>0, <1>6, <1>7, <1>8
<1> QED BY <1>9 DEF T

(* In a table of prime size, as the map's documentation asks for, insert    *)
(* fails only when half of the slots are taken, whatever the hash function  *)
(* is and whatever was inserted and erased before.                          *)
THEOREM InsertFailsHalfFull ==
  ASSUME IsPrime(N)
  PROVE  MapSpec => InsertFailsOnlyWhenHalfFull
<1> DEFINE Step == ~result' /\ (\E k \in Key, v \in Value : Insert(k, v)) => HalfTaken
<1>1. TypeOK /\ [MapNext]_map_vars => [Step]_map_vars
  <2> SUFFICES ASSUME TypeOK, ~result', NEW k \in Key, NEW v \in Value, Insert(k, v)
               PROVE  HalfTaken
    OBVIOUS
  <2>1. hash[k] \in Nat
    BY DEF TypeOK
  <2>2. InsertProbes(map, hash[k], k) = {}
    BY DEF Insert, CanInsert
  <2> QED BY <2>1, <2>2, HalfFull DEF HalfTaken
<1> QED BY <1>1, NewestFirstInvariant, PTL DEF MapSpec, InsertFailsOnlyWhenHalfFull


-----------------------------------------------------------------------------
(*****************************************************************************)
(* The map from core IDs to indexes, which add_core writes and nobody erases *)
(* from.                                                                     *)
(*****************************************************************************)

(* Probe i is the first of id's that is free or holds it, and holds it. *)
FirstAt(m, id, i) ==
  /\ Holds(m, ProbeIndex(hash[id], i), id)
  /\ \A j \in Slot : j < i => /\ m[ProbeIndex(hash[id], j)] # Empty
                              /\ ~Holds(m, ProbeIndex(hash[id], j), id)

(* A table that says what function F does, each ID in one slot. *)
MapOf(m, F) ==
  /\ m \in [Slot -> {Empty} \cup (CoreId \X Nat)]
  /\ F \in [DOMAIN F -> Nat] /\ DOMAIN F \subseteq CoreId
  /\ \A at \in Slot : m[at] # Empty => m[at][1] \in DOMAIN F /\ m[at][2] = F[m[at][1]]
  /\ \A id \in DOMAIN F : \E i \in Slot : FirstAt(m, id, i)
  /\ \A at, to \in Slot : m[at] # Empty /\ m[to] # Empty /\ m[at][1] = m[to][1] => at = to

(* No more slots are taken than there are IDs. *)
LEMMA MapFills ==
  ASSUME NEW m, NEW F, MapOf(m, F), IsFiniteSet(DOMAIN F)
  PROVE  Cardinality({at \in Slot : m[at] # Empty}) <= Cardinality(DOMAIN F)
<1> DEFINE T == {at \in Slot : m[at] # Empty}
           D == DOMAIN F
           g == [at \in T |-> m[at][1]]
<1>1. /\ \A at \in Slot : m[at] # Empty => m[at][1] \in D
      /\ \A at, to \in Slot : m[at] # Empty /\ m[to] # Empty /\ m[at][1] = m[to][1] => at = to
  BY DEF MapOf
<1>2. g \in [T -> D] /\ \A at, to \in T : g[at] = g[to] => at = to
  BY <1>1
<1> HIDE DEF T, D, g
<1>3. g \in Injection(T, D)
  BY <1>2 DEF Injection, IsInjective
<1>4. Cardinality(T) <= Cardinality(D)
  BY <1>3, FS_Injection DEF D
<1> QED BY <1>4 DEF T, D

(* get_core_index reads the function. *)
LEMMA MapFinds ==
  ASSUME NEW m, NEW F, MapOf(m, F), hash \in [CoreId -> Nat], NEW id \in CoreId
  PROVE  Find(m, hash[id], id) = IF id \in DOMAIN F THEN {F[id]} ELSE {}
<1> DEFINE P == KeyProbes(m, hash[id], id)
           at == ProbeIndex(hash[id], Min(P))
<1>0. hash[id] \in Nat
  OBVIOUS
<1>1. \A i \in Slot : ProbeIndex(hash[id], i) \in Slot
  BY <1>0, ProbeInTable
<1>2. CASE P = {}
  <2>1. Find(m, hash[id], id) = {}
    BY <1>2 DEF Find
  <2>2. id \notin DOMAIN F
    <3> SUFFICES ASSUME id \in DOMAIN F PROVE FALSE
      OBVIOUS
    <3>1. PICK i \in Slot : FirstAt(m, id, i)
      BY DEF MapOf
    <3>2. i \in P
      BY <3>1 DEF FirstAt, KeyProbes
    <3> QED BY <1>2, <3>2
  <2> QED BY <2>1, <2>2
<1>3. CASE P # {}
  <2>1. Min(P) \in P
    BY <1>0, <1>3, FirstProbes
  <2>2. Min(P) \in Slot /\ Holds(m, at, id)
    BY <2>1 DEF KeyProbes
  <2>3. at \in Slot
    BY <1>1, <2>2
  <2>4. Find(m, hash[id], id) = {m[at][2]}
    BY <1>3 DEF Find
  <2> HIDE DEF at, P
  <2>5. m[at] # Empty /\ m[at][1] = id
    BY <2>2 DEF Holds
  <2>6. id \in DOMAIN F /\ m[at][2] = F[id]
    BY <2>3, <2>5 DEF MapOf
  <2> QED BY <2>4, <2>6
<1> QED BY <1>2, <1>3

(* insert finds a slot: that of the ID, or one while less than half of the   *)
(* slots are taken.                                                          *)
LEMMA MapHasRoom ==
  ASSUME NEW m, NEW F, MapOf(m, F), hash \in [CoreId -> Nat], NEW id \in CoreId,
         \/ id \in DOMAIN F
         \/ IsPrime(N) /\ IsFiniteSet(DOMAIN F) /\ Cardinality(DOMAIN F) < (N + 1) \div 2
  PROVE  InsertProbes(m, hash[id], id) # {}
<1>1. CASE id \in DOMAIN F
  <2>1. PICK i \in Slot : FirstAt(m, id, i)
    BY <1>1 DEF MapOf
  <2>2. i \in InsertProbes(m, hash[id], id)
    BY <2>1 DEF FirstAt, InsertProbes
  <2> QED BY <2>2
<1>2. CASE IsPrime(N) /\ IsFiniteSet(DOMAIN F) /\ Cardinality(DOMAIN F) < (N + 1) \div 2
  <2> SUFFICES ASSUME InsertProbes(m, hash[id], id) = {} PROVE FALSE
    OBVIOUS
  <2> DEFINE T == {at \in Slot : m[at] # Empty}
             a == Cardinality(T)
             b == Cardinality(DOMAIN F)
             c == (N + 1) \div 2
  <2>1. a >= c
    BY <1>2, HalfFull
  <2>2. a <= b
    BY <1>2, MapFills
  <2>3. IsFiniteSet(T)
    <3>1. IsFiniteSet(Slot)
      BY TableAssumption, FS_Interval DEF Slot
    <3> QED BY <3>1, FS_Subset
  <2>4. a \in Nat /\ b \in Nat /\ c \in Nat
    <3>1. a \in Nat /\ b \in Nat
      BY <1>2, <2>3, FS_CardinalityType
    <3>2. c \in Nat
      BY TableAssumption
    <3> QED BY <3>1, <3>2
  <2>5. b < c
    BY <1>2
  <2> HIDE DEF a, b, c
  <2> QED BY <2>1, <2>2, <2>4, <2>5
<1> QED BY <1>1, <1>2

(* The function with one more value. *)
With(F, id, v) == [x \in DOMAIN F \cup {id} |-> IF x = id THEN v ELSE F[x]]

(* insert adds a pair, or changes the value of one, and nothing else. *)
LEMMA MapInserts ==
  ASSUME NEW m, NEW F, MapOf(m, F), hash \in [CoreId -> Nat], NEW id \in CoreId, NEW v \in Nat,
         InsertProbes(m, hash[id], id) # {}
  PROVE  MapOf(InsertKey(m, hash[id], id, v), With(F, id, v))
<1> DEFINE P == InsertProbes(m, hash[id], id)
           G == With(F, id, v)
           new == InsertKey(m, hash[id], id, v)
<1>0. hash[id] \in Nat /\ \A q \in CoreId : hash[q] \in Nat
  OBVIOUS
<1>1. Min(P) \in P /\ \A j \in P : Min(P) <= j
  BY <1>0, FirstProbes
<1>2. PICK i \in P : i = Min(P) /\ \A j \in P : i <= j
  BY <1>1
<1> DEFINE at == ProbeIndex(hash[id], i)
<1>3. i \in Slot /\ (m[at] = Empty \/ Holds(m, at, id))
  BY <1>2 DEF InsertProbes
<1>4. \A q \in CoreId : \A j \in Slot : ProbeIndex(hash[q], j) \in Slot
  BY <1>0, ProbeInTable
<1>5. new = [m EXCEPT ![at] = <<id, v>>]
  BY <1>2 DEF InsertKey, CanInsert
<1>6. \A j \in Slot : j < i => m[ProbeIndex(hash[id], j)] # Empty /\ ~Holds(m, ProbeIndex(hash[id], j), id)
  <2> SUFFICES ASSUME NEW j \in Slot, j < i
               PROVE  m[ProbeIndex(hash[id], j)] # Empty /\ ~Holds(m, ProbeIndex(hash[id], j), id)
    OBVIOUS
  <2>1. i \in Int /\ j \in Int
    BY <1>3, TableAssumption DEF Slot
  <2>2. j \notin P
    BY <1>2, <2>1
  <2> QED BY <2>2 DEF InsertProbes
<1>7. /\ m \in [Slot -> {Empty} \cup (CoreId \X Nat)]
      /\ F \in [DOMAIN F -> Nat] /\ DOMAIN F \subseteq CoreId
      /\ \A to \in Slot : m[to] # Empty => m[to][1] \in DOMAIN F /\ m[to][2] = F[m[to][1]]
      /\ \A q \in DOMAIN F : \E j \in Slot : FirstAt(m, q, j)
      /\ \A to, by \in Slot : m[to] # Empty /\ m[by] # Empty /\ m[to][1] = m[by][1] => to = by
  BY DEF MapOf
<1>8. at \in Slot
  BY <1>3, <1>4
<1>9. /\ DOMAIN G = DOMAIN F \cup {id} /\ G[id] = v /\ \A q \in DOMAIN F : q # id => G[q] = F[q]
      /\ G = [x \in DOMAIN F \cup {id} |-> IF x = id THEN v ELSE F[x]]
  BY DEF With
<1> HIDE DEF P, G, new, at
<1>10. new \in [Slot -> {Empty} \cup (CoreId \X Nat)] /\ new[at] = <<id, v>>
       /\ \A to \in Slot : to # at => new[to] = m[to]
  BY <1>5, <1>7, <1>8
<1>11. G \in [DOMAIN G -> Nat] /\ DOMAIN G \subseteq CoreId
  BY <1>7, <1>9
<1>12. <<id, v>> # Empty /\ <<id, v>>[1] = id /\ <<id, v>>[2] = v
  BY DEF Empty
<1>13. \A to \in Slot : to # at /\ m[to] # Empty => m[to][1] # id
  <2> SUFFICES ASSUME NEW to \in Slot, to # at, m[to] # Empty, m[to][1] = id PROVE FALSE
    OBVIOUS
  <2>1. id \in DOMAIN F
    BY <1>7
  <2>2. PICK j \in Slot : FirstAt(m, id, j)
    BY <1>7, <2>1
  <2> DEFINE by == ProbeIndex(hash[id], j)
  <2>3. by \in Slot /\ m[by] # Empty /\ m[by][1] = id
    BY <1>4, <2>2 DEF FirstAt, Holds
  <2>4. by = to
    <3> HIDE DEF by
    <3> QED BY <1>7, <2>3
  <2>5. i \in Int /\ j \in Int
    BY <1>3, TableAssumption DEF Slot
  <2>6. ~(i < j)
    <3> SUFFICES ASSUME i < j PROVE FALSE
      OBVIOUS
    <3>1. m[at] # Empty /\ ~Holds(m, at, id)
      BY <1>3, <2>2 DEF FirstAt, at
    <3> QED BY <1>3, <3>1
  <2>7. ~(j < i)
    <3> SUFFICES ASSUME j < i PROVE FALSE
      OBVIOUS
    <3> QED BY <1>6, <2>2 DEF FirstAt
  <2>8. i = j
    BY <2>5, <2>6, <2>7
  <2> QED BY <2>4, <2>8 DEF at
<1>14. \A to \in Slot : new[to] # Empty => new[to][1] \in DOMAIN G /\ new[to][2] = G[new[to][1]]
  <2> SUFFICES ASSUME NEW to \in Slot, new[to] # Empty
               PROVE  new[to][1] \in DOMAIN G /\ new[to][2] = G[new[to][1]]
    OBVIOUS
  <2>1. CASE to = at
    BY <1>9, <1>10, <1>12, <2>1
  <2>2. CASE to # at
    <3>1. new[to] = m[to] /\ m[to] # Empty
      BY <1>10, <2>2
    <3>2. m[to][1] # id /\ m[to][1] \in DOMAIN F /\ m[to][2] = F[m[to][1]]
      BY <1>7, <1>13, <2>2, <3>1
    <3> QED BY <1>9, <3>1, <3>2
  <2> QED BY <2>1, <2>2
<1>15. \A q \in DOMAIN G : \E j \in Slot : FirstAt(new, q, j)
  <2> SUFFICES ASSUME NEW q \in DOMAIN G PROVE \E j \in Slot : FirstAt(new, q, j)
    OBVIOUS
  <2>1. CASE q = id
    <3>1. Holds(new, at, id)
      BY <1>10, <1>12 DEF Holds
    <3>2. ASSUME NEW j \in Slot, j < i
          PROVE  new[ProbeIndex(hash[id], j)] # Empty /\ ~Holds(new, ProbeIndex(hash[id], j), id)
      <4> DEFINE to == ProbeIndex(hash[id], j)
      <4>1. m[to] # Empty /\ ~Holds(m, to, id) /\ to \in Slot
        BY <1>4, <1>6, <3>2
      <4> HIDE DEF to
      <4>2. to # at
        BY <1>3, <4>1
      <4>3. new[to] = m[to]
        BY <1>10, <4>1, <4>2
      <4>4. new[to] # Empty /\ ~Holds(new, to, id)
        BY <4>1, <4>3 DEF Holds
      <4> QED BY <4>4 DEF to
    <3>3. FirstAt(new, id, i)
      BY <3>1, <3>2 DEF FirstAt, at
    <3> QED BY <1>3, <2>1, <3>3
  <2>2. CASE q # id
    <3>1. q \in DOMAIN F /\ q \in CoreId
      BY <1>7, <1>9, <2>2
    <3>2. PICK j \in Slot : FirstAt(m, q, j)
      BY <1>7, <3>1
    <3>3. \A to \in Slot : /\ m[to] # Empty => new[to] # Empty
                           /\ Holds(new, to, q) <=> Holds(m, to, q)
      <4> SUFFICES ASSUME NEW to \in Slot
                   PROVE  /\ m[to] # Empty => new[to] # Empty
                          /\ Holds(new, to, q) <=> Holds(m, to, q)
        OBVIOUS
      <4>1. CASE to = at
        BY <1>3, <1>10, <1>12, <2>2, <4>1 DEF Holds
      <4>2. CASE to # at
        BY <1>10, <4>2 DEF Holds
      <4> QED BY <4>1, <4>2
    <3>4. \A k \in Slot : ProbeIndex(hash[q], k) \in Slot
      BY <1>4, <3>1
    <3>5. FirstAt(new, q, j)
      BY <3>2, <3>3, <3>4 DEF FirstAt
    <3> QED BY <3>5
  <2> QED BY <2>1, <2>2
<1>16. \A to, by \in Slot : new[to] # Empty /\ new[by] # Empty /\ new[to][1] = new[by][1] => to = by
  <2> SUFFICES ASSUME NEW to \in Slot, NEW by \in Slot, new[to] # Empty, new[by] # Empty,
                      new[to][1] = new[by][1], to # by
               PROVE  FALSE
    OBVIOUS
  <2>1. CASE to = at
    <3>1. by # at /\ new[by] = m[by] /\ new[to][1] = id
      BY <1>10, <1>12, <2>1
    <3> QED BY <1>13, <3>1
  <2>2. CASE by = at
    <3>1. to # at /\ new[to] = m[to] /\ new[by][1] = id
      BY <1>10, <1>12, <2>2
    <3> QED BY <1>13, <3>1
  <2>3. CASE to # at /\ by # at
    <3>1. new[to] = m[to] /\ new[by] = m[by]
      BY <1>10, <2>3
    <3> QED BY <1>7, <3>1
  <2> QED BY <2>1, <2>2, <2>3
<1>17. MapOf(new, G)
  BY <1>10, <1>11, <1>14, <1>15, <1>16 DEF MapOf
<1> QED BY <1>17 DEF new, G


-----------------------------------------------------------------------------
(*****************************************************************************)
(* The list of cores.                                                        *)
(*****************************************************************************)

(* The least of two. *)
LEMMA MinOfTwo ==
  ASSUME NEW a \in Nat, NEW b \in Nat
  PROVE  Min({a, b}) = IF a <= b THEN a ELSE b
<1> DEFINE S == {a, b}
<1>1. S \in SUBSET Nat /\ S # {} /\ a \in S /\ b \in S
  OBVIOUS
<1>2. Min(S) \in S /\ \A n \in S : Min(S) <= n
  <2> HIDE DEF S
  <2> QED BY <1>1, MinOfNat
<1>3. (Min(S) = a \/ Min(S) = b) /\ Min(S) <= a /\ Min(S) <= b
  BY <1>1, <1>2
<1> DEFINE x == Min(S)
<1> HIDE DEF x, S
<1>4. x = IF a <= b THEN a ELSE b
  BY <1>3 DEF x
<1> QED BY <1>4 DEF x, S

(* The cpu nodes, their properties, and the cores that the scanner makes of  *)
(* them, with every number of cells that a cpus node gives.                  *)
CpuNode == {node \in Nodes : node.name = "cpu@N"}
CpuProps == {node.props : node \in CpuNode}
CoreOf(node, cells) ==
  WithMethod([x \in DOMAIN NewCore |-> ReadNode(NodeWords(node, cells), cells)[x]])
CanRead(node, cells) ==
  /\ node \in CpuNode /\ cells \in CpusCells /\ RegFits(node.props, cells)
  /\ ReadNode(NodeWords(node, cells), cells).ok
CpuCores ==
  UNION {{CoreOf(node, cells) : node \in {n \in CpuNode : CanRead(n, cells)}} : cells \in CpusCells}

(* What add_core makes of the list: the core at the end, or, if it is the    *)
(* primary one, at the front and the first one at the end.                   *)
IsAdded(new, old, core) ==
  /\ new \in Seq(CpuCores) /\ Len(new) = Len(old) + 1
  /\ \A i \in 1 .. Len(old) : i # 1 \/ core.id # primary_id => new[i] = old[i]
  /\ IF core.id # primary_id \/ old = <<>> THEN new[Len(old) + 1] = core
     ELSE new[1] = core /\ new[Len(old) + 1] = old[1]

(* add_core swaps the primary core in. *)
LEMMA ListAddedIs ==
  ASSUME cores \in Seq(CpuCores), NEW core \in CpuCores
  PROVE  IsAdded(ListAdded(core), cores, core)
<1> DEFINE L == Len(cores)
<1>0. L \in Nat /\ L = Len(cores)
  OBVIOUS
<1>1. CASE core.id # primary_id \/ cores = <<>>
  <2> DEFINE new == Append(cores, core)
  <2>1. ListAdded(core) = new
    BY <1>1 DEF ListAdded
  <2>2. /\ new \in Seq(CpuCores) /\ Len(new) = L + 1 /\ new[L + 1] = core
        /\ \A i \in 1 .. L : new[i] = cores[i]
    OBVIOUS
  <2> HIDE DEF new
  <2> QED BY <1>1, <2>1, <2>2 DEF IsAdded
<1>2. CASE ~(core.id # primary_id \/ cores = <<>>)
  <2> DEFINE mid == [cores EXCEPT ![1] = core]
             first == cores[1]
             new == Append(mid, first)
  <2>1. ListAdded(core) = new
    BY <1>2 DEF ListAdded
  <2>2. L > 0 /\ first \in CpuCores
    BY <1>2
  <2>3. mid \in Seq(CpuCores) /\ Len(mid) = L /\ mid[1] = core /\ \A i \in 1 .. L : i # 1 => mid[i] = cores[i]
    BY <2>2
  <2> HIDE DEF mid, first
  <2>4. /\ new \in Seq(CpuCores) /\ Len(new) = L + 1 /\ new[L + 1] = first
        /\ \A i \in 1 .. L : new[i] = mid[i]
    BY <2>2, <2>3
  <2> HIDE DEF new
  <2>5. new[1] = core
    BY <1>0, <2>2, <2>3, <2>4
  <2>6. \A i \in 1 .. L : i # 1 \/ core.id # primary_id => new[i] = cores[i]
    BY <1>2, <2>3, <2>4
  <2> QED BY <1>2, <2>1, <2>4, <2>5, <2>6 DEF IsAdded, first
<1> QED BY <1>1, <1>2

(* Cores of different IDs, the primary one first. *)
IdsApart(list_) == \A i, j \in 1 .. Len(list_) : list_[i].id = list_[j].id => i = j
PrimaryFirst(list_) == \A i \in 1 .. Len(list_) : list_[i].id = primary_id => i = 1

(* The members of the new list are those of the old one and the new core, at *)
(* different places; each keeps its place but the first, which may go to the *)
(* end.                                                                      *)
LEMMA AddedMembers ==
  ASSUME NEW new, NEW old \in Seq(CpuCores), NEW core \in CpuCores, IsAdded(new, old, core)
  PROVE  /\ Len(new) = Len(old) + 1 /\ Len(old) \in Nat
         /\ \E k \in 1 .. Len(new) : new[k] = core
         /\ \A i \in 1 .. Len(old) : \E k \in 1 .. Len(new) : new[k] = old[i]
         /\ \A k \in 1 .. Len(new) : new[k] = core \/ \E i \in 1 .. Len(old) : new[k] = old[i]
<1> DEFINE L == Len(old)
<1>0. L \in Nat /\ Len(new) = L + 1
  BY DEF IsAdded
<1>1. CASE core.id # primary_id \/ old = <<>>
  <2>1. new[L + 1] = core /\ \A i \in 1 .. L : new[i] = old[i]
    BY <1>1 DEF IsAdded
  <2> HIDE DEF L
  <2>2. \A k \in 1 .. L + 1 : k = L + 1 \/ k \in 1 .. L
    BY <1>0
  <2>3. L + 1 \in 1 .. L + 1 /\ \A i \in 1 .. L : i \in 1 .. L + 1
    BY <1>0
  <2> QED BY <1>0, <2>1, <2>2, <2>3 DEF L
<1>2. CASE ~(core.id # primary_id \/ old = <<>>)
  <2>1. new[1] = core /\ new[L + 1] = old[1] /\ (\A i \in 1 .. L : i # 1 => new[i] = old[i]) /\ L > 0
    BY <1>2 DEF IsAdded
  <2> HIDE DEF L
  <2>2. \A k \in 1 .. L + 1 : k = L + 1 \/ k = 1 \/ (k \in 1 .. L /\ k # 1)
    BY <1>0
  <2>3. L + 1 \in 1 .. L + 1 /\ 1 \in 1 .. L /\ 1 \in 1 .. L + 1 /\ \A i \in 1 .. L : i \in 1 .. L + 1
    BY <1>0, <2>1
  <2> QED BY <1>0, <2>1, <2>2, <2>3 DEF L
<1> QED BY <1>1, <1>2

(* The IDs stay apart and the primary core first when a core with a new ID   *)
(* is added.                                                                 *)
LEMMA AddedApart ==
  ASSUME NEW new, NEW old \in Seq(CpuCores), NEW core \in CpuCores, IsAdded(new, old, core),
         IdsApart(old), PrimaryFirst(old), \A i \in 1 .. Len(old) : old[i].id # core.id
  PROVE  IdsApart(new) /\ PrimaryFirst(new)
<1> DEFINE L == Len(old)
<1>0. /\ L \in Nat /\ Len(new) = L + 1
      /\ \A i, j \in 1 .. L : old[i].id = old[j].id => i = j
      /\ \A i \in 1 .. L : old[i].id = primary_id => i = 1
      /\ \A i \in 1 .. L : old[i].id # core.id
  BY DEF IsAdded, IdsApart, PrimaryFirst
<1>1. CASE core.id # primary_id \/ old = <<>>
  <2>1. new[L + 1] = core /\ \A i \in 1 .. L : new[i] = old[i]
    BY <1>1 DEF IsAdded
  <2>a. core.id # primary_id \/ L = 0
    BY <1>1
  <2> HIDE DEF L
  <2>2. \A k \in 1 .. L + 1 : k = L + 1 \/ k \in 1 .. L
    BY <1>0
  <2>3. IdsApart(new)
    BY <1>0, <2>1, <2>2 DEF IdsApart
  <2>4. PrimaryFirst(new)
    BY <1>0, <2>1, <2>2, <2>a DEF PrimaryFirst
  <2> QED BY <2>3, <2>4
<1>2. CASE ~(core.id # primary_id \/ old = <<>>)
  <2>1. new[1] = core /\ new[L + 1] = old[1] /\ (\A i \in 1 .. L : i # 1 => new[i] = old[i]) /\ L > 0
        /\ core.id = primary_id
    BY <1>2 DEF IsAdded
  <2> HIDE DEF L
  <2>2. \A k \in 1 .. L + 1 : k = L + 1 \/ k = 1 \/ (k \in 1 .. L /\ k # 1)
    BY <1>0
  <2>3. 1 \in 1 .. L
    BY <1>0, <2>1
  <2>4. IdsApart(new)
    BY <1>0, <2>1, <2>2, <2>3 DEF IdsApart
  <2>5. PrimaryFirst(new)
    BY <1>0, <2>1, <2>2, <2>3 DEF PrimaryFirst
  <2> QED BY <2>4, <2>5
<1> QED BY <1>1, <1>2

-----------------------------------------------------------------------------
(*****************************************************************************)
(* The map follows the list.                                                 *)
(*****************************************************************************)

(* The ID that the scanner reads is the node's, and the default method       *)
(* leaves it alone.                                                          *)
LEMMA CoreIdIs ==
  ASSUME NEW node, NEW cells, CanRead(node, cells)
  PROVE  CoreOf(node, cells).id = Reg(node.props) /\ Reg(node.props) \in CoreId
<1> DEFINE read == ReadNode(NodeWords(node, cells), cells)
           core == [x \in DOMAIN NewCore |-> read[x]]
<1>1. read.id = Reg(node.props) /\ Reg(node.props) \in CoreId
  BY CpuReaderAssumption, NodesAssumption DEF CanRead, CpuNode
<1>2. DOMAIN NewCore = {"id", "enable_method", "release_addr"}
  BY DEF NewCore
<1> HIDE DEF read
<1>3. WithMethod(core).id = read.id
  BY <1>2 DEF WithMethod
<1> QED BY <1>1, <1>3 DEF CoreOf, read

(* A core's ID is one of the device tree's. *)
LEMMA CoreIds ==
  ASSUME NEW core \in CpuCores
  PROVE  core.id \in CoreId
<1>1. PICK node, cells : CanRead(node, cells) /\ core = CoreOf(node, cells)
  BY DEF CpuCores
<1> QED BY <1>1, CoreIdIs

(* The cores that there may be change only with the default method. *)
LEMMA SameCores ==
  ASSUME def_enable_method' = def_enable_method
  PROVE  CpuCores' = CpuCores
BY DEF CpuCores, CoreOf, WithMethod

(* F gives every core's index, counted from 0. *)
IsIndex(F, list_) ==
  /\ F \in [DOMAIN F -> Nat] /\ DOMAIN F = {list_[i].id : i \in 1 .. Len(list_)}
  /\ \A i \in 1 .. Len(list_) : F[list_[i].id] = i - 1

(* The table has the index of every core of a list, and no other. *)
MapSays(m, list_) == \E F : IsIndex(F, list_) /\ MapOf(m, F)

(* There are no more IDs than cores. *)
LEMMA IndexSize ==
  ASSUME NEW F, NEW old \in Seq(CpuCores), IsIndex(F, old)
  PROVE  IsFiniteSet(DOMAIN F) /\ Cardinality(DOMAIN F) \in Nat /\ Cardinality(DOMAIN F) <= Len(old)
<1> DEFINE L == Len(old)
           D == DOMAIN F
           g == [i \in 1 .. L |-> old[i].id]
<1>1. L \in Nat /\ D = {old[i].id : i \in 1 .. L}
  BY DEF IsIndex
<1>2. g \in [1 .. L -> D] /\ \A d \in D : \E i \in 1 .. L : g[i] = d
  BY <1>1
<1> HIDE DEF g, D, L
<1>3. g \in Surjection(1 .. L, D)
  BY <1>2 DEF Surjection
<1>4. IsFiniteSet(1 .. L) /\ Cardinality(1 .. L) = L
  <2>1. IsFiniteSet(1 .. L) /\ Cardinality(1 .. L) = IF 1 > L THEN 0 ELSE L - 1 + 1
    BY <1>1, FS_Interval
  <2> QED BY <1>1, <2>1
<1>5. IsFiniteSet(D) /\ Cardinality(D) <= Cardinality(1 .. L)
  BY <1>3, <1>4, FS_Surjection
<1>6. Cardinality(D) \in Nat
  BY <1>5, FS_CardinalityType
<1> QED BY <1>4, <1>5, <1>6 DEF D, L

(* The index of a list with a core added, as add_core's writes to the map    *)
(* make it.                                                                  *)
LEMMA IndexAppends ==
  ASSUME NEW F, NEW new, NEW old \in Seq(CpuCores), NEW core \in CpuCores, IsAdded(new, old, core),
         IsIndex(F, old), \A i \in 1 .. Len(old) : old[i].id # core.id,
         core.id # primary_id \/ old = <<>>
  PROVE  IsIndex(With(F, core.id, Len(old)), new)
<1> DEFINE L == Len(old)
           G == With(F, core.id, L)
<1>1. /\ L \in Nat /\ Len(new) = L + 1 /\ new[L + 1] = core
      /\ \A i \in 1 .. L : new[i] = old[i] /\ old[i].id # core.id
  BY DEF IsAdded
<1>2. /\ F \in [DOMAIN F -> Nat] /\ DOMAIN F = {old[i].id : i \in 1 .. L}
      /\ \A i \in 1 .. L : F[old[i].id] = i - 1
  BY DEF IsIndex
<1>3. /\ DOMAIN G = DOMAIN F \cup {core.id} /\ G[core.id] = L
      /\ \A x \in DOMAIN F : x # core.id => G[x] = F[x]
      /\ G \in [DOMAIN G -> Nat]
  BY <1>1, <1>2 DEF With
<1> HIDE DEF L, G
<1>4. \A k \in 1 .. L + 1 : k = L + 1 \/ k \in 1 .. L
  BY <1>1
<1>5. L + 1 \in 1 .. L + 1 /\ \A i \in 1 .. L : i \in 1 .. L + 1
  BY <1>1
<1>6. \A k \in 1 .. L + 1 : G[new[k].id] = k - 1
  <2> SUFFICES ASSUME NEW k \in 1 .. L + 1 PROVE G[new[k].id] = k - 1
    OBVIOUS
  <2>1. CASE k = L + 1
    BY <1>1, <1>3, <2>1
  <2>2. CASE k \in 1 .. L
    <3>1. new[k].id = old[k].id /\ old[k].id # core.id /\ old[k].id \in DOMAIN F /\ F[old[k].id] = k - 1
      BY <1>1, <1>2, <2>2
    <3> QED BY <1>3, <3>1
  <2> QED BY <1>4, <2>1, <2>2
<1>7. DOMAIN G = {new[k].id : k \in 1 .. L + 1}
  <2>1. \A x \in DOMAIN G : \E k \in 1 .. L + 1 : x = new[k].id
    BY <1>1, <1>2, <1>3, <1>5
  <2>2. \A k \in 1 .. L + 1 : new[k].id \in DOMAIN G
    BY <1>1, <1>2, <1>3, <1>4
  <2> QED BY <2>1, <2>2
<1>8. IsIndex(G, new)
  BY <1>1, <1>3, <1>6, <1>7 DEF IsIndex
<1> QED BY <1>8 DEF G, L

(* The index of a list with the primary core swapped in. *)
LEMMA IndexSwaps ==
  ASSUME NEW F, NEW new, NEW old \in Seq(CpuCores), NEW core \in CpuCores, IsAdded(new, old, core),
         IsIndex(F, old), \A i \in 1 .. Len(old) : old[i].id # core.id, IdsApart(old),
         core.id = primary_id, old # <<>>
  PROVE  IsIndex(With(With(With(F, core.id, Len(old)), old[1].id, Len(old)), core.id, 0), new)
<1> DEFINE L == Len(old)
           first == old[1].id
           G == With(With(With(F, core.id, L), first, L), core.id, 0)
<1>1. /\ L \in Nat /\ L > 0 /\ Len(new) = L + 1 /\ new[L + 1] = old[1] /\ new[1] = core
      /\ \A i \in 1 .. L : i # 1 => new[i] = old[i]
      /\ \A i \in 1 .. L : old[i].id # core.id
      /\ \A i \in 1 .. L : old[i].id = first => i = 1
  <2>1. 1 \in 1 .. L
    OBVIOUS
  <2> QED BY <2>1 DEF IsAdded, IdsApart
<1>2. /\ F \in [DOMAIN F -> Nat] /\ DOMAIN F = {old[i].id : i \in 1 .. L}
      /\ \A i \in 1 .. L : F[old[i].id] = i - 1
  BY DEF IsIndex
<1>3. 1 \in 1 .. L /\ first \in DOMAIN F /\ first # core.id
  BY <1>1, <1>2
<1>a. G \in [DOMAIN G -> Nat]
  <2> DEFINE G1 == With(F, core.id, L)
             G2 == With(G1, first, L)
  <2>1. G1 \in [DOMAIN G1 -> Nat]
    BY <1>1, <1>2 DEF With
  <2> HIDE DEF G1
  <2>2. G2 \in [DOMAIN G2 -> Nat]
    BY <1>1, <2>1 DEF With
  <2> HIDE DEF G2
  <2>3. With(G2, core.id, 0) \in [DOMAIN With(G2, core.id, 0) -> Nat]
    BY <2>2 DEF With
  <2> QED BY <2>3 DEF G2, G1
<1>4. /\ DOMAIN G = DOMAIN F \cup {core.id} /\ G[core.id] = 0 /\ G[first] = L
      /\ \A x \in DOMAIN F : x # core.id /\ x # first => G[x] = F[x]
  BY <1>3 DEF With
<1>b. new[L + 1].id = first
  BY <1>1
<1> HIDE DEF L, G, first
<1>5. \A k \in 1 .. L + 1 : k = L + 1 \/ k = 1 \/ (k \in 1 .. L /\ k # 1)
  BY <1>1
<1>6. L + 1 \in 1 .. L + 1 /\ 1 \in 1 .. L + 1 /\ \A i \in 1 .. L : i \in 1 .. L + 1
  BY <1>1
<1>7. \A k \in 1 .. L + 1 : G[new[k].id] = k - 1
  <2> SUFFICES ASSUME NEW k \in 1 .. L + 1 PROVE G[new[k].id] = k - 1
    OBVIOUS
  <2>1. CASE k = L + 1
    BY <1>1, <1>4, <1>b, <2>1
  <2>2. CASE k = 1
    BY <1>1, <1>4, <2>2
  <2>3. CASE k \in 1 .. L /\ k # 1
    <3>1. new[k].id = old[k].id /\ old[k].id # core.id /\ old[k].id \in DOMAIN F
          /\ old[k].id # first /\ F[old[k].id] = k - 1
      BY <1>1, <1>2, <2>3
    <3> QED BY <1>4, <3>1
  <2> QED BY <1>5, <2>1, <2>2, <2>3
<1>8. DOMAIN G = {new[k].id : k \in 1 .. L + 1}
  <2>1. ASSUME NEW x \in DOMAIN G PROVE \E k \in 1 .. L + 1 : x = new[k].id
    <3>1. CASE x = core.id
      BY <1>1, <1>6, <3>1
    <3>2. CASE x # core.id
      <4>1. PICK i \in 1 .. L : x = old[i].id
        BY <1>2, <1>4, <3>2
      <4>2. CASE i = 1
        BY <1>6, <1>b, <4>1, <4>2 DEF first
      <4>3. CASE i # 1
        BY <1>1, <1>6, <4>1, <4>3
      <4> QED BY <4>2, <4>3
    <3> QED BY <3>1, <3>2
  <2>2. ASSUME NEW k \in 1 .. L + 1 PROVE new[k].id \in DOMAIN G
    <3>1. CASE k = L + 1
      BY <1>3, <1>4, <1>b, <3>1
    <3>2. CASE k = 1
      BY <1>1, <1>4, <3>2
    <3>3. CASE k \in 1 .. L /\ k # 1
      BY <1>1, <1>2, <1>4, <3>3
    <3> QED BY <1>5, <3>1, <3>2, <3>3
  <2> QED BY <2>1, <2>2
<1>9. IsIndex(G, new)
  BY <1>1, <1>7, <1>8, <1>a DEF IsIndex
<1> QED BY <1>9 DEF G, L, first

(* Writing what is already there changes nothing. *)
LEMMA WithSame ==
  ASSUME NEW F, F \in [DOMAIN F -> Nat], NEW id \in DOMAIN F, NEW v, F[id] = v
  PROVE  With(F, id, v) = F
<1>1. DOMAIN F \cup {id} = DOMAIN F
  OBVIOUS
<1> QED BY <1>1 DEF With

(* An insert of an ID that the table has. *)
LEMMA MapRewrites ==
  ASSUME NEW m, NEW F, MapOf(m, F), hash \in [CoreId -> Nat], NEW id \in DOMAIN F, NEW v \in Nat
  PROVE  MapOf(InsertId(m, id, v), With(F, id, v))
<1>1. id \in CoreId
  BY DEF MapOf
<1>2. InsertProbes(m, hash[id], id) # {}
  BY <1>1, MapHasRoom
<1> QED BY <1>1, <1>2, MapInserts DEF InsertId

(* The map has the cores' indexes after add_core too, as long as less than   *)
(* half of its slots are taken.                                              *)
LEMMA MapAddedSays ==
  ASSUME cores \in Seq(CpuCores), NEW core \in CpuCores, hash \in [CoreId -> Nat],
         IdsApart(cores), \A i \in 1 .. Len(cores) : cores[i].id # core.id,
         MapSays(id_map, cores), IsPrime(N), Len(cores) < (N + 1) \div 2
  PROVE  MapSays(MapAdded(core), ListAdded(core))
<1> DEFINE L == Len(cores)
           new == ListAdded(core)
           map1 == InsertId(id_map, core.id, L)
<1>1. PICK F : IsIndex(F, cores) /\ MapOf(id_map, F)
  BY DEF MapSays
<1>2. IsAdded(new, cores, core)
  BY ListAddedIs
<1>3. core.id \in CoreId /\ L \in Nat
  BY CoreIds
<1> DEFINE F1 == With(F, core.id, L)
<1>4. MapOf(map1, F1)
  <2>1. IsFiniteSet(DOMAIN F) /\ Cardinality(DOMAIN F) < (N + 1) \div 2
    <3> DEFINE a == Cardinality(DOMAIN F)
               c == (N + 1) \div 2
    <3>1. IsFiniteSet(DOMAIN F) /\ a \in Nat /\ a <= L
      BY <1>1, IndexSize
    <3>2. L < c /\ c \in Nat
      BY TableAssumption
    <3> HIDE DEF a, c, L
    <3>3. a < c
      BY <1>3, <3>1, <3>2
    <3> QED BY <3>1, <3>3 DEF a, c
  <2>2. InsertProbes(id_map, hash[core.id], core.id) # {}
    BY <1>1, <1>3, <2>1, MapHasRoom
  <2> HIDE DEF L
  <2> QED BY <1>1, <1>3, <2>2, MapInserts DEF InsertId
<1>5. CASE core.id # primary_id
  <2>1. MapAdded(core) = map1
    BY <1>5 DEF MapAdded
  <2>2. IsIndex(F1, new)
    BY <1>1, <1>2, <1>5, IndexAppends
  <2> HIDE DEF F1, map1, new
  <2> QED BY <1>4, <2>1, <2>2 DEF MapSays, new
<1>6. CASE core.id = primary_id /\ cores = <<>>
  <2>0. L = 0
    BY <1>6
  <2>1. MapAdded(core) = InsertId(InsertId(map1, core.id, 0), core.id, 0)
    BY <1>6, <2>0 DEF MapAdded
  <2>2. IsIndex(F1, new)
    BY <1>1, <1>2, <1>6, IndexAppends
  <2>3. core.id \in DOMAIN F1 /\ F1[core.id] = 0
    BY <2>0 DEF With
  <2>4. F1 \in [DOMAIN F1 -> Nat]
    BY <2>2 DEF IsIndex
  <2> HIDE DEF F1, map1, new, L
  <2>5. With(F1, core.id, 0) = F1
    BY <2>3, <2>4, WithSame
  <2> DEFINE map2 == InsertId(map1, core.id, 0)
  <2>6. MapOf(map2, F1)
    BY <1>4, <2>3, <2>5, MapRewrites
  <2> HIDE DEF map2
  <2>7. MapOf(InsertId(map2, core.id, 0), F1)
    BY <2>3, <2>5, <2>6, MapRewrites
  <2> QED BY <2>1, <2>2, <2>7 DEF MapSays, new, map2
<1>7. CASE core.id = primary_id /\ cores # <<>>
  <2> DEFINE first == cores[1].id
             map2 == InsertId(map1, first, L)
             F2 == With(F1, first, L)
  <2>1. MapAdded(core) = InsertId(map2, core.id, 0)
    BY <1>7 DEF MapAdded
  <2>2. IsIndex(With(F2, core.id, 0), new)
    BY <1>1, <1>2, <1>7, IndexSwaps
  <2>3. first \in DOMAIN F1 /\ core.id \in DOMAIN F2
    <3>1. 1 \in 1 .. L
      BY <1>7
    <3>2. first \in DOMAIN F
      BY <1>1, <3>1 DEF IsIndex
    <3> QED BY <3>2 DEF With
  <2> HIDE DEF F1, F2, map1, map2, first, new, L
  <2>4. MapOf(map2, F2)
    BY <1>3, <1>4, <2>3, MapRewrites DEF map2, F2
  <2>5. MapOf(InsertId(map2, core.id, 0), With(F2, core.id, 0))
    BY <2>3, <2>4, MapRewrites
  <2> QED BY <2>1, <2>2, <2>5 DEF MapSays, new
<1> QED BY <1>5, <1>6, <1>7

(* What the map says is what the linear search finds. *)
LEMMA SaysAgrees ==
  ASSUME cores \in Seq(CpuCores), hash \in [CoreId -> Nat], IdsApart(cores), MapSays(id_map, cores)
  PROVE  \A id \in CoreId : MappedIndex(id) = LinearIndex(id)
<1> SUFFICES ASSUME NEW id \in CoreId PROVE MappedIndex(id) = LinearIndex(id)
  OBVIOUS
<1> DEFINE L == Len(cores)
           found == {i \in DOMAIN cores : cores[i].id = id}
<1>1. PICK F : IsIndex(F, cores) /\ MapOf(id_map, F)
  BY DEF MapSays
<1>2. MappedIndex(id) = IF id \in DOMAIN F THEN {F[id]} ELSE {}
  BY <1>1, MapFinds DEF MappedIndex
<1>3. /\ DOMAIN F = {cores[i].id : i \in 1 .. L} /\ DOMAIN cores = 1 .. L /\ L \in Nat
      /\ \A i \in 1 .. L : F[cores[i].id] = i - 1
  BY <1>1 DEF IsIndex
<1>4. LinearIndex(id) = IF found = {} THEN {} ELSE {Min(found) - 1}
  BY DEF LinearIndex
<1>5. CASE id \notin DOMAIN F
  <2>1. found = {}
    BY <1>3, <1>5
  <2> QED BY <1>2, <1>4, <1>5, <2>1
<1>6. CASE id \in DOMAIN F
  <2>1. PICK i \in 1 .. L : cores[i].id = id
    BY <1>3, <1>6
  <2>2. i \in found
    BY <1>3, <2>1
  <2>3. \A j \in found : j = i
    BY <1>3, <2>1 DEF IdsApart
  <2>4. found \in SUBSET Nat
    BY <1>3
  <2> HIDE DEF found
  <2>5. Min(found) \in found
    BY <2>2, <2>4, MinOfNat
  <2>6. Min(found) = i
    BY <2>3, <2>5
  <2>7. F[id] = i - 1
    BY <1>3, <2>1
  <2> QED BY <1>2, <1>4, <1>6, <2>2, <2>6, <2>7
<1> QED BY <1>5, <1>6

(* F gives some cores' indexes. *)
IsPart(F, list_) ==
  /\ F \in [DOMAIN F -> Nat]
  /\ \A x \in DOMAIN F : \E i \in 1 .. Len(list_) : list_[i].id = x /\ F[x] = i - 1

(* The table has no index that is not a core's. *)
MapPart(m, list_) == \E F : IsPart(F, list_) /\ MapOf(m, F)

(* G is F with the value of id set, or F without it where there is no slot. *)
Tried(F, G, id, v) ==
  /\ G \in [DOMAIN G -> Nat] /\ DOMAIN G \subseteq DOMAIN F \cup {id}
  /\ id \in DOMAIN G => G[id] = v
  /\ \A x \in DOMAIN G : x # id => G[x] = F[x]

(* An insert, whose failure add_core ignores. *)
LEMMA MapTries ==
  ASSUME NEW m, NEW F, MapOf(m, F), hash \in [CoreId -> Nat], NEW id \in CoreId, NEW v \in Nat
  PROVE  \E G : MapOf(InsertId(m, id, v), G) /\ Tried(F, G, id, v)
<1>1. CASE InsertProbes(m, hash[id], id) # {}
  <2> DEFINE G == With(F, id, v)
  <2>1. MapOf(InsertId(m, id, v), G)
    BY <1>1, MapInserts DEF InsertId
  <2>2. F \in [DOMAIN F -> Nat]
    BY DEF MapOf
  <2>3. Tried(F, G, id, v)
    BY <2>2 DEF Tried, With
  <2> QED BY <2>1, <2>3
<1>2. CASE InsertProbes(m, hash[id], id) = {}
  <2>1. InsertId(m, id, v) = m
    BY <1>2 DEF InsertId, InsertKey, CanInsert
  <2>2. id \notin DOMAIN F
    BY <1>2, MapHasRoom
  <2>3. F \in [DOMAIN F -> Nat]
    BY DEF MapOf
  <2>4. Tried(F, F, id, v)
    BY <2>2, <2>3 DEF Tried
  <2> QED BY <2>1, <2>4
<1> QED BY <1>1, <1>2

(* The values after add_core's three inserts. *)
LEMMA TriedThrice ==
  ASSUME NEW F, NEW G1, NEW G2, NEW G3, NEW id, NEW first, NEW v,
         Tried(F, G1, id, v), Tried(G1, G2, first, v), Tried(G2, G3, id, 0)
  PROVE  /\ DOMAIN G3 \subseteq DOMAIN F \cup {id, first}
         /\ id \in DOMAIN G3 => G3[id] = 0
         /\ first # id /\ first \in DOMAIN G3 => G3[first] = v
         /\ \A x \in DOMAIN G3 : x # id /\ x # first => x \in DOMAIN F /\ G3[x] = F[x]
BY DEF Tried

(* The map has no wrong index after add_core either, whichever of its        *)
(* inserts fail: an insert that fails is that of an ID which has no slot, so *)
(* that no old index stays behind.                                           *)
LEMMA MapAddedPart ==
  ASSUME cores \in Seq(CpuCores), NEW core \in CpuCores, hash \in [CoreId -> Nat],
         IdsApart(cores), \A i \in 1 .. Len(cores) : cores[i].id # core.id,
         MapPart(id_map, cores)
  PROVE  MapPart(MapAdded(core), ListAdded(core))
<1> DEFINE L == Len(cores)
           new == ListAdded(core)
           map1 == InsertId(id_map, core.id, L)
<1>1. PICK F : IsPart(F, cores) /\ MapOf(id_map, F)
  BY DEF MapPart
<1>2. IsAdded(new, cores, core)
  BY ListAddedIs
<1>3. core.id \in CoreId /\ L \in Nat /\ Len(new) = L + 1
  BY <1>2, CoreIds DEF IsAdded
<1>4. PICK G1 : MapOf(map1, G1) /\ Tried(F, G1, core.id, L)
  <2> HIDE DEF L
  <2> QED BY <1>1, <1>3, MapTries
<1>5. \A x \in DOMAIN F : \E i \in 1 .. L : cores[i].id = x /\ F[x] = i - 1
  BY <1>1 DEF IsPart
<1>6. CASE core.id # primary_id
  <2>1. MapAdded(core) = map1
    BY <1>6 DEF MapAdded
  <2>2. new[L + 1] = core /\ \A i \in 1 .. L : new[i] = cores[i]
    BY <1>2, <1>6 DEF IsAdded
  <2> HIDE DEF L, new, map1
  <2>3. L + 1 \in 1 .. L + 1 /\ L = (L + 1) - 1 /\ \A i \in 1 .. L : i \in 1 .. L + 1
    BY <1>3
  <2>4. ASSUME NEW x \in DOMAIN G1 PROVE \E i \in 1 .. L + 1 : new[i].id = x /\ G1[x] = i - 1
    <3>1. CASE x = core.id
      BY <1>4, <2>2, <2>3, <3>1 DEF Tried
    <3>2. CASE x # core.id
      <4>1. x \in DOMAIN F /\ G1[x] = F[x]
        BY <1>4, <3>2 DEF Tried
      <4>2. PICK i \in 1 .. L : cores[i].id = x /\ F[x] = i - 1
        BY <1>5, <4>1
      <4> QED BY <2>2, <2>3, <4>1, <4>2
    <3> QED BY <3>1, <3>2
  <2>5. IsPart(G1, new)
    BY <1>3, <1>4, <2>4 DEF IsPart, Tried
  <2> QED BY <1>4, <2>1, <2>5 DEF MapPart, new
<1>7. CASE core.id = primary_id
  <2> DEFINE first == IF cores = <<>> THEN core.id ELSE cores[1].id
             map2 == InsertId(map1, first, L)
             map3 == InsertId(map2, core.id, 0)
  <2>1. MapAdded(core) = map3
    BY <1>7 DEF MapAdded
  <2>2. first \in CoreId
    <3>1. CASE cores = <<>>
      BY <1>3, <3>1
    <3>2. CASE cores # <<>>
      <4>1. cores[1] \in CpuCores
        BY <3>2
      <4> QED BY <3>2, <4>1, CoreIds
    <3> QED BY <3>1, <3>2
  <2>3. /\ new[1] = core
        /\ cores = <<>> => L = 0
        /\ cores # <<>> => new[L + 1].id = first /\ first # core.id
        /\ \A i \in 1 .. L : cores[i].id # first => new[i] = cores[i]
    <3>1. CASE cores = <<>>
      BY <1>2, <3>1 DEF IsAdded
    <3>2. CASE cores # <<>>
      <4>1. 1 \in 1 .. L
        BY <3>2
      <4>2. new[1] = core /\ new[L + 1] = cores[1] /\ \A i \in 1 .. L : i # 1 => new[i] = cores[i]
        BY <1>2, <1>7, <3>2 DEF IsAdded
      <4> QED BY <3>2, <4>1, <4>2
    <3> QED BY <3>1, <3>2
  <2> HIDE DEF L, new, map1, first
  <2>4. PICK G2 : MapOf(map2, G2) /\ Tried(G1, G2, first, L)
    BY <1>3, <1>4, <2>2, MapTries
  <2> HIDE DEF map2
  <2>5. PICK G3 : MapOf(map3, G3) /\ Tried(G2, G3, core.id, 0)
    BY <1>3, <2>4, MapTries
  <2> HIDE DEF map3
  <2>6. /\ DOMAIN G3 \subseteq DOMAIN F \cup {core.id, first}
        /\ core.id \in DOMAIN G3 => G3[core.id] = 0
        /\ first # core.id /\ first \in DOMAIN G3 => G3[first] = L
        /\ \A x \in DOMAIN G3 : x # core.id /\ x # first => x \in DOMAIN F /\ G3[x] = F[x]
    BY <1>4, <2>4, <2>5, TriedThrice
  <2>7. /\ 1 \in 1 .. L + 1 /\ 0 = 1 - 1
        /\ L + 1 \in 1 .. L + 1 /\ L = (L + 1) - 1 /\ \A i \in 1 .. L : i \in 1 .. L + 1
    BY <1>3
  <2>8. ASSUME NEW x \in DOMAIN G3 PROVE \E i \in 1 .. L + 1 : new[i].id = x /\ G3[x] = i - 1
    <3>1. CASE x = core.id
      BY <2>3, <2>6, <2>7, <3>1
    <3>2. CASE x # core.id /\ x = first
      <4>1. cores # <<>>
        BY <3>2 DEF first
      <4> QED BY <2>3, <2>6, <2>7, <3>2, <4>1
    <3>3. CASE x # core.id /\ x # first
      <4>1. x \in DOMAIN F /\ G3[x] = F[x]
        BY <2>6, <3>3
      <4>2. PICK i \in 1 .. L : cores[i].id = x /\ F[x] = i - 1
        BY <1>5, <4>1
      <4> QED BY <2>3, <2>7, <3>3, <4>1, <4>2
    <3> QED BY <3>1, <3>2, <3>3
  <2>9. IsPart(G3, new)
    BY <1>3, <2>5, <2>8 DEF IsPart, Tried
  <2> QED BY <2>1, <2>5, <2>9 DEF MapPart, new
<1> QED BY <1>6, <1>7

(* An index that the map has is the one that the linear search finds. *)
LEMMA PartAgrees ==
  ASSUME cores \in Seq(CpuCores), hash \in [CoreId -> Nat], IdsApart(cores), MapPart(id_map, cores)
  PROVE  \A id \in CoreId : MappedIndex(id) \subseteq LinearIndex(id)
<1> SUFFICES ASSUME NEW id \in CoreId PROVE MappedIndex(id) \subseteq LinearIndex(id)
  OBVIOUS
<1> DEFINE L == Len(cores)
           found == {i \in DOMAIN cores : cores[i].id = id}
<1>1. PICK F : IsPart(F, cores) /\ MapOf(id_map, F)
  BY DEF MapPart
<1>2. MappedIndex(id) = IF id \in DOMAIN F THEN {F[id]} ELSE {}
  BY <1>1, MapFinds DEF MappedIndex
<1>3. DOMAIN cores = 1 .. L /\ L \in Nat
  OBVIOUS
<1>4. LinearIndex(id) = IF found = {} THEN {} ELSE {Min(found) - 1}
  BY DEF LinearIndex
<1>5. CASE id \notin DOMAIN F
  BY <1>2, <1>5
<1>6. CASE id \in DOMAIN F
  <2>1. PICK i \in 1 .. L : cores[i].id = id /\ F[id] = i - 1
    BY <1>1, <1>6 DEF IsPart
  <2>2. i \in found
    BY <1>3, <2>1
  <2>3. \A j \in found : j = i
    BY <1>3, <2>1 DEF IdsApart
  <2>4. found \in SUBSET Nat
    BY <1>3
  <2> HIDE DEF found
  <2>5. Min(found) \in found
    BY <2>2, <2>4, MinOfNat
  <2>6. Min(found) = i
    BY <2>3, <2>5
  <2> QED BY <1>2, <1>4, <1>6, <2>1, <2>2, <2>6
<1> QED BY <1>5, <1>6

(* Nothing is said of no cores. *)
LEMMA EmptySays ==
  MapSays(EmptyTable, <<>>) /\ MapPart(EmptyTable, <<>>)
<1> DEFINE F == [id \in {} |-> 0]
<1>1. DOMAIN F = {} /\ F \in [DOMAIN F -> Nat]
  OBVIOUS
<1> HIDE DEF F
<1>2. IsIndex(F, <<>>)
  BY <1>1 DEF IsIndex
<1>a. IsPart(F, <<>>)
  BY <1>1 DEF IsPart
<1>3. EmptyTable \in [Slot -> {Empty} \cup (CoreId \X Nat)] /\ \A at \in Slot : EmptyTable[at] = Empty
  BY DEF EmptyTable
<1>4. MapOf(EmptyTable, F)
  BY <1>1, <1>3 DEF MapOf
<1> QED BY <1>2, <1>4, <1>a DEF MapSays, MapPart

-----------------------------------------------------------------------------
(*****************************************************************************)
(* The scan of the device tree.                                              *)
(*****************************************************************************)

CoreTypes ==
  /\ hash \in [CoreId -> Nat] /\ scanned \in Seq(CpuProps) /\ cores \in Seq(CpuCores)

(* A list of n cores is that of the first n nodes, in some order. *)
TellsOf(list_, told, n) ==
  /\ \A j \in 1 .. n : \E i \in 1 .. n : list_[i].id = Reg(told[j])
  /\ \A i \in 1 .. n : \E j \in 1 .. n : list_[i].id = Reg(told[j])

(* The cores are those of the first nodes. *)
AllTold ==
  /\ Len(cores) = Min({Len(scanned), MAX_CORES})
  /\ TellsOf(cores, scanned, Len(cores))

(* While the scan goes on, the cells are a cpus node's, and until there was  *)
(* one there is no default method.                                           *)
CellsKnown ==
  addr_cells \in CpusCells /\ (addr_cells = 0 => def_enable_method = "Invalid")

(* The map says what the list does while it cannot be more than half full. *)
MapFollows == IsPrime(N) /\ Len(cores) <= (N + 1) \div 2 => MapSays(id_map, cores)

(* The inductive invariant of the scan. *)
CoreInv ==
  /\ CoreTypes
  /\ IdsApart(cores) /\ PrimaryFirst(cores)
  /\ MapFollows /\ MapPart(id_map, cores)
  /\ phase # "failed" => AllTold
  /\ phase \in {"new", "scan"} => CellsKnown

(* Only the first n nodes matter. *)
LEMMA TellsPrefix ==
  ASSUME NEW list_, NEW told, NEW more, NEW n, TellsOf(list_, told, n),
         \A j \in 1 .. n : more[j] = told[j]
  PROVE  TellsOf(list_, more, n)
<1>1. \A j \in 1 .. n : Reg(more[j]) = Reg(told[j])
  OBVIOUS
<1> QED BY <1>1 DEF TellsOf

(* A node for whose core there is no room, or whose properties do not read,  *)
(* changes nothing of the cores.                                             *)
LEMMA SkippedInv ==
  ASSUME CoreInv, phase = "scan", NEW props \in CpuProps, scanned' = Append(scanned, props),
         UNCHANGED <<addr_cells, def_enable_method, cores, id_map, hash>>,
         phase' = "failed" \/ Len(cores) >= MAX_CORES
  PROVE  CoreInv'
<1>1. CoreTypes'
  BY SameCores DEF CoreInv, CoreTypes
<1>2. IdsApart(cores)' /\ PrimaryFirst(cores)'
  BY DEF CoreInv, IdsApart, PrimaryFirst
<1>3. MapFollows'
  BY DEF CoreInv, MapFollows, MapSays, MapOf, FirstAt
<1>a. MapPart(id_map, cores)'
  BY DEF CoreInv, MapPart, MapOf, FirstAt, IsPart
<1>4. CellsKnown'
  BY DEF CoreInv, CellsKnown
<1>5. phase' # "failed" => AllTold'
  <2> SUFFICES ASSUME phase' # "failed" PROVE AllTold'
    OBVIOUS
  <2> DEFINE L == Len(cores)
             M == Len(scanned)
  <2>1. L \in Nat /\ M \in Nat /\ L >= MAX_CORES /\ MAX_CORES \in Nat
    BY CoreAssumption DEF CoreInv, CoreTypes
  <2>2. L = Min({M, MAX_CORES}) /\ TellsOf(cores, scanned, L)
    BY DEF CoreInv, AllTold
  <2>3. Len(scanned') = M + 1 /\ \A j \in 1 .. M : scanned'[j] = scanned[j]
    BY DEF CoreInv, CoreTypes
  <2> HIDE DEF L, M
  <2>4. L = MAX_CORES /\ L <= M
    <3>1. L = IF M <= MAX_CORES THEN M ELSE MAX_CORES
      BY <2>1, <2>2, MinOfTwo
    <3> QED BY <2>1, <3>1
  <2>5. Min({M + 1, MAX_CORES}) = L
    <3>1. Min({M + 1, MAX_CORES}) = IF M + 1 <= MAX_CORES THEN M + 1 ELSE MAX_CORES
      BY <2>1, MinOfTwo
    <3> QED BY <2>1, <2>4, <3>1
  <2>6. \A j \in 1 .. L : scanned'[j] = scanned[j]
    BY <2>1, <2>3, <2>4
  <2>7. TellsOf(cores, scanned', L)
    BY <2>2, <2>6, TellsPrefix
  <2>8. cores' = cores /\ def_enable_method' = def_enable_method /\ Len(cores) = L
    BY DEF L
  <2>9. TellsOf(cores', scanned', Len(cores'))
    BY <2>7, <2>8
  <2>10. Len(cores') = Min({Len(scanned'), MAX_CORES})
    BY <2>3, <2>5, <2>8
  <2> QED BY <2>9, <2>10 DEF AllTold, TellsOf
<1> QED BY <1>1, <1>2, <1>3, <1>4, <1>5, <1>a DEF CoreInv

(* A core added to the list is one more node told of. *)
LEMMA AddedTold ==
  ASSUME NEW new, NEW old \in Seq(CpuCores), NEW core \in CpuCores, IsAdded(new, old, core),
         NEW told, NEW more, NEW n \in Nat, n = Len(old), \A j \in 1 .. n : more[j] = told[j],
         core.id = Reg(more[n + 1]), TellsOf(old, told, n)
  PROVE  TellsOf(new, more, n + 1)
<1>1. /\ Len(new) = n + 1
      /\ \E k \in 1 .. n + 1 : new[k] = core
      /\ \A i \in 1 .. n : \E k \in 1 .. n + 1 : new[k] = old[i]
      /\ \A k \in 1 .. n + 1 : new[k] = core \/ \E i \in 1 .. n : new[k] = old[i]
  <2>1. n = Len(old) /\ n \in Nat
    OBVIOUS
  <2> QED BY <2>1, AddedMembers
<1>2. n + 1 \in 1 .. n + 1 /\ \A j \in 1 .. n + 1 : j = n + 1 \/ j \in 1 .. n
  OBVIOUS
<1>3. ASSUME NEW j \in 1 .. n + 1 PROVE \E k \in 1 .. n + 1 : new[k].id = Reg(more[j])
  <2>1. CASE j = n + 1
    BY <1>1, <2>1
  <2>2. CASE j \in 1 .. n
    <3>1. PICK i \in 1 .. n : old[i].id = Reg(told[j])
      BY <2>2 DEF TellsOf
    <3>2. Reg(told[j]) = Reg(more[j])
      BY <2>2
    <3> QED BY <1>1, <3>1, <3>2
  <2> QED BY <1>2, <2>1, <2>2
<1>4. ASSUME NEW k \in 1 .. n + 1 PROVE \E j \in 1 .. n + 1 : new[k].id = Reg(more[j])
  <2>1. CASE new[k] = core
    BY <1>2, <2>1
  <2>2. CASE \E i \in 1 .. n : new[k] = old[i]
    <3>1. PICK i \in 1 .. n : new[k] = old[i]
      BY <2>2
    <3>2. PICK j \in 1 .. n : old[i].id = Reg(told[j])
      BY DEF TellsOf
    <3>3. Reg(told[j]) = Reg(more[j]) /\ j \in 1 .. n + 1
      OBVIOUS
    <3> QED BY <3>1, <3>2, <3>3
  <2> QED BY <1>1, <2>1, <2>2
<1> QED BY <1>3, <1>4 DEF TellsOf

(* A core for which there is room is added. *)
LEMMA AddedInv ==
  ASSUME CoreInv, phase = "scan", NEW props \in CpuProps, NEW core \in CpuCores, core.id = Reg(props),
         \A other \in ToSet(scanned) : Reg(other) # Reg(props), Len(cores) < MAX_CORES,
         scanned' = Append(scanned, props), cores' = ListAdded(core), id_map' = MapAdded(core),
         UNCHANGED <<addr_cells, def_enable_method, hash>>
  PROVE  CoreInv'
<1> DEFINE L == Len(cores)
           M == Len(scanned)
<1>1. cores \in Seq(CpuCores) /\ scanned \in Seq(CpuProps) /\ hash \in [CoreId -> Nat] /\ L \in Nat /\ M \in Nat
  BY DEF CoreInv, CoreTypes
<1>2. core \in CpuCores
  OBVIOUS
<1>3. IsAdded(cores', cores, core)
  BY <1>1, <1>2, ListAddedIs
<1>4. L = Min({M, MAX_CORES}) /\ TellsOf(cores, scanned, L)
  <2>1. AllTold
    BY DEF CoreInv
  <2> QED BY <2>1 DEF AllTold
<1>5. L = M /\ Min({M + 1, MAX_CORES}) = M + 1 /\ L < MAX_CORES /\ MAX_CORES \in Nat
  <2>0. MAX_CORES \in Nat /\ L < MAX_CORES
    BY CoreAssumption
  <2> HIDE DEF L, M
  <2>1. L = IF M <= MAX_CORES THEN M ELSE MAX_CORES
    BY <1>1, <1>4, <2>0, MinOfTwo
  <2>2. L = M
    BY <1>1, <2>0, <2>1
  <2>3. M + 1 \in Nat /\ M + 1 <= MAX_CORES
    BY <1>1, <2>0, <2>2
  <2>4. Min({M + 1, MAX_CORES}) = M + 1
    BY <2>0, <2>3, MinOfTwo
  <2> QED BY <2>0, <2>2, <2>4
<1>6. /\ scanned' \in Seq(CpuProps) /\ Len(scanned') = M + 1 /\ scanned'[M + 1] = props
      /\ \A j \in 1 .. M : scanned'[j] = scanned[j]
  BY <1>1
<1>7. \A i \in 1 .. L : cores[i].id # core.id
  <2> SUFFICES ASSUME NEW i \in 1 .. L PROVE cores[i].id # core.id
    OBVIOUS
  <2>1. PICK j \in 1 .. L : cores[i].id = Reg(scanned[j])
    BY <1>4 DEF TellsOf
  <2>2. j \in 1 .. M
    BY <1>5
  <2>3. scanned[j] \in ToSet(scanned)
    BY <1>1, <2>2 DEF ToSet
  <2>4. Reg(scanned[j]) # Reg(props)
    BY <2>3
  <2> QED BY <2>1, <2>4
<1>8. CoreTypes'
  <2>1. cores' \in Seq(CpuCores)
    BY <1>3 DEF IsAdded
  <2>2. CpuCores' = CpuCores
    BY SameCores
  <2> QED BY <1>1, <1>6, <2>1, <2>2 DEF CoreTypes
<1>9. IdsApart(cores)' /\ PrimaryFirst(cores)'
  <2>1. IdsApart(cores) /\ PrimaryFirst(cores)
    BY DEF CoreInv
  <2>2. IdsApart(cores') /\ PrimaryFirst(cores')
    BY <1>1, <1>2, <1>3, <1>7, <2>1, AddedApart
  <2> QED BY <2>2 DEF IdsApart, PrimaryFirst
<1>10. Len(cores') = L + 1
  BY <1>3 DEF IsAdded
<1>11. MapFollows'
  <2> SUFFICES ASSUME IsPrime(N), Len(cores') <= (N + 1) \div 2 PROVE MapSays(id_map, cores)'
    BY DEF MapFollows
  <2> DEFINE c == (N + 1) \div 2
  <2>0. c \in Nat
    BY TableAssumption
  <2>1. L < c /\ L <= c
    <3>1. L + 1 <= c
      BY <1>10
    <3> HIDE DEF c, L
    <3> QED BY <1>1, <2>0, <3>1
  <2>2. MapSays(id_map, cores) /\ IdsApart(cores)
    BY <2>1 DEF CoreInv, MapFollows
  <2>3. MapSays(MapAdded(core), ListAdded(core))
    BY <1>1, <1>2, <1>7, <2>1, <2>2, MapAddedSays
  <2> QED BY <2>3 DEF MapSays, MapOf, FirstAt
<1>a. MapPart(id_map, cores)'
  <2>1. MapPart(id_map, cores) /\ IdsApart(cores)
    BY DEF CoreInv
  <2>2. MapPart(MapAdded(core), ListAdded(core))
    BY <1>1, <1>2, <1>7, <2>1, MapAddedPart
  <2> QED BY <2>2 DEF MapPart, MapOf, FirstAt, IsPart
<1>12. AllTold'
  <2>1. core.id = Reg(scanned'[L + 1]) /\ \A j \in 1 .. L : scanned'[j] = scanned[j]
    BY <1>5, <1>6
  <2>2. TellsOf(cores', scanned', L + 1)
    BY <1>1, <1>2, <1>3, <1>4, <2>1, AddedTold
  <2>3. Len(cores') = Min({Len(scanned'), MAX_CORES})
    BY <1>5, <1>6, <1>10
  <2>4. TellsOf(cores', scanned', Len(cores'))
    BY <1>10, <2>2
  <2> QED BY <2>3, <2>4 DEF AllTold, TellsOf
<1>13. CellsKnown'
  BY DEF CoreInv, CellsKnown
<1> QED BY <1>8, <1>9, <1>11, <1>12, <1>13, <1>a DEF CoreInv

(* scan_cpu_node. *)
LEMMA CpuNodeInv ==
  ASSUME CoreInv, phase = "scan", NEW node \in NextNodes, node.name = "cpu@N",
         ScanCpuNode(NodeWords(node, addr_cells), node.props)
  PROVE  CoreInv'
<1> DEFINE dtb == NodeWords(node, addr_cells)
           props == node.props
           read == ReadNode(dtb, addr_cells)
           core == WithMethod([x \in DOMAIN NewCore |-> read[x]])
<1>1. /\ scanned' = Append(scanned, props)
      /\ phase' = AfterNode(read.ok, dtb)
      /\ IF read.ok /\ HasRoom(core)
         THEN cores' = ListAdded(core) /\ id_map' = MapAdded(core)
         ELSE UNCHANGED <<cores, id_map>>
      /\ UNCHANGED <<addr_cells, def_enable_method, hash>>
  BY DEF ScanCpuNode
<1>2. /\ node \in Nodes /\ props \in CpuProps /\ RegFits(node.props, addr_cells)
      /\ \A other \in ToSet(scanned) : Reg(other) # Reg(props)
  BY DEF NextNodes, CpuProps, CpuNode
<1>3. addr_cells \in CpusCells
  BY DEF CoreInv, CellsKnown
<1>4. cores \in Seq(CpuCores) /\ MAX_CORES \in Nat
  BY CoreAssumption DEF CoreInv, CoreTypes
<1>5. CASE ~read.ok
  <2>1. phase' = "failed"
    BY <1>1, <1>5 DEF AfterNode
  <2>2. UNCHANGED <<cores, id_map>>
    BY <1>1, <1>5
  <2> HIDE DEF props
  <2> QED BY <1>1, <1>2, <2>1, <2>2, SkippedInv
<1>6. CASE read.ok /\ ~HasRoom(core)
  <2>1. Len(cores) >= MAX_CORES
    BY <1>4, <1>6 DEF HasRoom
  <2>2. UNCHANGED <<cores, id_map>>
    BY <1>1, <1>6
  <2> HIDE DEF props
  <2> QED BY <1>1, <1>2, <2>1, <2>2, SkippedInv
<1>7. CASE read.ok /\ HasRoom(core)
  <2>0. CanRead(node, addr_cells) /\ core = CoreOf(node, addr_cells)
    BY <1>2, <1>3, <1>7 DEF CanRead, CpuNode, CoreOf
  <2>1. core \in CpuCores /\ core.id = Reg(props)
    <3>1. core.id = Reg(props)
      BY <2>0, CoreIdIs
    <3>2. core \in CpuCores
      <4> HIDE DEF core
      <4> QED BY <2>0 DEF CpuCores, CanRead
    <3> QED BY <3>1, <3>2
  <2>2. Len(cores) < MAX_CORES
    BY <1>7 DEF HasRoom
  <2>3. cores' = ListAdded(core) /\ id_map' = MapAdded(core)
    BY <1>1, <1>7
  <2> HIDE DEF props, core
  <2> QED BY <1>1, <1>2, <2>1, <2>2, <2>3, AddedInv
<1> QED BY <1>5, <1>6, <1>7

(* scan_cpus_node: there is no core yet that the default method could change. *)
LEMMA CpusNodeInv ==
  ASSUME CoreInv, phase = "scan", NEW node \in NextNodes, node.name = "cpus",
         ScanCpusNode(NodeWords(node, addr_cells))
  PROVE  CoreInv'
<1> DEFINE dtb == NodeWords(node, addr_cells)
           st == ReadCpusNode(dtb, addr_cells, def_enable_method)
<1>1. /\ phase' = AfterNode(st.ok /\ st.addr_cells # 0, dtb)
      /\ addr_cells' = st.addr_cells /\ def_enable_method' = st.enable_method
      /\ UNCHANGED <<cores, id_map, hash, scanned>>
  BY DEF ScanCpusNode
<1>2. node \in Nodes /\ addr_cells = 0 /\ scanned = <<>>
  BY DEF NextNodes
<1>3. /\ CoreTypes /\ IdsApart(cores) /\ PrimaryFirst(cores) /\ MapFollows /\ AllTold /\ CellsKnown
      /\ MapPart(id_map, cores)
  BY DEF CoreInv
<1>4. Len(cores) = 0
  <2>1. Len(scanned) = 0 /\ MAX_CORES \in Nat
    BY <1>2, CoreAssumption
  <2>2. Min({0, MAX_CORES}) = 0
    BY <2>1, MinOfTwo
  <2> QED BY <1>3, <2>1, <2>2 DEF AllTold
<1>5. cores = <<>>
  <2>1. cores \in Seq(CpuCores)
    BY <1>3 DEF CoreTypes
  <2> QED BY <1>4, <2>1
<1>6. CoreTypes'
  <2>1. cores' \in Seq(CpuCores')
    BY <1>1, <1>5
  <2> QED BY <1>1, <1>3, <2>1 DEF CoreTypes
<1>7. IdsApart(cores)' /\ PrimaryFirst(cores)'
  BY <1>1, <1>3 DEF IdsApart, PrimaryFirst
<1>8. MapFollows'
  BY <1>1, <1>3 DEF MapFollows, MapSays, MapOf, FirstAt
<1>a. MapPart(id_map, cores)'
  BY <1>1, <1>3 DEF MapPart, MapOf, FirstAt, IsPart
<1>9. AllTold'
  <2>1. TellsOf(cores', scanned', Len(cores'))
    BY <1>1, <1>4 DEF TellsOf
  <2>2. Len(cores') = Min({Len(scanned'), MAX_CORES})
    BY <1>1, <1>3 DEF AllTold
  <2> QED BY <2>1, <2>2 DEF AllTold, TellsOf
<1>10. phase' \in {"new", "scan"} => CellsKnown'
  <2> SUFFICES ASSUME phase' \in {"new", "scan"} PROVE CellsKnown'
    OBVIOUS
  <2>1. st.addr_cells # 0
    BY <1>1 DEF AfterNode
  <2>2. def_enable_method = "Invalid"
    BY <1>2, <1>3 DEF CellsKnown
  <2>3. st = ReadCpusNode(NodeWords(node, 0), 0, "Invalid")
    BY <1>2, <2>2
  <2>4. st.addr_cells \in CpusCells
    BY <1>2, <2>3 DEF CpusCells
  <2> HIDE DEF st
  <2>5. addr_cells' \in CpusCells /\ addr_cells' # 0
    BY <1>1, <2>1, <2>4
  <2> QED BY <2>5 DEF CellsKnown
<1> QED BY <1>6, <1>7, <1>8, <1>9, <1>10, <1>a DEF CoreInv

(* A step that leaves the cores and what the scan knows. *)
LEMMA KeepsCores ==
  ASSUME CoreInv, UNCHANGED <<addr_cells, def_enable_method, cores, id_map, hash, scanned>>,
         phase' = "failed" \/ (phase # "failed" /\ (phase' \in {"new", "scan"} => phase \in {"new", "scan"}))
           \/ phase' = phase
  PROVE  CoreInv'
<1>1. CoreTypes'
  BY SameCores DEF CoreInv, CoreTypes
<1>2. IdsApart(cores)' /\ PrimaryFirst(cores)'
  BY DEF CoreInv, IdsApart, PrimaryFirst
<1>3. MapFollows'
  BY DEF CoreInv, MapFollows, MapSays, MapOf, FirstAt
<1>a. MapPart(id_map, cores)'
  BY DEF CoreInv, MapPart, MapOf, FirstAt, IsPart
<1>4. AllTold => AllTold'
  <2> SUFFICES ASSUME AllTold PROVE AllTold'
    OBVIOUS
  <2>1. TellsOf(cores', scanned', Len(cores'))
    BY DEF AllTold
  <2>2. Len(cores') = Min({Len(scanned'), MAX_CORES})
    BY DEF AllTold
  <2> QED BY <2>1, <2>2 DEF AllTold, TellsOf
<1>5. CellsKnown => CellsKnown'
  BY DEF CellsKnown
<1>6. (phase # "failed" => AllTold) /\ (phase \in {"new", "scan"} => CellsKnown)
  BY DEF CoreInv
<1>7. (phase' # "failed" => phase # "failed") /\ (phase' \in {"new", "scan"} => phase \in {"new", "scan"})
  OBVIOUS
<1>8. (phase' # "failed" => AllTold') /\ (phase' \in {"new", "scan"} => CellsKnown')
  BY <1>4, <1>5, <1>6, <1>7
<1> QED BY <1>1, <1>2, <1>3, <1>8, <1>a DEF CoreInv

(* The steps of the scan. *)
LEMMA ScanInv ==
  ASSUME CoreInv, Next
  PROVE  CoreInv'
<1>1. ASSUME NEW header \in Headers, NewReader(header) PROVE CoreInv'
  BY <1>1, KeepsCores DEF NewReader
<1>2. CASE NameCutOff
  BY <1>2, KeepsCores DEF NameCutOff
<1>3. ASSUME NEW node \in NextNodes, ScanNode(node) PROVE CoreInv'
  <2>0. phase = "scan"
    BY <1>3 DEF ScanNode
  <2>1. CASE node.name = "cpus"
    <3>1. ScanCpusNode(NodeWords(node, addr_cells))
      BY <1>3, <2>1 DEF ScanNode
    <3> QED BY <1>3, <2>0, <2>1, <3>1, CpusNodeInv
  <2>2. CASE node.name = "cpu@N"
    <3>1. ScanCpuNode(NodeWords(node, addr_cells), node.props)
      BY <1>3, <2>2 DEF ScanNode
    <3> QED BY <1>3, <2>0, <2>2, <3>1, CpuNodeInv
  <2>3. CASE node.name # "cpus" /\ node.name # "cpu@N"
    <3>1. UNCHANGED <<addr_cells, def_enable_method, cores, id_map, hash, scanned>>
      BY <1>3, <2>3 DEF ScanNode
    <3> QED BY <2>0, <3>1, KeepsCores
  <2> QED BY <2>1, <2>2, <2>3
<1>4. CASE EndScan
  BY <1>4, KeepsCores DEF EndScan
<1> QED BY <1>1, <1>2, <1>3, <1>4 DEF Next

(* What is known of the cores at every step of boot. *)
LEMMA CoreInvariant == BootSpec => []CoreInv
<1>1. BootInit => CoreInv
  <2> SUFFICES ASSUME BootInit PROVE CoreInv
    OBVIOUS
  <2>1. /\ phase = "new" /\ addr_cells = 0 /\ def_enable_method = "Invalid"
        /\ cores = <<>> /\ id_map = EmptyTable /\ hash \in [CoreId -> HashValue] /\ scanned = <<>>
    BY DEF BootInit, Init
  <2>2. CoreTypes
    <3>1. hash \in [CoreId -> Nat]
      BY <2>1, TableAssumption
    <3>2. scanned \in Seq(CpuProps) /\ cores \in Seq(CpuCores)
      BY <2>1
    <3> QED BY <3>1, <3>2 DEF CoreTypes
  <2>3. IdsApart(cores) /\ PrimaryFirst(cores)
    BY <2>1 DEF IdsApart, PrimaryFirst
  <2>4. MapFollows /\ MapPart(id_map, cores)
    BY <2>1, EmptySays DEF MapFollows
  <2>5. AllTold
    <3>1. Min({0, MAX_CORES}) = 0
      BY CoreAssumption, MinOfTwo
    <3>2. Len(cores) = 0 /\ Len(scanned) = 0
      BY <2>1
    <3> QED BY <3>1, <3>2 DEF AllTold, TellsOf
  <2>6. CellsKnown
    BY <2>1 DEF CellsKnown, CpusCells
  <2> QED BY <2>2, <2>3, <2>4, <2>5, <2>6 DEF CoreInv
<1>2. CoreInv /\ [BootNext]_<<vars, isr_vars>> => CoreInv'
  <2> SUFFICES ASSUME CoreInv, [BootNext]_<<vars, isr_vars>> PROVE CoreInv'
    OBVIOUS
  <2>1. ASSUME UNCHANGED vars PROVE CoreInv'
    BY <2>1, KeepsCores DEF vars
  <2>2. ASSUME Next PROVE CoreInv'
    BY <2>2, ScanInv
  <2>3. Next \/ UNCHANGED vars
    BY DEF BootNext, SetupPrimary, Discover, InitSmp, MapStack, AllocPanic, Rest
  <2> QED BY <2>1, <2>2, <2>3
<1> QED BY <1>1, <1>2, PTL DEF BootSpec

(* What the list of cores is, from the nodes that it tells of. *)
LEMMA Listed ==
  ASSUME CoreInv
  PROVE  CoresListed
<1> SUFFICES ASSUME phase # "failed" PROVE CoresListed
  BY DEF CoresListed
<1> DEFINE L == Len(cores)
           M == Len(scanned)
           ids == {Reg(props) : props \in ToSet(scanned)}
           kept == {core.id : core \in ToSet(cores)}
           room == IF primary_id \in ids THEN MAX_CORES ELSE MAX_CORES - 1
<1>1. /\ cores \in Seq(CpuCores) /\ scanned \in Seq(CpuProps) /\ IdsApart(cores) /\ PrimaryFirst(cores)
      /\ L = Min({M, MAX_CORES}) /\ TellsOf(cores, scanned, L)
  <2>1. AllTold
    BY DEF CoreInv
  <2> QED BY <2>1 DEF CoreInv, CoreTypes, AllTold
<1>2. /\ L \in Nat /\ M \in Nat /\ MAX_CORES \in Nat \ {0}
      /\ L = IF M <= MAX_CORES THEN M ELSE MAX_CORES
  <2>1. L \in Nat /\ M \in Nat /\ MAX_CORES \in Nat \ {0}
    BY <1>1, CoreAssumption
  <2> HIDE DEF L, M
  <2> QED BY <1>1, <2>1, MinOfTwo
<1>3. DOMAIN cores = 1 .. L /\ DOMAIN scanned = 1 .. M
  BY <1>1
<1>4. room \in {MAX_CORES, MAX_CORES - 1}
  OBVIOUS
<1>5. L <= M /\ (M <= room => L = M) /\ (M > room => L = MAX_CORES)
  <2> HIDE DEF L, M, room
  <2> QED BY <1>2, <1>4
<1>6. kept \subseteq ids
  <2> SUFFICES ASSUME NEW core \in ToSet(cores) PROVE core.id \in ids
    OBVIOUS
  <2>1. PICK i \in 1 .. L : core = cores[i]
    BY <1>3 DEF ToSet
  <2>2. PICK j \in 1 .. L : cores[i].id = Reg(scanned[j])
    BY <1>1 DEF TellsOf
  <2>3. j \in 1 .. M
    <3> HIDE DEF L, M
    <3> QED BY <1>2, <1>5
  <2>4. scanned[j] \in ToSet(scanned)
    BY <1>3, <2>3 DEF ToSet
  <2> QED BY <2>1, <2>2, <2>4
<1>7. M <= room => kept = ids
  <2> SUFFICES ASSUME M <= room PROVE ids \subseteq kept
    BY <1>6
  <2> SUFFICES ASSUME NEW props \in ToSet(scanned) PROVE Reg(props) \in kept
    OBVIOUS
  <2>1. PICK j \in 1 .. L : props = scanned[j]
    BY <1>3, <1>5 DEF ToSet
  <2>2. PICK i \in 1 .. L : cores[i].id = Reg(scanned[j])
    BY <1>1 DEF TellsOf
  <2>3. cores[i] \in ToSet(cores)
    BY <1>3 DEF ToSet
  <2> QED BY <2>1, <2>2, <2>3
<1>8. /\ \A i, j \in DOMAIN cores : cores[i].id = cores[j].id => i = j
      /\ \A i \in DOMAIN cores : cores[i].id = primary_id => i = 1
  BY <1>1, <1>3 DEF IdsApart, PrimaryFirst
<1>9. M > room => L \in {MAX_CORES - 1, MAX_CORES}
  BY <1>5
<1> HIDE DEF ids, kept, room, L, M
<1> QED BY <1>6, <1>7, <1>8, <1>9 DEF CoresListed, ids, kept, room, L, M

(* Core discovery lists the cores of the device tree by ID, each once, the   *)
(* primary core at index 0, and leaves none out while there is room, for     *)
(* every tree, every MAX_CORES and every order of the nodes.                 *)
THEOREM CoresListedHolds == BootSpec => []CoresListed
BY CoreInvariant, Listed, PTL

(* The hash map never gives a wrong index, for every table of prime size and *)
(* every hash function, whichever inserts fail, and the index that the       *)
(* linear search finds while the cores are no more than half of the slots:   *)
(* with the 389 slots of AArch64 that is up to 195 cores, past the 32 at     *)
(* which get_core_index changes to the map.                                  *)
THEOREM IndexesAgreeHolds ==
  ASSUME IsPrime(N)
  PROVE  BootSpec => []IndexesAgree
<1>1. CoreInv => IndexesAgree
  <2> SUFFICES ASSUME CoreInv PROVE IndexesAgree
    OBVIOUS
  <2>1. cores \in Seq(CpuCores) /\ hash \in [CoreId -> Nat] /\ IdsApart(cores) /\ MapPart(id_map, cores)
    BY DEF CoreInv, CoreTypes
  <2>2. \A id \in CoreId : MappedIndex(id) \subseteq LinearIndex(id)
    BY <2>1, PartAgrees
  <2>3. ASSUME Len(cores) <= (N + 1) \div 2
        PROVE  \A id \in CoreId : MappedIndex(id) = LinearIndex(id)
    <3>1. MapSays(id_map, cores)
      BY <2>3 DEF CoreInv, MapFollows
    <3> QED BY <2>1, <3>1, SaysAgrees
  <2> QED BY <2>2, <2>3 DEF IndexesAgree
<1> QED BY <1>1, CoreInvariant, PTL

-----------------------------------------------------------------------------
(*****************************************************************************)
(* The ISR stacks of AArch64: one stack per core.                            *)
(*****************************************************************************)

(* Of L cores with stacks of sp pages, the primary's stack is the highest    *)
(* and that of the core at index c the c-th from below; a step is a stack    *)
(* and the guard page below it.                                              *)
Rank(c, L) == IF c = 0 THEN 1 ELSE L - c + 1
StackAt(c, L, sp) == AreaEnd - (sp + 1) * Rank(c, L) + 1
StackAddrs(c, L, sp) == StackAt(c, L, sp) .. StackAt(c, L, sp) + sp - 1

Owner(c) == IF c = 0 THEN "image" ELSE <<c, 1>>

(* Exactly the stacks of the first n cores are mapped, each to its own. *)
MapsStacks(m, n, L, sp) ==
  /\ DOMAIN m = UNION {StackAddrs(c, L, sp) : c \in 0 .. n - 1}
  /\ \A c \in 0 .. n - 1 : \A va \in StackAddrs(c, L, sp) : m[va].block = Owner(c)

(* The list has an entry for each of the first n cores cs: ID, then top. *)
ListsStacks(l, n, cs, sp) ==
  /\ DOMAIN l = 0 .. 2 * n - 1
  /\ l[0] = [id |-> primary_id]
  /\ \A c \in 1 .. n - 1 : l[2 * c] = [id |-> cs[c + 1].id]
  /\ \A c \in 0 .. n - 1 : l[2 * c + 1] = [top |-> StackAt(c, Len(cs), sp) + sp]

(* The inductive invariant of the stacks. *)
StacksInv ==
  /\ stack_pages \in Nat \ {0} /\ s = 1 /\ index \in Nat \ {0}
  /\ phase = "done" => cores # <<>>
  /\ boot \in {"start", "cores", "smp", "done", "panic"}
  /\ boot \in {"start", "cores"} => index = 1
  /\ boot \in {"smp", "done", "panic"} => phase = "done"
  /\ boot \in {"smp", "panic"} => index < Len(cores)
  /\ boot = "done" => index = Len(cores)
  /\ boot # "start" =>
       /\ MapsStacks(mapped, index, Len(cores), stack_pages)
       /\ ListsStacks(list, index, cores, stack_pages)

(* Multiples of a step are a step apart. *)
LEMMA StepApart ==
  ASSUME NEW w \in Nat, NEW j \in Nat, NEW k \in Nat, j < k
  PROVE  w * j + w <= w * k /\ w * j \in Nat /\ w * k \in Nat
<1>1. w * k = w * j + w * (k - j)
  OBVIOUS
<1>2. w * (k - j) = w + w * (k - j - 1)
  OBVIOUS
<1>3. k - j - 1 \in Nat
  OBVIOUS
<1>4. w * (k - j - 1) \in Nat /\ w * j \in Nat /\ w * (k - j) \in Nat
  BY <1>3
<1> DEFINE a == w * k
           b == w * j
           x == w * (k - j)
           y == w * (k - j - 1)
<1>5. a = b + x /\ x = w + y /\ y \in Nat /\ b \in Nat /\ x \in Nat
  BY <1>1, <1>2, <1>4
<1> HIDE DEF a, b, x, y
<1>6. b + w <= a /\ b \in Nat /\ a \in Nat
  BY <1>5
<1> QED BY <1>6 DEF a, b

(* Two stacks have a guard page between them, and an address is an integer.  *)
LEMMA RanksApart ==
  ASSUME NEW L \in Nat, NEW sp \in Nat, NEW c \in Nat, NEW d \in Nat,
         c < L \/ c = 0, d < L \/ d = 0
  PROVE  /\ StackAt(c, L, sp) \in Int /\ StackAt(d, L, sp) \in Int
         /\ c # d => \/ StackAt(c, L, sp) + sp + 1 <= StackAt(d, L, sp)
                     \/ StackAt(d, L, sp) + sp + 1 <= StackAt(c, L, sp)
<1> DEFINE a == Rank(c, L)
           b == Rank(d, L)
           w == sp + 1
<1>1. a \in Nat /\ b \in Nat /\ w \in Nat /\ (c # d => a < b \/ b < a)
  BY DEF Rank
<1>2. AreaEnd \in Nat
  BY StacksAssumption
<1>3. StackAt(c, L, sp) = AreaEnd - w * a + 1 /\ StackAt(d, L, sp) = AreaEnd - w * b + 1 /\ sp + 1 = w
  BY DEF StackAt
<1> HIDE DEF a, b, w
<1>4. w * a \in Int /\ w * b \in Int
  BY <1>1
<1> DEFINE x == w * a
           y == w * b
<1>5. x \in Int /\ y \in Int
  BY <1>4
<1>6. (a < b => x + w <= y) /\ (b < a => y + w <= x)
  BY <1>1, StepApart
<1>7. StackAt(c, L, sp) = AreaEnd - x + 1 /\ StackAt(d, L, sp) = AreaEnd - y + 1
  BY <1>3
<1> HIDE DEF x, y
<1>8. StackAt(c, L, sp) \in Int /\ StackAt(d, L, sp) \in Int
  BY <1>2, <1>5, <1>7
<1>9. c # d => x + w <= y \/ y + w <= x
  BY <1>1, <1>6
<1> QED BY <1>1, <1>2, <1>3, <1>5, <1>7, <1>8, <1>9

(* The guard page of a stack is of no stack, and no address is of two. *)
LEMMA StacksDisjoint ==
  ASSUME NEW L \in Nat, NEW sp \in Nat, NEW c \in Nat, NEW d \in Nat,
         c < L \/ c = 0, d < L \/ d = 0
  PROVE  /\ StackAt(c, L, sp) - 1 \notin StackAddrs(d, L, sp)
         /\ \A va \in StackAddrs(c, L, sp) : va \in StackAddrs(d, L, sp) => c = d
<1> DEFINE a == StackAt(c, L, sp)
           b == StackAt(d, L, sp)
<1>1. a \in Int /\ b \in Int /\ (c # d => a + sp + 1 <= b \/ b + sp + 1 <= a) /\ (c = d => a = b)
  BY RanksApart
<1>2. StackAddrs(c, L, sp) = a .. a + sp - 1 /\ StackAddrs(d, L, sp) = b .. b + sp - 1
  BY DEF StackAddrs
<1> HIDE DEF a, b
<1>3. a - 1 \notin b .. b + sp - 1
  BY <1>1
<1>4. \A va \in a .. a + sp - 1 : va \in b .. b + sp - 1 => c = d
  BY <1>1
<1> QED BY <1>2, <1>3, <1>4 DEF a

(* The addresses of the model are these. *)
LEMMA BaseIs ==
  ASSUME Arch = "aarch64", cores \in Seq(CpuCores), stack_pages \in Nat, NEW c \in Nat
  PROVE  /\ Base(c, 1) = StackAt(c, Len(cores), stack_pages)
         /\ c # 0 => StackBase(c, 1) = StackAt(c, Len(cores), stack_pages)
         /\ StepSize = stack_pages + 1 /\ StacksPerCore = 1 /\ EntryWords = 2
<1> DEFINE L == Len(cores)
           w == stack_pages + 1
<1>0. L \in Nat /\ w \in Nat /\ AreaEnd \in Nat
  BY StacksAssumption
<1>1. StepSize = w /\ StacksPerCore = 1 /\ StepsPerCore = 1 /\ EntryWords = 2
  BY DEF StepSize, StacksPerCore, StepsPerCore, EntryWords
<1>2. PrimaryTop(1) - stack_pages = AreaEnd - w * 1 + 1
  <2>1. PrimaryTop(1) = AreaEnd - (1 - 1) * w
    BY <1>1 DEF PrimaryTop
  <2>2. (1 - 1) * w = 0 /\ w * 1 = w
    BY <1>0
  <2> QED BY <1>0, <2>1, <2>2
<1>3. AreaBase = AreaEnd - w * L
  <2>1. AreaBase = AreaEnd - w * 1 * L
    BY <1>1 DEF AreaBase
  <2> QED BY <1>0, <2>1
<1>4. c # 0 => StackBase(c, 1) = AreaEnd - w * (L - c + 1) + 1
  <2> SUFFICES ASSUME c # 0 PROVE StackBase(c, 1) = AreaEnd - w * (L - c + 1) + 1
    OBVIOUS
  <2>1. StackBase(c, 1) = AreaEnd - w * L + w * 1 * (c - 1) + 1 + w * (1 - 1)
    BY <1>1, <1>3 DEF StackBase
  <2>2. w * 1 * (c - 1) = w * c - w /\ w * (1 - 1) = 0 /\ w * (L - c + 1) = w * L - w * c + w
    <3> HIDE DEF L, w
    <3> QED BY <1>0
  <2> DEFINE x == w * L
             y == w * c
             z == w * 1 * (c - 1)
             u == w * (1 - 1)
             v == w * (L - c + 1)
  <2>3. x \in Int /\ y \in Int
    <3> HIDE DEF L, w
    <3> QED BY <1>0
  <2>4. StackBase(c, 1) = AreaEnd - x + z + 1 + u /\ z = y - w /\ u = 0 /\ v = x - y + w
    BY <2>1, <2>2
  <2> HIDE DEF x, y, z, u, v, w
  <2>5. StackBase(c, 1) = AreaEnd - v + 1
    BY <1>0, <2>3, <2>4
  <2> QED BY <2>5 DEF v, w
<1>5. StackAt(c, L, stack_pages) = IF c = 0 THEN AreaEnd - w * 1 + 1 ELSE AreaEnd - w * (L - c + 1) + 1
  BY DEF StackAt, Rank
<1>6. Base(c, 1) = IF c = 0 THEN PrimaryTop(1) - stack_pages ELSE StackBase(c, 1)
  BY DEF Base
<1> HIDE DEF L, w
<1>7. /\ Base(c, 1) = StackAt(c, L, stack_pages)
      /\ c # 0 => StackBase(c, 1) = StackAt(c, L, stack_pages)
  BY <1>2, <1>4, <1>5, <1>6
<1> QED BY <1>1, <1>7 DEF L, w

(* A stack mapped below those of the cores before it. *)
LEMMA MapsMore ==
  ASSUME NEW m, NEW m2, NEW n \in Nat, n > 0, NEW L \in Nat, n < L, NEW sp \in Nat, MapsStacks(m, n, L, sp),
         DOMAIN m2 = DOMAIN m \cup StackAddrs(n, L, sp),
         \A va \in DOMAIN m2 : IF va \in StackAddrs(n, L, sp) THEN m2[va].block = Owner(n) ELSE m2[va] = m[va]
  PROVE  MapsStacks(m2, n + 1, L, sp)
<1>0. \A c \in 0 .. n : c = n \/ c \in 0 .. n - 1
  OBVIOUS
<1>1. \A c \in 0 .. n - 1 : c \in Nat /\ c < L /\ c # n /\ c \in 0 .. n
  OBVIOUS
<1>2. \A c \in 0 .. n - 1 : \A va \in StackAddrs(c, L, sp) : va \notin StackAddrs(n, L, sp)
  BY <1>1, StacksDisjoint
<1>3. (n + 1) - 1 = n /\ n \in 0 .. n
  OBVIOUS
<1>4. DOMAIN m2 = UNION {StackAddrs(c, L, sp) : c \in 0 .. n}
  <2>1. DOMAIN m = UNION {StackAddrs(c, L, sp) : c \in 0 .. n - 1}
    BY DEF MapsStacks
  <2>2. ASSUME NEW va \in DOMAIN m2 PROVE \E c \in 0 .. n : va \in StackAddrs(c, L, sp)
    <3>1. CASE va \in StackAddrs(n, L, sp)
      BY <1>3, <3>1
    <3>2. CASE va \in DOMAIN m
      <4>1. PICK c \in 0 .. n - 1 : va \in StackAddrs(c, L, sp)
        BY <2>1, <3>2
      <4> QED BY <1>1, <4>1
    <3> QED BY <3>1, <3>2
  <2>3. ASSUME NEW c \in 0 .. n, NEW va \in StackAddrs(c, L, sp) PROVE va \in DOMAIN m2
    <3>1. CASE c = n
      BY <3>1
    <3>2. CASE c \in 0 .. n - 1
      BY <2>1, <3>2
    <3> QED BY <1>0, <3>1, <3>2
  <2> QED BY <2>2, <2>3
<1>5. ASSUME NEW c \in 0 .. n, NEW va \in StackAddrs(c, L, sp) PROVE m2[va].block = Owner(c)
  <2>0. va \in DOMAIN m2
    BY <1>4
  <2>1. CASE c = n
    BY <2>0, <2>1
  <2>2. CASE c \in 0 .. n - 1
    <3>1. m2[va] = m[va]
      BY <1>2, <2>0, <2>2
    <3>2. m[va].block = Owner(c)
      BY <2>2 DEF MapsStacks
    <3> QED BY <3>1, <3>2
  <2> QED BY <1>0, <2>1, <2>2
<1> QED BY <1>3, <1>4, <1>5 DEF MapsStacks

(* An entry more in the list. *)
LEMMA ListsMore ==
  ASSUME NEW l, NEW l2, NEW n \in Nat, n > 0, NEW cs, NEW sp, ListsStacks(l, n, cs, sp),
         l2 = Set(Set(l, 2 * n, [id |-> cs[n + 1].id]), 2 * n + 1, [top |-> StackAt(n, Len(cs), sp) + sp])
  PROVE  ListsStacks(l2, n + 1, cs, sp)
<1> DEFINE top == [top |-> StackAt(n, Len(cs), sp) + sp]
           entry == [id |-> cs[n + 1].id]
<1>1. DOMAIN l = 0 .. 2 * n - 1
  BY DEF ListsStacks
<1>2. /\ DOMAIN l2 = DOMAIN l \cup {2 * n} \cup {2 * n + 1}
      /\ l2[2 * n] = entry /\ l2[2 * n + 1] = top
      /\ \A x \in DOMAIN l : x # 2 * n /\ x # 2 * n + 1 => l2[x] = l[x]
  <2> HIDE DEF top, entry
  <2>1. 2 * n # 2 * n + 1
    OBVIOUS
  <2> DEFINE l1 == Set(l, 2 * n, entry)
  <2>2. /\ DOMAIN l1 = DOMAIN l \cup {2 * n} /\ l1[2 * n] = entry
        /\ \A x \in DOMAIN l : x # 2 * n => l1[x] = l[x]
    BY DEF Set
  <2>3. l2 = Set(l1, 2 * n + 1, top)
    BY DEF top, entry
  <2> HIDE DEF l1
  <2>4. /\ DOMAIN l2 = DOMAIN l1 \cup {2 * n + 1} /\ l2[2 * n + 1] = top
        /\ \A x \in DOMAIN l1 : x # 2 * n + 1 => l2[x] = l1[x]
    BY <2>3 DEF Set
  <2> QED BY <2>1, <2>2, <2>4
<1> HIDE DEF top, entry
<1>3. DOMAIN l2 = 0 .. 2 * (n + 1) - 1
  <2>1. (0 .. 2 * n - 1) \cup {2 * n} \cup {2 * n + 1} = 0 .. 2 * (n + 1) - 1
    OBVIOUS
  <2> QED BY <1>1, <1>2, <2>1
<1>4. \A x \in 0 .. 2 * n - 1 : l2[x] = l[x]
  <2> SUFFICES ASSUME NEW x \in 0 .. 2 * n - 1 PROVE l2[x] = l[x]
    OBVIOUS
  <2>1. x \in DOMAIN l
    BY <1>1
  <2>2. x # 2 * n /\ x # 2 * n + 1
    OBVIOUS
  <2> QED BY <1>2, <2>1, <2>2
<1>5. l2[0] = [id |-> primary_id]
  <2>1. 0 \in 0 .. 2 * n - 1
    OBVIOUS
  <2> QED BY <1>4, <2>1 DEF ListsStacks
<1>6. ASSUME NEW c \in 1 .. (n + 1) - 1 PROVE l2[2 * c] = [id |-> cs[c + 1].id]
  <2>1. CASE c = n
    BY <1>2, <2>1 DEF entry
  <2>2. CASE c # n
    <3>1. c \in 1 .. n - 1 /\ 2 * c \in 0 .. 2 * n - 1
      BY <2>2
    <3> QED BY <1>4, <3>1 DEF ListsStacks
  <2> QED BY <2>1, <2>2
<1>7. ASSUME NEW c \in 0 .. (n + 1) - 1 PROVE l2[2 * c + 1] = [top |-> StackAt(c, Len(cs), sp) + sp]
  <2>1. CASE c = n
    BY <1>2, <2>1 DEF top
  <2>2. CASE c # n
    <3>1. c \in 0 .. n - 1 /\ 2 * c + 1 \in 0 .. 2 * n - 1
      BY <2>2
    <3> QED BY <1>4, <3>1 DEF ListsStacks
  <2> QED BY <2>1, <2>2
<1> QED BY <1>3, <1>5, <1>6, <1>7 DEF ListsStacks

(* The start code's stack of the primary core, before the cores are known. *)
LEMMA PrimaryMaps ==
  ASSUME Arch = "aarch64", cores \in Seq(CpuCores), stack_pages \in Nat \ {0}, SetupPrimary
  PROVE  MapsStacks(mapped', 1, Len(cores), stack_pages) /\ ListsStacks(list', 1, cores, stack_pages)
<1> DEFINE L == Len(cores)
           base == StackAt(0, L, stack_pages)
           top == PrimaryTop(1)
<1>0. L \in Nat /\ StacksPerCore = 1 /\ Base(0, 1) = base
  BY BaseIs
<1>1. base \in Int /\ base = top - stack_pages /\ top = base + stack_pages /\ top \in Int
  <2>1. base \in Int
    BY <1>0, RanksApart
  <2>2. base = top - stack_pages
    BY <1>0 DEF Base
  <2>3. top \in Int
    <3>1. StepSize \in Nat /\ AreaEnd \in Nat
      BY StacksAssumption DEF StepSize
    <3>2. top = AreaEnd - (1 - 1) * StepSize
      BY <1>0 DEF PrimaryTop
    <3> HIDE DEF top
    <3> QED BY <3>1, <3>2
  <2> HIDE DEF base, top
  <2> QED BY <2>1, <2>2, <2>3
<1>2. 1 .. StacksPerCore = {1}
  BY <1>0
<1>3. DOMAIN mapped' = top - stack_pages .. top - 1
  <2>1. UNION {PrimaryTop(i) - stack_pages .. PrimaryTop(i) - 1 : i \in {1}} = top - stack_pages .. top - 1
    OBVIOUS
  <2> HIDE DEF top
  <2> QED BY <1>2, <2>1 DEF SetupPrimary
<1>4. \A va \in DOMAIN mapped' : mapped'[va].block = "image"
  BY DEF SetupPrimary, ImagePage
<1>5. StackAddrs(0, L, stack_pages) = DOMAIN mapped' /\ 0 .. 1 - 1 = {0}
  <2>1. StackAddrs(0, L, stack_pages) = base .. base + stack_pages - 1
    BY DEF StackAddrs
  <2> HIDE DEF base, top
  <2>2. base + stack_pages - 1 = top - 1 /\ base = top - stack_pages
    BY <1>1
  <2> QED BY <1>3, <2>1, <2>2
<1>6. MapsStacks(mapped', 1, L, stack_pages)
  <2>1. UNION {StackAddrs(c, L, stack_pages) : c \in {0}} = StackAddrs(0, L, stack_pages)
    OBVIOUS
  <2>2. \A c \in {0} : \A va \in StackAddrs(c, L, stack_pages) : mapped'[va].block = Owner(c)
    BY <1>4, <1>5 DEF Owner
  <2> QED BY <1>5, <2>1, <2>2 DEF MapsStacks
<1>7. /\ DOMAIN list' = 0 .. 1 /\ list'[0] = [id |-> primary_id] /\ list'[1] = [top |-> top]
  BY <1>0 DEF SetupPrimary
<1>8. ListsStacks(list', 1, cores, stack_pages)
  <2>1. 0 .. 2 * 1 - 1 = 0 .. 1 /\ 1 .. 1 - 1 = {} /\ 2 * 0 + 1 = 1
    OBVIOUS
  <2>2. [top |-> top] = [top |-> StackAt(0, L, stack_pages) + stack_pages]
    BY <1>1
  <2> HIDE DEF top
  <2> QED BY <1>5, <1>7, <2>1, <2>2 DEF ListsStacks
<1> QED BY <1>6, <1>8

(* One stack alone does not depend on the cores found. *)
LEMMA OneStack ==
  ASSUME NEW m, NEW l, NEW cs, NEW ds, NEW sp, MapsStacks(m, 1, Len(cs), sp), ListsStacks(l, 1, cs, sp)
  PROVE  MapsStacks(m, 1, Len(ds), sp) /\ ListsStacks(l, 1, ds, sp)
<1>1. StackAt(0, Len(cs), sp) = StackAt(0, Len(ds), sp)
  BY DEF StackAt, Rank
<1>2. StackAddrs(0, Len(cs), sp) = StackAddrs(0, Len(ds), sp)
  BY <1>1 DEF StackAddrs
<1>3. 0 .. 1 - 1 = {0} /\ 1 .. 1 - 1 = {}
  OBVIOUS
<1>4. MapsStacks(m, 1, Len(ds), sp)
  <2>1. {StackAddrs(c, Len(cs), sp) : c \in {0}} = {StackAddrs(c, Len(ds), sp) : c \in {0}}
    BY <1>2
  <2> QED BY <1>2, <1>3, <2>1 DEF MapsStacks
<1>5. ListsStacks(l, 1, ds, sp)
  BY <1>1, <1>3 DEF ListsStacks
<1> QED BY <1>4, <1>5

(* A turn of init_isr_stacks. *)
LEMMA MapStackMaps ==
  ASSUME Arch = "aarch64", cores \in Seq(CpuCores), stack_pages \in Nat \ {0}, s = 1,
         index \in Nat \ {0}, index < Len(cores), MapStack,
         MapsStacks(mapped, index, Len(cores), stack_pages), ListsStacks(list, index, cores, stack_pages)
  PROVE  /\ MapsStacks(mapped', index + 1, Len(cores), stack_pages)
         /\ ListsStacks(list', index + 1, cores, stack_pages)
<1> DEFINE L == Len(cores)
           base == StackAt(index, L, stack_pages)
<1>0. L \in Nat /\ StacksPerCore = 1 /\ EntryWords = 2 /\ StackBase(index, s) = base
  BY BaseIs
<1>1. EntryIndex(index) = 2 * index
  BY <1>0 DEF EntryIndex, FirstEntry
<1>2. /\ mapped' = MapPages(mapped, base, index, 1)
      /\ list' = Set(Set(list, 2 * index, [id |-> cores[index + 1].id]), 2 * index + 1, [top |-> base + stack_pages])
  BY <1>0, <1>1 DEF MapStack
<1>3. StackAddrs(index, L, stack_pages) = base .. base + stack_pages - 1
  BY DEF StackAddrs
<1> HIDE DEF base
<1>4. /\ DOMAIN mapped' = DOMAIN mapped \cup StackAddrs(index, L, stack_pages)
      /\ \A va \in DOMAIN mapped' : IF va \in StackAddrs(index, L, stack_pages)
                                    THEN mapped'[va].block = Owner(index) ELSE mapped'[va] = mapped[va]
  <2>1. mapped' = [va \in DOMAIN mapped \cup StackAddrs(index, L, stack_pages) |->
                     IF va \in StackAddrs(index, L, stack_pages) THEN BlockPage(index, 1, va - base) ELSE mapped[va]]
    BY <1>2, <1>3 DEF MapPages
  <2>2. \A n : BlockPage(index, 1, n).block = Owner(index)
    BY DEF BlockPage, Owner
  <2> QED BY <2>1, <2>2
<1>5. MapsStacks(mapped', index + 1, L, stack_pages)
  <2>1. index \in Nat /\ index > 0 /\ index < L /\ stack_pages \in Nat /\ MapsStacks(mapped, index, L, stack_pages)
    OBVIOUS
  <2> HIDE DEF L
  <2> QED BY <1>0, <1>4, <2>1, MapsMore
<1>6. ListsStacks(list', index + 1, cores, stack_pages)
  BY <1>2, ListsMore DEF base
<1> QED BY <1>5, <1>6

(* init_core_config ends with a core, or fails. *)
LEMMA DoneHasCores ==
  ASSUME phase = "done" => cores # <<>>, Next, phase' = "done"
  PROVE  cores' # <<>>
<1>1. \A ok, dtb : AfterNode(ok, dtb) # "done"
  BY DEF AfterNode
<1>2. ASSUME NEW header \in Headers, NewReader(header) PROVE FALSE
  BY <1>2 DEF NewReader
<1>3. ~NameCutOff
  BY DEF NameCutOff
<1>4. ASSUME NEW node \in NextNodes, ScanNode(node) PROVE FALSE
  <2>1. CASE node.name = "cpus"
    <3>1. ScanCpusNode(NodeWords(node, addr_cells))
      BY <1>4, <2>1 DEF ScanNode
    <3> QED BY <1>1, <3>1 DEF ScanCpusNode
  <2>2. CASE node.name = "cpu@N"
    <3>1. ScanCpuNode(NodeWords(node, addr_cells), node.props)
      BY <1>4, <2>2 DEF ScanNode
    <3> QED BY <1>1, <3>1 DEF ScanCpuNode
  <2>3. CASE node.name # "cpus" /\ node.name # "cpu@N"
    <3>1. phase' = AfterNode(TRUE, NodeWords(node, addr_cells))
      BY <1>4, <2>3 DEF ScanNode
    <3> QED BY <1>1, <3>1
  <2> QED BY <2>1, <2>2, <2>3
<1>5. CASE EndScan
  BY <1>5 DEF EndScan
<1> QED BY <1>2, <1>3, <1>4, <1>5 DEF Next

(* A step of boot that changes neither the cores nor the stacks. *)
LEMMA KeepsStacks ==
  ASSUME StacksInv, boot # "start", UNCHANGED <<vars, stack_pages, index, s, mapped, list>>
  PROVE  /\ MapsStacks(mapped, index, Len(cores), stack_pages)'
         /\ ListsStacks(list, index, cores, stack_pages)'
<1>1. MapsStacks(mapped, index, Len(cores), stack_pages) /\ ListsStacks(list, index, cores, stack_pages)
  BY DEF StacksInv
<1>2. /\ MapsStacks(mapped', index', Len(cores'), stack_pages')
      /\ ListsStacks(list', index', cores', stack_pages')
  BY <1>1 DEF vars
<1> QED BY <1>2

(* The stacks of the cores set up so far are mapped and listed, and nothing  *)
(* else is.                                                                  *)
LEMMA StacksInvariant ==
  ASSUME Arch = "aarch64"
  PROVE  BootSpec => []StacksInv
<1>1. BootInit => StacksInv
  <2> SUFFICES ASSUME BootInit PROVE StacksInv
    OBVIOUS
  <2>1. stack_pages \in StackPages /\ boot = "start" /\ index = 1 /\ s = 1 /\ phase = "new"
    BY DEF BootInit, Init
  <2>2. stack_pages \in Nat \ {0}
    BY <2>1, StacksAssumption
  <2> QED BY <2>1, <2>2 DEF StacksInv
<1>2. CoreInv /\ StacksInv /\ [BootNext]_<<vars, isr_vars>> => StacksInv'
  <2> SUFFICES ASSUME CoreInv, StacksInv, [BootNext]_<<vars, isr_vars>> PROVE StacksInv'
    OBVIOUS
  <2>0. /\ cores \in Seq(CpuCores) /\ Len(cores) \in Nat /\ stack_pages \in Nat \ {0} /\ s = 1 /\ index \in Nat \ {0}
        /\ (phase = "done" => cores # <<>>)
    BY DEF CoreInv, CoreTypes, StacksInv
  <2>1. CASE SetupPrimary
    <3>1. /\ boot = "start" /\ boot' = "cores" /\ index' = index /\ s' = s /\ stack_pages' = stack_pages
          /\ phase' = phase /\ cores' = cores
      BY <2>1 DEF SetupPrimary, vars
    <3>2. index = 1
      BY <3>1 DEF StacksInv
    <3>3. /\ MapsStacks(mapped', index', Len(cores'), stack_pages')
          /\ ListsStacks(list', index', cores', stack_pages')
      BY <2>0, <2>1, <3>1, <3>2, PrimaryMaps
    <3> QED BY <2>0, <3>1, <3>2, <3>3 DEF StacksInv
  <2>2. CASE Discover
    <3>1. boot = "cores" /\ Next /\ UNCHANGED <<stack_pages, boot, index, s, mapped, list>>
      BY <2>2 DEF Discover, isr_vars
    <3>2. /\ index = 1
          /\ MapsStacks(mapped, 1, Len(cores), stack_pages) /\ ListsStacks(list, 1, cores, stack_pages)
      BY <3>1 DEF StacksInv
    <3>3. /\ MapsStacks(mapped, 1, Len(cores'), stack_pages) /\ ListsStacks(list, 1, cores', stack_pages)
      BY <3>2, OneStack
    <3>4. /\ MapsStacks(mapped', index', Len(cores'), stack_pages')
          /\ ListsStacks(list', index', cores', stack_pages')
      BY <3>1, <3>2, <3>3
    <3>5. phase' = "done" => cores' # <<>>
      BY <2>0, <3>1, DoneHasCores
    <3> QED BY <2>0, <3>1, <3>2, <3>4, <3>5 DEF StacksInv
  <2>3. CASE InitSmp
    <3>1. /\ boot = "cores" /\ phase = "done" /\ boot' = IF Len(cores) < 2 THEN "done" ELSE "smp"
          /\ index' = index /\ s' = s /\ stack_pages' = stack_pages /\ phase' = phase /\ cores' = cores
      BY <2>3 DEF InitSmp, vars
    <3>2. index = 1 /\ Len(cores) >= 1
      BY <2>0, <3>1 DEF StacksInv
    <3>3. MapsStacks(mapped, index, Len(cores), stack_pages)' /\ ListsStacks(list, index, cores, stack_pages)'
      BY <2>3, <3>1, KeepsStacks DEF InitSmp
    <3>4. (boot' = "done" /\ index = Len(cores)) \/ (boot' = "smp" /\ index < Len(cores))
      <4>1. CASE Len(cores) < 2
        <5>1. boot' = "done"
          BY <3>1, <4>1
        <5> DEFINE n == Len(cores)
        <5>a. n \in Nat /\ n >= 1 /\ n < 2 /\ index = 1
          BY <2>0, <3>2, <4>1
        <5> HIDE DEF n
        <5>b. index = n
          BY <5>a
        <5>2. index = Len(cores)
          BY <5>b DEF n
        <5> QED BY <5>1, <5>2
      <4>2. CASE ~(Len(cores) < 2)
        <5>1. boot' = "smp"
          BY <3>1, <4>2
        <5>2. index < Len(cores)
          BY <2>0, <3>2, <4>2
        <5> QED BY <5>1, <5>2
      <4> QED BY <4>1, <4>2
    <3> QED BY <2>0, <3>1, <3>2, <3>3, <3>4 DEF StacksInv
  <2>4. CASE MapStack
    <3>1. StacksPerCore = 1
      BY DEF StacksPerCore
    <3>2. /\ boot = "smp" /\ s' = 1 /\ index' = index + 1
          /\ boot' = IF index + 1 = Len(cores) THEN "done" ELSE "smp"
          /\ stack_pages' = stack_pages /\ phase' = phase /\ cores' = cores
      BY <2>0, <2>4, <3>1 DEF MapStack, vars
    <3>3. /\ index < Len(cores) /\ phase = "done"
          /\ MapsStacks(mapped, index, Len(cores), stack_pages) /\ ListsStacks(list, index, cores, stack_pages)
      BY <3>2 DEF StacksInv
    <3>4. /\ MapsStacks(mapped', index + 1, Len(cores), stack_pages)
          /\ ListsStacks(list', index + 1, cores, stack_pages)
      BY <2>0, <2>4, <3>3, MapStackMaps
    <3>5. /\ MapsStacks(mapped', index', Len(cores'), stack_pages')
          /\ ListsStacks(list', index', cores', stack_pages')
      BY <3>2, <3>4
    <3>6. index + 1 = Len(cores) \/ index + 1 < Len(cores)
      BY <2>0, <3>3
    <3> QED BY <2>0, <3>2, <3>3, <3>5, <3>6 DEF StacksInv
  <2>5. CASE AllocPanic
    <3>1. /\ boot = "smp" /\ boot' = "panic"
          /\ index' = index /\ s' = s /\ stack_pages' = stack_pages /\ phase' = phase /\ cores' = cores
      BY <2>5 DEF AllocPanic, vars
    <3>2. MapsStacks(mapped, index, Len(cores), stack_pages)' /\ ListsStacks(list, index, cores, stack_pages)'
      BY <2>5, <3>1, KeepsStacks DEF AllocPanic
    <3> QED BY <2>0, <3>1, <3>2 DEF StacksInv
  <2>6. CASE UNCHANGED <<vars, isr_vars>>
    <3>1. /\ boot' = boot
          /\ index' = index /\ s' = s /\ stack_pages' = stack_pages /\ phase' = phase /\ cores' = cores
      BY <2>6 DEF isr_vars, vars
    <3>2. boot # "start" => MapsStacks(mapped, index, Len(cores), stack_pages)'
                            /\ ListsStacks(list, index, cores, stack_pages)'
      BY <2>6, KeepsStacks DEF isr_vars
    <3> QED BY <2>0, <3>1, <3>2 DEF StacksInv
  <2> QED BY <2>1, <2>2, <2>3, <2>4, <2>5, <2>6 DEF BootNext, Rest
<1> QED BY <1>1, <1>2, CoreInvariant, PTL DEF BootSpec

(* No two stacks share a page, and each has its guard page. *)
LEMMA MapsApart ==
  ASSUME Arch = "aarch64", CoreInv, StacksInv
  PROVE  StacksApart
<1> SUFFICES ASSUME NEW r \in Ready
             PROVE  LET base == Base(r[1], r[2])
                    IN /\ base - 1 \notin DOMAIN mapped
                       /\ base >= AreaEnd - StepSize * StacksPerCore * Max({1, Len(cores)})
                       /\ \A n \in 0 .. stack_pages - 1 :
                            mapped[base + n].block = IF r[1] = 0 THEN "image" ELSE r
  BY DEF StacksApart
<1> DEFINE L == Len(cores)
           c == r[1]
           base == StackAt(c, L, stack_pages)
<1>0. cores \in Seq(CpuCores) /\ L \in Nat /\ stack_pages \in Nat \ {0} /\ s = 1 /\ index \in Nat \ {0}
  BY DEF CoreInv, CoreTypes, StacksInv
<1>1. boot # "start" /\ MapsStacks(mapped, index, L, stack_pages)
  BY DEF Ready, StacksInv
<1>2. index = 1 \/ index <= L
  BY <1>0 DEF StacksInv
<1>3. StacksPerCore = 1
  BY DEF StacksPerCore
<1>4. r \in (0 .. index) \X {1} /\ (c < index \/ (c = index /\ r[2] < 1))
  <2>1. 1 .. StacksPerCore = {1}
    BY <1>3
  <2> QED BY <1>0, <1>1, <2>1 DEF Ready
<1>5. r[2] = 1 /\ r = <<c, 1>> /\ c \in 0 .. index - 1
  BY <1>0, <1>4
<1> HIDE DEF c
<1>6. c \in Nat /\ (c < L \/ c = 0)
  BY <1>0, <1>2, <1>5
<1>7. Base(c, 1) = base /\ StepSize = stack_pages + 1
  BY <1>0, <1>6, BaseIs
<1>8. base - 1 \notin DOMAIN mapped
  <2> SUFFICES ASSUME base - 1 \in DOMAIN mapped PROVE FALSE
    OBVIOUS
  <2>1. PICK d \in 0 .. index - 1 : base - 1 \in StackAddrs(d, L, stack_pages)
    BY <1>1 DEF MapsStacks
  <2>2. d \in Nat /\ (d < L \/ d = 0)
    BY <1>0, <1>2
  <2> QED BY <1>0, <1>6, <2>1, <2>2, StacksDisjoint
<1>9. base >= AreaEnd - StepSize * StacksPerCore * Max({1, L})
  <2> DEFINE a == Rank(c, L)
             top == Max({1, L})
             w == stack_pages + 1
  <2>1. top \in Nat /\ top >= 1 /\ top >= L
    <3>1. top = CHOOSE x \in {1, L} : \A y \in {1, L} : x >= y
      BY DEF Max
    <3>2. \E x \in {1, L} : \A y \in {1, L} : x >= y
      BY <1>0
    <3>3. top \in {1, L} /\ \A y \in {1, L} : top >= y
      BY <3>1, <3>2
    <3> QED BY <1>0, <3>3
  <2>2. a \in Nat /\ a <= top
    <3> HIDE DEF top, L
    <3> QED BY <1>0, <1>6, <2>1 DEF Rank
  <2>3. base = AreaEnd - w * a + 1
    BY DEF StackAt
  <2>4. StepSize * StacksPerCore * top = w * top
    <3>1. w \in Nat /\ w * 1 = w
      BY <1>0
    <3> HIDE DEF top, w
    <3> QED BY <1>3, <1>7, <3>1 DEF w
  <2>5. w \in Nat /\ AreaEnd \in Nat
    BY <1>0, StacksAssumption
  <2> HIDE DEF a, top, w, base
  <2>6. w * a \in Nat /\ w * top \in Nat /\ w * a <= w * top
    <3>1. CASE a = top
      BY <2>1, <2>5, <3>1
    <3>2. CASE a < top
      <4> DEFINE x == w * a
                 y == w * top
      <4>1. x + w <= y /\ x \in Nat /\ y \in Nat
        BY <2>1, <2>2, <2>5, <3>2, StepApart
      <4> HIDE DEF x, y
      <4>2. x <= y
        BY <2>5, <4>1
      <4> QED BY <4>1, <4>2 DEF x, y
    <3> QED BY <2>1, <2>2, <3>1, <3>2
  <2> DEFINE x == w * a
             y == w * top
  <2>7. x \in Nat /\ y \in Nat /\ x <= y /\ base = AreaEnd - x + 1
    BY <2>3, <2>6
  <2> HIDE DEF x, y
  <2>8. base >= AreaEnd - y
    BY <2>5, <2>7
  <2> QED BY <2>4, <2>8 DEF y, top
<1>10. ASSUME NEW n \in 0 .. stack_pages - 1 PROVE mapped[base + n].block = IF c = 0 THEN "image" ELSE r
  <2>1. base \in Int
    BY <1>0, <1>6, RanksApart
  <2>2. StackAddrs(c, L, stack_pages) = base .. base + stack_pages - 1
    BY DEF StackAddrs
  <2> HIDE DEF base
  <2>3. base + n \in StackAddrs(c, L, stack_pages)
    BY <1>0, <2>1, <2>2
  <2>4. mapped[base + n].block = Owner(c)
    BY <1>1, <1>5, <2>3 DEF MapsStacks
  <2> QED BY <1>5, <2>4 DEF Owner
<1>11. Base(r[1], r[2]) = base
  BY <1>5, <1>7 DEF c
<1> HIDE DEF base
<1> QED BY <1>8, <1>9, <1>10, <1>11 DEF c

(* The entry of every core is the one at its index. *)
LEMMA ListsAll ==
  ASSUME Arch = "aarch64", CoreInv, StacksInv
  PROVE  StackListComplete
<1> SUFFICES ASSUME boot = "done", \E j \in DOMAIN cores : cores[j].id = primary_id,
                    NEW j \in DOMAIN cores
             PROVE  /\ {w \in DOMAIN list : w % EntryWords = 0 /\ list[w] = [id |-> cores[j].id]}
                         = {EntryWords * (j - 1)}
                    /\ \A i \in 1 .. StacksPerCore :
                         list[EntryWords * (j - 1) + i] = [top |-> Base(j - 1, i) + stack_pages]
  BY DEF StackListComplete
<1> DEFINE L == Len(cores)
<1>0. cores \in Seq(CpuCores) /\ L \in Nat /\ stack_pages \in Nat \ {0} /\ index = L /\ IdsApart(cores) /\ PrimaryFirst(cores)
  BY DEF CoreInv, CoreTypes, StacksInv
<1>1. ListsStacks(list, L, cores, stack_pages)
  BY <1>0 DEF StacksInv
<1>2. DOMAIN cores = 1 .. L /\ j \in 1 .. L
  BY <1>0
<1>3. cores[1].id = primary_id
  <2>1. PICK k \in 1 .. L : cores[k].id = primary_id
    BY <1>2
  <2>2. k = 1
    BY <1>0, <2>1 DEF PrimaryFirst
  <2> QED BY <2>1, <2>2
<1>4. EntryWords = 2 /\ StacksPerCore = 1
  BY DEF EntryWords, StacksPerCore
<1>5. \A c \in 0 .. L - 1 : list[2 * c] = [id |-> cores[c + 1].id]
  <2> SUFFICES ASSUME NEW c \in 0 .. L - 1 PROVE list[2 * c] = [id |-> cores[c + 1].id]
    OBVIOUS
  <2>1. CASE c = 0
    <3>1. list[0] = [id |-> primary_id]
      BY <1>1 DEF ListsStacks
    <3>2. 2 * c = 0 /\ c + 1 = 1
      BY <2>1
    <3> QED BY <1>3, <3>1, <3>2
  <2>2. CASE c # 0
    <3>1. c \in 1 .. L - 1
      BY <1>0, <2>2
    <3> QED BY <1>1, <3>1 DEF ListsStacks
  <2> QED BY <2>1, <2>2
<1>6. DOMAIN list = 0 .. 2 * L - 1
  BY <1>1 DEF ListsStacks
<1> HIDE DEF L
<1>7. {w \in DOMAIN list : w % 2 = 0 /\ list[w] = [id |-> cores[j].id]} = {2 * (j - 1)}
  <2>1. ASSUME NEW w \in DOMAIN list, w % 2 = 0, list[w] = [id |-> cores[j].id]
        PROVE  w = 2 * (j - 1)
    <3>1. PICK c \in 0 .. L - 1 : w = 2 * c
      <4> DEFINE c == w \div 2
      <4>1. w \in Int /\ w >= 0 /\ w <= 2 * L - 1
        BY <1>0, <1>6
      <4>2. w = 2 * c + (w % 2) /\ c \in Int
        BY <4>1, Z3
      <4> HIDE DEF c
      <4>3. w = 2 * c
        BY <2>1, <4>1, <4>2
      <4>4. c \in 0 .. L - 1
        BY <1>0, <4>1, <4>2, <4>3
      <4> QED BY <4>3, <4>4
    <3>2. [id |-> cores[c + 1].id] = [id |-> cores[j].id]
      BY <1>5, <2>1, <3>1
    <3>3. cores[c + 1].id = cores[j].id
      <4> DEFINE a == cores[c + 1].id
                 b == cores[j].id
      <4>1. [id |-> a].id = a /\ [id |-> b].id = b
        OBVIOUS
      <4> QED BY <3>2, <4>1
    <3>4. c + 1 \in 1 .. L
      BY <1>0
    <3>5. c + 1 = j
      BY <1>2, <3>3, <3>4, <1>0 DEF IdsApart, L
    <3> QED BY <1>0, <1>2, <3>1, <3>5
  <2>2. 2 * (j - 1) \in DOMAIN list /\ (2 * (j - 1)) % 2 = 0 /\ j - 1 \in 0 .. L - 1 /\ (j - 1) + 1 = j
    BY <1>0, <1>2, <1>6
  <2>3. list[2 * (j - 1)] = [id |-> cores[j].id]
    BY <1>5, <2>2
  <2> QED BY <2>1, <2>2, <2>3
<1>8. ASSUME NEW i \in 1 .. 1 PROVE list[2 * (j - 1) + i] = [top |-> Base(j - 1, i) + stack_pages]
  <2>1. i = 1 /\ j - 1 \in 0 .. L - 1 /\ j - 1 \in Nat
    BY <1>0, <1>2
  <2>2. list[2 * (j - 1) + 1] = [top |-> StackAt(j - 1, Len(cores), stack_pages) + stack_pages]
    BY <1>1, <2>1 DEF ListsStacks
  <2>3. Base(j - 1, 1) = StackAt(j - 1, Len(cores), stack_pages)
    BY <1>0, <2>1, BaseIs
  <2> QED BY <2>1, <2>2, <2>3
<1> QED BY <1>4, <1>7, <1>8

(* On AArch64 no core's stack takes a page of another's, the primary core's  *)
(* included, and below each there is an unmapped guard page, for every       *)
(* number of cores and every size of the stacks.                             *)
THEOREM StacksApartHold ==
  ASSUME Arch = "aarch64"
  PROVE  BootSpec => []StacksApart
BY CoreInvariant, StacksInvariant, MapsApart, PTL

(* On AArch64 every core finds one entry of the stack list with its ID, its  *)
(* own stack's top behind it, wherever the primary core was in the device    *)
(* tree.                                                                     *)
THEOREM StackListCompletes ==
  ASSUME Arch = "aarch64"
  PROVE  BootSpec => []StackListComplete
BY CoreInvariant, StacksInvariant, ListsAll, PTL

-----------------------------------------------------------------------------
(*****************************************************************************)
(* The boot page allocator and its bitmap.                                   *)
(*****************************************************************************)

(* Bit b of the map is 1. *)
Marked(bitmap, b) == Shift(b) \in bitmap[WordOf(b)]

(* A bit lies in the word that its index says, at the shift that it says. *)
LEMMA BitPlace ==
  ASSUME NEW b \in Nat
  PROVE  /\ WordOf(b) \in Nat /\ Shift(b) \in Bit /\ b = WORD_BITS * WordOf(b) + Shift(b)
         /\ b < MAP_WORDS * WORD_BITS => WordOf(b) \in Word
<1>0. WORD_BITS \in Nat /\ WORD_BITS > 0 /\ MAP_WORDS \in Nat
  BY BitmapAssumption
<1> DEFINE w == WordOf(b)
           x == Shift(b)
<1>1. w \in Nat /\ x \in 0 .. WORD_BITS - 1
  BY <1>0 DEF WordOf, Shift
<1>2. b = WORD_BITS * w + x
  BY <1>0, Z3 DEF WordOf, Shift
<1> HIDE DEF w, x
<1>3. ASSUME b < MAP_WORDS * WORD_BITS PROVE w \in 0 .. MAP_WORDS - 1
  <2> SUFFICES ASSUME w >= MAP_WORDS PROVE FALSE
    BY <1>0, <1>1
  <2>1. WORD_BITS * w >= MAP_WORDS * WORD_BITS
    BY <1>0, <1>1
  <2> DEFINE y == WORD_BITS * w
             z == MAP_WORDS * WORD_BITS
  <2>2. y \in Nat /\ z \in Nat /\ y >= z /\ b = y + x /\ b < z
    BY <1>0, <1>1, <1>2, <1>3, <2>1
  <2> HIDE DEF y, z
  <2> QED BY <1>1, <2>2
<1> QED BY <1>1, <1>2, <1>3 DEF w, x, Bit, Word

(* The place decides the bit. *)
LEMMA PlaceIs ==
  ASSUME NEW w \in Nat, NEW x \in Bit
  PROVE  WordOf(w * WORD_BITS + x) = w /\ Shift(w * WORD_BITS + x) = x /\ w * WORD_BITS + x \in Nat
<1>0. WORD_BITS \in Nat /\ WORD_BITS > 0 /\ x \in Nat /\ x < WORD_BITS
  BY BitmapAssumption DEF Bit
<1> DEFINE b == w * WORD_BITS + x
<1>1. b \in Nat
  BY <1>0
<1>2. b = w * WORD_BITS + x
  OBVIOUS
<1> HIDE DEF b
<1> DEFINE v == WordOf(b)
           y == Shift(b)
<1>3. v \in Nat /\ y \in 0 .. WORD_BITS - 1 /\ b = WORD_BITS * v + y
  BY <1>1, BitPlace DEF Bit
<1> HIDE DEF v, y
<1>4. ~(v < w)
  <2> SUFFICES ASSUME v < w PROVE FALSE
    OBVIOUS
  <2> DEFINE p == WORD_BITS * v
             q == WORD_BITS * w
  <2>1. p + WORD_BITS <= q /\ p \in Nat /\ q \in Nat
    BY <1>0, <1>3, StepApart
  <2>2. q = w * WORD_BITS
    BY <1>0
  <2>3. b = p + y /\ b = q + x
    BY <1>2, <1>3, <2>2
  <2> HIDE DEF p, q
  <2> QED BY <1>0, <1>3, <2>1, <2>3
<1>5. ~(w < v)
  <2> SUFFICES ASSUME w < v PROVE FALSE
    OBVIOUS
  <2> DEFINE p == WORD_BITS * v
             q == WORD_BITS * w
  <2>1. q + WORD_BITS <= p /\ p \in Nat /\ q \in Nat
    BY <1>0, <1>3, StepApart
  <2>2. q = w * WORD_BITS
    BY <1>0
  <2>3. b = p + y /\ b = q + x
    BY <1>2, <1>3, <2>2
  <2> HIDE DEF p, q
  <2> QED BY <1>0, <1>3, <2>1, <2>3
<1>6. v = w
  BY <1>3, <1>4, <1>5
<1>7. y = x
  <2> DEFINE p == WORD_BITS * v
             q == w * WORD_BITS
  <2>1. p = q /\ p \in Nat
    BY <1>0, <1>6
  <2>2. b = p + y /\ b = q + x
    BY <1>2, <1>3
  <2> HIDE DEF p, q
  <2> QED BY <1>0, <1>3, <2>1, <2>2
<1> QED BY <1>1, <1>6, <1>7 DEF b, v, y

(* set_bit sets the one bit, and nothing past the map. *)
LEMMA SetBitSets ==
  ASSUME NEW bitmap \in [Word -> SUBSET Bit], NEW bits \in Nat, bits <= MAP_WORDS * WORD_BITS,
         NEW b \in Nat, NEW d \in Nat, d < bits
  PROVE  /\ SetBit(bitmap, bits, b) \in [Word -> SUBSET Bit]
         /\ Marked(SetBit(bitmap, bits, b), d) <=> Marked(bitmap, d) \/ d = b
<1>0. MAP_WORDS * WORD_BITS \in Nat
  BY BitmapAssumption
<1>1. CASE b >= bits
  <2>1. SetBit(bitmap, bits, b) = bitmap /\ d # b
    BY <1>1 DEF SetBit
  <2> QED BY <2>1
<1>2. CASE b < bits
  <2>1. /\ WordOf(b) \in Word /\ Shift(b) \in Bit /\ b = WORD_BITS * WordOf(b) + Shift(b)
        /\ WordOf(d) \in Word /\ Shift(d) \in Bit /\ d = WORD_BITS * WordOf(d) + Shift(d)
    <3>1. b < MAP_WORDS * WORD_BITS /\ d < MAP_WORDS * WORD_BITS
      BY <1>0, <1>2
    <3> QED BY <3>1, BitPlace
  <2>2. SetBit(bitmap, bits, b) = [bitmap EXCEPT ![WordOf(b)] = bitmap[WordOf(b)] \cup {Shift(b)}]
    BY <1>2 DEF SetBit
  <2>3. WordOf(d) = WordOf(b) /\ Shift(d) = Shift(b) <=> d = b
    BY <2>1
  <2> QED BY <2>1, <2>2, <2>3 DEF Marked
<1> QED BY <1>1, <1>2

(* first_zero: the lowest bit that is not set, or {} when every bit of the   *)
(* map is.                                                                   *)
LEMMA FirstZeroFinds ==
  ASSUME NEW bitmap \in [Word -> SUBSET Bit], NEW bits \in Nat, bits <= MAP_WORDS * WORD_BITS
  PROVE  /\ \A z \in FirstZero(bitmap, bits) :
              z \in Nat /\ z < bits /\ ~Marked(bitmap, z) /\ \A b \in Nat : b < z => Marked(bitmap, b)
         /\ FirstZero(bitmap, bits) = {} => \A b \in Nat : b < bits => Marked(bitmap, b)
<1>0. WORD_BITS \in Nat /\ MAP_WORDS \in Nat /\ MAP_WORDS * WORD_BITS \in Nat
  BY BitmapAssumption
<1> DEFINE open == {w \in Word : bitmap[w] # Bit}
<1>1. CASE open = {}
  <2>1. FirstZero(bitmap, bits) = {}
    BY <1>0, <1>1 DEF FirstZero
  <2>2. ASSUME NEW b \in Nat, b < bits PROVE Marked(bitmap, b)
    <3>1. b < MAP_WORDS * WORD_BITS
      BY <1>0, <2>2
    <3>2. WordOf(b) \in Word /\ Shift(b) \in Bit
      BY <3>1, BitPlace
    <3> QED BY <1>1, <3>2 DEF Marked
  <2> QED BY <2>1, <2>2
<1>2. CASE open # {}
  <2> DEFINE w == Min(open)
             x == Min(Bit \ bitmap[w])
             i == w * WORD_BITS + x
  <2>1. w \in Word /\ bitmap[w] # Bit /\ \A v \in Word : bitmap[v] # Bit => w <= v
    <3>1. open \in SUBSET Nat
      BY <1>0 DEF Word
    <3>2. w \in open /\ \A v \in open : w <= v
      <4> HIDE DEF open
      <4> QED BY <1>2, <3>1, MinOfNat
    <3> QED BY <3>2
  <2>2. x \in Bit /\ x \notin bitmap[w] /\ \A y \in Bit : y \notin bitmap[w] => x <= y
    <3> DEFINE C == Bit \ bitmap[w]
    <3>1. C \in SUBSET Nat /\ C # {}
      <4>1. bitmap[w] \in SUBSET Bit
        BY <2>1
      <4>2. C # {}
        BY <2>1, <4>1
      <4>3. Bit \subseteq Nat
        BY <1>0 DEF Bit
      <4> QED BY <4>2, <4>3
    <3>2. Min(C) \in C /\ \A y \in C : Min(C) <= y
      <4> HIDE DEF C
      <4> QED BY <3>1, MinOfNat
    <3> QED BY <3>2
  <2>3. FirstZero(bitmap, bits) = IF i < bits THEN {i} ELSE {}
    <3>1. w \in Nat /\ x \in Nat
      BY <1>0, <2>1, <2>2 DEF Word, Bit
    <3>2. i \in Nat
      BY <1>0, <3>1
    <3>3. FirstZero(bitmap, bits) = IF i >= bits THEN {} ELSE {i}
      BY <1>2 DEF FirstZero
    <3> HIDE DEF i
    <3> QED BY <3>2, <3>3
  <2> HIDE DEF open, w, x
  <2>4. w \in Nat /\ x \in Nat
    BY <1>0, <2>1, <2>2 DEF Word, Bit
  <2>5. WordOf(i) = w /\ Shift(i) = x /\ i \in Nat
    BY <2>2, <2>4, PlaceIs
  <2>6. i = WORD_BITS * w + x
    BY <1>0, <2>4
  <2> HIDE DEF i
  <2>7. ~Marked(bitmap, i)
    BY <2>2, <2>5 DEF Marked
  <2>8. ASSUME NEW b \in Nat, b < i, b < bits \/ i < bits PROVE Marked(bitmap, b)
    <3>1. b < MAP_WORDS * WORD_BITS
      BY <1>0, <2>5, <2>8
    <3> DEFINE v == WordOf(b)
               y == Shift(b)
    <3>2. v \in Word /\ y \in Bit /\ b = WORD_BITS * v + y /\ v \in Nat /\ y \in Nat
      <4>1. v \in Word /\ y \in Bit /\ b = WORD_BITS * v + y
        BY <3>1, BitPlace
      <4> HIDE DEF v, y
      <4> QED BY <1>0, <4>1 DEF Bit, Word
    <3>3. (y \in bitmap[v]) => Marked(bitmap, b)
      BY DEF Marked
    <3> HIDE DEF v, y
    <3>4. CASE v < w
      <4>1. bitmap[v] = Bit
        BY <2>1, <2>4, <3>2, <3>4
      <4> QED BY <3>2, <3>3, <4>1
    <3>5. CASE v = w
      <4> DEFINE p == WORD_BITS * w
      <4>1. p \in Nat /\ b = p + y /\ i = p + x
        BY <1>0, <2>4, <2>6, <3>2, <3>5
      <4> HIDE DEF p
      <4>2. y < x
        BY <2>4, <2>8, <3>2, <4>1
      <4>3. y \in bitmap[w]
        BY <2>2, <2>4, <3>2, <4>2
      <4> QED BY <3>3, <3>5, <4>3
    <3>6. CASE w < v
      <4> DEFINE p == WORD_BITS * w
                 q == WORD_BITS * v
      <4>1. p + WORD_BITS <= q /\ p \in Nat /\ q \in Nat /\ b = q + y /\ i = p + x
        BY <1>0, <2>4, <2>6, <3>2, <3>6, StepApart
      <4>2. x < WORD_BITS
        BY <1>0, <2>2 DEF Bit
      <4> HIDE DEF p, q
      <4> QED BY <1>0, <2>4, <2>8, <3>2, <4>1, <4>2
    <3> QED BY <2>4, <3>2, <3>4, <3>5, <3>6
  <2>9. CASE i < bits
    <3>1. FirstZero(bitmap, bits) = {i}
      BY <2>3, <2>9
    <3> QED BY <2>5, <2>7, <2>8, <2>9, <3>1
  <2>10. CASE ~(i < bits)
    <3>1. FirstZero(bitmap, bits) = {}
      BY <2>3, <2>10
    <3>2. ASSUME NEW b \in Nat, b < bits PROVE Marked(bitmap, b)
      <4>1. b < i
        BY <2>5, <2>10, <3>2
      <4> QED BY <2>8, <3>2, <4>1
    <3> QED BY <3>1, <3>2
  <2> QED BY <2>9, <2>10
<1> QED BY <1>1, <1>2

(* BufferedPageAllocator::alloc: the page it returns lies in the area, was   *)
(* free and is the lowest that was, afterwards that page and no other is     *)
(* marked as well, and it returns None only when every page that the bitmap  *)
(* tracks is taken.  So boot never gets the same page for two tables.        *)
THEOREM BootPagesOnce ==
  ASSUME NEW bitmap \in [Word -> SUBSET Bit], NEW start \in Nat, NEW end \in Nat, start <= end
  PROVE  /\ \A p \in AllocPage(bitmap, start, end) :
              /\ p \in start .. end - 1
              /\ ~Marked(bitmap, p - start)
              /\ \A b \in Nat : b < p - start => Marked(bitmap, b)
              /\ MarkPage(bitmap, start, end, p) \in [Word -> SUBSET Bit]
              /\ \A b \in Nat : b < BitmapLength(start, end) =>
                   (Marked(MarkPage(bitmap, start, end, p), b)
                      <=> Marked(bitmap, b) \/ b = p - start)
         /\ AllocPage(bitmap, start, end) = {}
              => \A b \in Nat : b < BitmapLength(start, end) => Marked(bitmap, b)
<1> DEFINE m == BitmapLength(start, end)
           c == MAP_WORDS * WORD_BITS
           d == end - start
<1>1. c \in Nat /\ d \in Nat
  BY BitmapAssumption
<1>2. m \in Nat /\ m <= c /\ m <= d
  <2>1. m = Min({d, c})
    BY DEF BitmapLength, Length
  <2> HIDE DEF m, c, d
  <2>2. Min({d, c}) = IF d <= c THEN d ELSE c
    BY <1>1, MinOfTwo
  <2> QED BY <1>1, <2>1, <2>2
<1>3. /\ \A z \in FirstZero(bitmap, m) :
           z \in Nat /\ z < m /\ ~Marked(bitmap, z) /\ \A b \in Nat : b < z => Marked(bitmap, b)
      /\ FirstZero(bitmap, m) = {} => \A b \in Nat : b < m => Marked(bitmap, b)
  <2> HIDE DEF m
  <2> QED BY <1>2, FirstZeroFinds
<1>4. ASSUME NEW p \in AllocPage(bitmap, start, end)
      PROVE  /\ p \in start .. end - 1
             /\ ~Marked(bitmap, p - start)
             /\ \A b \in Nat : b < p - start => Marked(bitmap, b)
             /\ MarkPage(bitmap, start, end, p) \in [Word -> SUBSET Bit]
             /\ \A b \in Nat : b < m =>
                  (Marked(MarkPage(bitmap, start, end, p), b) <=> Marked(bitmap, b) \/ b = p - start)
  <2>1. PICK z \in FirstZero(bitmap, m) : p = start + z
    BY DEF AllocPage
  <2>2. MarkPage(bitmap, start, end, p) = SetBit(bitmap, m, p - start)
    BY DEF MarkPage
  <2> HIDE DEF m
  <2>3. z \in Nat /\ z < m /\ ~Marked(bitmap, z) /\ \A b \in Nat : b < z => Marked(bitmap, b)
    BY <1>3
  <2>4. p - start = z /\ p \in start .. end - 1
    BY <1>1, <1>2, <2>1, <2>3
  <2>5. \A b \in Nat : b < m =>
          /\ SetBit(bitmap, m, z) \in [Word -> SUBSET Bit]
          /\ Marked(SetBit(bitmap, m, z), b) <=> Marked(bitmap, b) \/ b = z
    BY <1>2, <2>3, SetBitSets
  <2>6. SetBit(bitmap, m, z) \in [Word -> SUBSET Bit]
    BY <2>3, <2>5
  <2> QED BY <2>2, <2>3, <2>4, <2>5, <2>6
<1>5. ASSUME AllocPage(bitmap, start, end) = {}
      PROVE  \A b \in Nat : b < m => Marked(bitmap, b)
  <2>1. FirstZero(bitmap, m) = {}
    BY <1>5 DEF AllocPage
  <2> QED BY <1>3, <2>1
<1> QED BY <1>4, <1>5

=============================================================================
