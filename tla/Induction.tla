------------------------------- MODULE Induction -------------------------------
(*****************************************************************************)
(* Induction over the natural numbers, stated for sets and functions rather  *)
(* than for predicates, and what it gives: least elements, and the values a  *)
(* walk along the links of a list meets.                                     *)
(*****************************************************************************)
EXTENDS Integers, FiniteSets, FiniteSetTheorems, WellFoundedInduction, TLAPS

(* A nonempty set of naturals has a least element. *)
LEMMA NatMin ==
  ASSUME NEW S \in SUBSET Nat, S # {}
  PROVE  \E m \in S : \A n \in S : m <= n
<1>1. PICK m \in S : \A n \in S : ~(<<n, m>> \in OpToRel(<, Nat))
  BY NatLessThanWellFounded, WFMin, Zenon
<1>2. \A n \in S : ~(n < m)
  <2>1. \A n \in Nat : n < m => <<n, m>> \in OpToRel(<, Nat)
    BY SMT DEF OpToRel
  <2> QED BY <2>1, <1>1, Zenon
<1> QED BY <1>2

(* A set that holds 0 and the successor of each of its members holds every  *)
(* natural number.                                                          *)
LEMMA NatSetInduction ==
  ASSUME NEW S, 0 \in S, \A n \in Nat : n \in S => n + 1 \in S
  PROVE  \A n \in Nat : n \in S
<1> SUFFICES ASSUME Nat \ S # {} PROVE FALSE
  OBVIOUS
<1>1. PICK m \in Nat \ S : \A n \in Nat \ S : m <= n
  BY NatMin
<1> QED BY <1>1

(* The values of a loop of L turns that starts with v0 and whose turn n     *)
(* takes v to G[n][v].                                                      *)
IsLoop(f, V, v0, L, G) ==
  /\ f \in [0 .. L -> V] /\ f[0] = v0
  /\ \A n \in 1 .. L : f[n] = G[n][f[n - 1]]

(* A loop has a value after every turn. *)
LEMMA LoopExists ==
  ASSUME NEW V, NEW v0 \in V, NEW L \in Nat, NEW G \in [1 .. L -> [V -> V]]
  PROVE  \E f : IsLoop(f, V, v0, L, G)
<1> DEFINE Loop(f, k) == f[0] = v0 /\ \A n \in 1 .. k : f[n] = G[n][f[n - 1]]
           S == {k \in Nat : k <= L => \E f \in [0 .. k -> V] : Loop(f, k)}
<1>1. 0 \in S
  <2>1. [i \in 0 .. 0 |-> v0] \in [0 .. 0 -> V] /\ Loop([i \in 0 .. 0 |-> v0], 0)
    OBVIOUS
  <2> QED BY <2>1
<1>2. ASSUME NEW k \in Nat, k \in S PROVE k + 1 \in S
  <2> SUFFICES ASSUME k + 1 <= L PROVE \E f \in [0 .. k + 1 -> V] : Loop(f, k + 1)
    OBVIOUS
  <2>1. PICK f \in [0 .. k -> V] : Loop(f, k)
    BY <1>2
  <2> DEFINE g == [i \in 0 .. k + 1 |-> IF i <= k THEN f[i] ELSE G[k + 1][f[k]]]
  <2>2. f[k] \in V /\ k + 1 \in 1 .. L
    OBVIOUS
  <2>3. G[k + 1][f[k]] \in V
    BY <2>2
  <2>4. g \in [0 .. k + 1 -> V]
    BY <2>3
  <2>5. g[0] = v0
    BY <2>1
  <2>6. ASSUME NEW n \in 1 .. k + 1 PROVE g[n] = G[n][g[n - 1]]
    <3>1. CASE n <= k
      <4>1. g[n] = f[n] /\ g[n - 1] = f[n - 1] /\ n \in 1 .. k
        BY <3>1
      <4> HIDE DEF g
      <4> QED BY <2>1, <4>1
    <3>2. CASE n = k + 1
      <4>1. g[n] = G[k + 1][f[k]] /\ g[n - 1] = f[k]
        BY <3>2
      <4> HIDE DEF g
      <4> QED BY <3>2, <4>1
    <3> QED BY <3>1, <3>2
  <2> HIDE DEF g
  <2> QED BY <2>4, <2>5, <2>6
<1>3. \A k \in Nat : k \in S
  <2> HIDE DEF S
  <2> QED BY <1>1, <1>2, NatSetInduction
<1>4. \E f \in [0 .. L -> V] : Loop(f, L)
  <2>1. L \in S
    BY <1>3
  <2>2. L <= L
    OBVIOUS
  <2> HIDE DEF Loop
  <2> QED BY <2>1, <2>2
<1> QED BY <1>4 DEF IsLoop

-----------------------------------------------------------------------------
(*****************************************************************************)
(* Singly linked lists.                                                      *)
(*****************************************************************************)

(* f lists the a objects of F along the links of `chain` from `first` to `e`. *)
IsChain(f, a, first, chain, F, e) ==
  /\ f \in [1 .. a + 1 -> F \cup {e}]
  /\ f[1] = first /\ f[a + 1] = e
  /\ \A i \in 1 .. a : f[i] \in F /\ chain[f[i]] = f[i + 1]
  /\ \A i, j \in 1 .. a : f[i] = f[j] => i = j
  /\ \A o \in F : \E i \in 1 .. a : f[i] = o

(* A chain depends on the links of its own objects only. *)
LEMMA ChainLinks ==
  ASSUME NEW f, NEW a \in Nat, NEW first, NEW c, NEW d, NEW F, NEW e, IsChain(f, a, first, c, F, e),
         \A o \in F : d[o] = c[o]
  PROVE  IsChain(f, a, first, d, F, e)
BY DEF IsChain

(* A chain of a objects has a objects. *)
LEMMA ChainSize ==
  ASSUME NEW f, NEW a \in Nat, NEW first, NEW c, NEW F, NEW e, IsChain(f, a, first, c, F, e)
  PROVE  IsFiniteSet(F) /\ Cardinality(F) = a
<1> DEFINE g == [i \in 1 .. a |-> f[i]]
<1>1. g \in [1 .. a -> F] /\ (\A i, j \in 1 .. a : g[i] = g[j] => i = j) /\ \A o \in F : \E i \in 1 .. a : g[i] = o
  BY DEF IsChain
<1>2. g \in Bijection(1 .. a, F)
  BY <1>1 DEF Bijection, Injection, Surjection, IsInjective
<1>3. ExistsBijection(1 .. a, F)
  BY <1>2 DEF ExistsBijection
<1>4. IsFiniteSet(1 .. a) /\ Cardinality(1 .. a) = a
  <2>1. IsFiniteSet(1 .. a) /\ Cardinality(1 .. a) = IF 1 > a THEN 0 ELSE a - 1 + 1
    BY FS_Interval
  <2> QED BY <2>1
<1>5. IsFiniteSet(F) /\ Cardinality(F) = Cardinality(1 .. a)
  BY <1>3, <1>4, FS_Bijection
<1> QED BY <1>4, <1>5

(* Taking the first object of a chain leaves a chain of the others. *)
LEMMA ChainTake ==
  ASSUME NEW f, NEW a \in Nat, a > 0, NEW first, NEW c, NEW d, NEW F, NEW e, IsChain(f, a, first, c, F, e),
         \A o \in F : o # first => d[o] = c[o]
  PROVE  first \in F /\ \E g : IsChain(g, a - 1, c[first], d, F \ {first}, e)
<1> DEFINE G == F \ {first}
           g == [i \in 1 .. a |-> f[i + 1]]
<1>1. first \in F /\ f[1] = first /\ c[first] = f[2] /\ f[a + 1] = e
  BY DEF IsChain
<1>2. \A i \in 2 .. a : f[i] \in G /\ d[f[i]] = f[i + 1]
  BY <1>1 DEF IsChain
<1>3. ASSUME NEW i \in 1 .. (a - 1) + 1
      PROVE  g[i] \in G \cup {e}
  <2>1. CASE i = a
    BY <1>1, <2>1
  <2>2. CASE i # a
    <3>1. i + 1 \in 2 .. a
      BY <1>3, <2>2
    <3> QED BY <1>2, <3>1
  <2> QED BY <2>1, <2>2
<1>4. g \in [1 .. (a - 1) + 1 -> G \cup {e}]
  <2>1. (a - 1) + 1 = a
    OBVIOUS
  <2> QED BY <1>3, <2>1
<1>5. \A i \in 1 .. a - 1 : g[i] \in G /\ d[g[i]] = g[i + 1]
  <2> SUFFICES ASSUME NEW i \in 1 .. a - 1 PROVE g[i] \in G /\ d[g[i]] = g[i + 1]
    OBVIOUS
  <2>1. i + 1 \in 2 .. a /\ g[i] = f[i + 1] /\ g[i + 1] = f[(i + 1) + 1]
    OBVIOUS
  <2> HIDE DEF g, G
  <2> QED BY <1>2, <2>1
<1>6. \A i, j \in 1 .. a - 1 : g[i] = g[j] => i = j
  <2> SUFFICES ASSUME NEW i \in 1 .. a - 1, NEW j \in 1 .. a - 1, g[i] = g[j] PROVE i = j
    OBVIOUS
  <2>1. i + 1 \in 1 .. a /\ j + 1 \in 1 .. a /\ f[i + 1] = f[j + 1]
    OBVIOUS
  <2>2. i + 1 = j + 1
    BY <2>1 DEF IsChain
  <2> QED BY <2>2
<1>7. \A o \in G : \E i \in 1 .. a - 1 : g[i] = o
  <2> SUFFICES ASSUME NEW o \in G PROVE \E i \in 1 .. a - 1 : g[i] = o
    OBVIOUS
  <2>1. PICK i \in 1 .. a : f[i] = o
    BY DEF IsChain
  <2>2. i # 1
    BY <1>1, <2>1
  <2>3. i - 1 \in 1 .. a - 1 /\ g[i - 1] = o
    BY <2>1, <2>2
  <2> QED BY <2>3
<1>8. g[1] = c[first] /\ g[(a - 1) + 1] = e
  BY <1>1
<1> HIDE DEF g, G
<1>9. IsChain(g, a - 1, c[first], d, G, e)
  BY <1>4, <1>5, <1>6, <1>7, <1>8 DEF IsChain
<1> QED BY <1>1, <1>9 DEF G

(* An object put before the first one makes a longer chain. *)
LEMMA ChainPut ==
  ASSUME NEW f, NEW a \in Nat, NEW first, NEW c, NEW d, NEW F, NEW e, IsChain(f, a, first, c, F, e),
         NEW o, o \notin F, d[o] = first, \A x \in F : d[x] = c[x]
  PROVE  \E g : IsChain(g, a + 1, o, d, F \cup {o}, e)
<1> DEFINE G == F \cup {o}
           g == [i \in 1 .. (a + 1) + 1 |-> IF i = 1 THEN o ELSE f[i - 1]]
<1>0. /\ f[1] = first /\ f[a + 1] = e
      /\ \A i \in 1 .. a : f[i] \in F /\ d[f[i]] = f[i + 1]
      /\ \A i \in 1 .. a + 1 : f[i] \in F \cup {e}
  BY DEF IsChain
<1>1. \A i \in 2 .. (a + 1) + 1 : i - 1 \in 1 .. a + 1 /\ g[i] = f[i - 1]
  OBVIOUS
<1>2. g[1] = o /\ g[(a + 1) + 1] = e
  BY <1>0
<1>3. g \in [1 .. (a + 1) + 1 -> G \cup {e}]
  BY <1>0
<1>4. ASSUME NEW i \in 1 .. a + 1
      PROVE  g[i] \in G /\ d[g[i]] = g[i + 1]
  <2>1. CASE i = 1
    <3>1. g[2] = f[1]
      BY <1>1
    <3> QED BY <1>0, <1>2, <2>1, <3>1
  <2>2. CASE i # 1
    <3>1. i - 1 \in 1 .. a /\ i + 1 \in 2 .. (a + 1) + 1 /\ i \in 2 .. (a + 1) + 1
      BY <2>2
    <3>2. g[i] = f[i - 1] /\ g[i + 1] = f[(i + 1) - 1] /\ (i + 1) - 1 = (i - 1) + 1
      BY <1>1, <3>1
    <3> HIDE DEF g
    <3> QED BY <1>0, <3>1, <3>2
  <2> QED BY <2>1, <2>2
<1>5. \A i, j \in 1 .. a + 1 : g[i] = g[j] => i = j
  <2> SUFFICES ASSUME NEW i \in 1 .. a + 1, NEW j \in 1 .. a + 1, g[i] = g[j] PROVE i = j
    OBVIOUS
  <2>1. \A k \in 2 .. a + 1 : k - 1 \in 1 .. a /\ g[k] = f[k - 1] /\ g[k] # o
    BY <1>0, <1>1
  <2> HIDE DEF g
  <2>2. CASE i = 1 \/ j = 1
    <3>1. i \in 2 .. a + 1 \/ j \in 2 .. a + 1 \/ i = j
      BY <2>2
    <3> QED BY <1>2, <2>1, <2>2, <3>1
  <2>3. CASE i # 1 /\ j # 1
    <3>1. i - 1 \in 1 .. a /\ j - 1 \in 1 .. a /\ f[i - 1] = f[j - 1]
      BY <2>1, <2>3
    <3>2. i - 1 = j - 1
      BY <3>1 DEF IsChain
    <3> QED BY <3>2
  <2> QED BY <2>2, <2>3
<1>6. ASSUME NEW x \in G
      PROVE  \E i \in 1 .. a + 1 : g[i] = x
  <2>1. CASE x = o
    BY <1>2, <2>1
  <2>2. CASE x # o
    <3>1. PICK i \in 1 .. a : f[i] = x
      BY <2>2 DEF IsChain
    <3>2. i + 1 \in 1 .. a + 1 /\ g[i + 1] = f[(i + 1) - 1] /\ (i + 1) - 1 = i
      BY <1>1
    <3> QED BY <3>1, <3>2
  <2> QED BY <2>1, <2>2
<1> HIDE DEF g, G
<1>7. IsChain(g, a + 1, o, d, G, e)
  BY <1>2, <1>3, <1>4, <1>5, <1>6 DEF IsChain
<1> QED BY <1>7 DEF G

=============================================================================
