----------------------------- MODULE MemoryProofs -----------------------------
(*****************************************************************************)
(* Proofs about the memory layout: what Range::exclude and Range::split      *)
(* compute, what the range set's operations keep, and what boot makes of the *)
(* memory that the device tree reports, for every machine, every device tree *)
(* and every size of the set.                                                *)
(*****************************************************************************)
EXTENDS MemoryConfig, SequenceTheorems, Induction, TLAPS

(* A range as the range set keeps it. *)
IsRange(r) ==
  /\ r.base \in Nat /\ r.size \in Nat \ {0}
  /\ End(r) <= UMAX

(* An area to be excluded. *)
IsArea(e) == e.base \in Nat /\ e.size \in Nat \ {0}

(* The addresses of the parts of a split or an exclusion. *)
CoverParts(parts) == UNION {Cover(parts[i]) : i \in DOMAIN parts}

(* One part covers what it covers. *)
LEMMA CoverOne == ASSUME NEW r PROVE CoverParts(<<r>>) = Cover(r)
BY DEF CoverParts

(* Two parts cover what either does. *)
LEMMA CoverTwo == ASSUME NEW r, NEW s PROVE CoverParts(<<r, s>>) = Cover(r) \cup Cover(s)
BY DEF CoverParts

(* No part covers nothing. *)
LEMMA CoverNone == CoverParts(<<>>) = {}
BY DEF CoverParts

(* The part below an exclusion has the addresses below its base. *)
LEMMA BelowCover ==
  ASSUME NEW r, NEW e, IsRange(r), IsArea(e), r.base <= e.base, e.base <= End(r)
  PROVE  Cover(Below(r, e)) = {a \in Cover(r) : a < e.base}
BY DEF Below, Cover, IsRange, IsArea, End

(* When e ends at usize::MAX the base wraps, and the part above is empty. *)
LEMMA AboveCover ==
  ASSUME NEW r, NEW e, IsRange(r), IsArea(e), End(e) <= End(r), r.base <= End(e)
  PROVE  Cover(Above(r, e)) = {a \in Cover(r) : a > End(e)}
<1>1. Above(r, e) = [tag |-> r.tag, base |-> (End(e) + 1) % (UMAX + 1), size |-> End(r) - End(e)]
  BY DEF Above
<1>2. /\ r.base \in Nat /\ r.size \in Nat /\ r.size > 0
      /\ e.base \in Nat /\ e.size \in Nat /\ e.size > 0
      /\ End(r) = r.base + (r.size - 1) /\ End(e) = e.base + (e.size - 1)
      /\ End(r) <= UMAX /\ End(e) <= UMAX /\ UMAX \in Nat
  BY UmaxAssumption DEF IsRange, IsArea, End
<1>3. CASE End(e) = UMAX
  <2>1. End(r) - End(e) = 0 BY <1>2, <1>3
  <2>2. (End(e) + 1) % (UMAX + 1) = 0 BY <1>2, <1>3
  <2>3. Cover(Above(r, e)) = {} BY <1>1, <2>1, <2>2 DEF Cover
  <2>4. \A a \in Cover(r) : ~(a > End(e)) BY <1>2, <1>3 DEF Cover
  <2> QED BY <2>3, <2>4
<1>4. CASE End(e) < UMAX
  <2>1. (End(e) + 1) % (UMAX + 1) = End(e) + 1 BY <1>2, <1>4
  <2> QED BY <1>1, <1>2, <2>1 DEF Cover
<1> QED BY <1>2, <1>3, <1>4

(*****************************************************************************)
(* Range::exclude leaves exactly the addresses of the range that are not     *)
(* excluded, whichever way the two overlap and also when the exclusion ends  *)
(* at usize::MAX, where the base of the upper part wraps.                    *)
(*****************************************************************************)
THEOREM ExcludeExact ==
  ASSUME NEW r, NEW e, IsRange(r), IsArea(e)
  PROVE  CoverParts(Exclude(r, e)) = Cover(r) \ Cover(e)
<1>1. /\ r.base \in Nat /\ r.size \in Nat /\ r.size > 0
      /\ e.base \in Nat /\ e.size \in Nat /\ e.size > 0
      /\ End(r) = r.base + (r.size - 1) /\ End(e) = e.base + (e.size - 1)
      /\ Cover(r) = r.base .. End(r) /\ Cover(e) = e.base .. End(e)
  BY DEF IsRange, IsArea, End, Cover
<1>2. CASE Cmp(r, e) \in {"Less", "Greater"}
  <2>1. Exclude(r, e) = <<r>> BY <1>2 DEF Exclude
  <2>2. End(r) < e.base \/ End(e) < r.base BY <1>2 DEF Cmp
  <2>3. \A a \in Cover(r) : a \notin Cover(e) BY <1>1, <2>2
  <2>4. CoverParts(Exclude(r, e)) = Cover(r) BY <2>1, CoverOne
  <2> QED BY <2>3, <2>4
<1>3. CASE Cmp(r, e) \in {"Equal", "Subset"}
  <2>1. Exclude(r, e) = <<>> BY <1>3 DEF Exclude
  <2>2. e.base <= r.base /\ End(r) <= End(e) BY <1>1, <1>3 DEF Cmp
  <2> QED BY <1>1, <2>1, <2>2, CoverNone
<1>4. CASE Cmp(r, e) = "LessEqual"
  <2>1. Exclude(r, e) = <<Below(r, e)>> BY <1>4 DEF Exclude
  <2>2. r.base < e.base /\ e.base <= End(r) /\ End(r) <= End(e) BY <1>1, <1>4 DEF Cmp
  <2>3. Cover(Below(r, e)) = {a \in Cover(r) : a < e.base} BY <1>1, <2>2, BelowCover
  <2> QED BY <1>1, <2>1, <2>2, <2>3, CoverOne
<1>5. CASE Cmp(r, e) = "GreaterEqual"
  <2>1. Exclude(r, e) = <<Above(r, e)>> BY <1>5 DEF Exclude
  <2>2. e.base <= r.base /\ r.base <= End(e) /\ End(e) <= End(r) BY <1>1, <1>5 DEF Cmp
  <2>3. Cover(Above(r, e)) = {a \in Cover(r) : a > End(e)} BY <2>2, AboveCover
  <2> QED BY <1>1, <2>1, <2>2, <2>3, CoverOne
<1>6. CASE Cmp(r, e) = "Superset"
  <2>1. Exclude(r, e) = <<Below(r, e), Above(r, e)>> BY <1>6 DEF Exclude
  <2>2. r.base <= e.base /\ e.base <= End(r) /\ r.base <= End(e) /\ End(e) <= End(r)
    BY <1>1, <1>6 DEF Cmp
  <2>3. Cover(Below(r, e)) = {a \in Cover(r) : a < e.base} BY <2>2, BelowCover
  <2>4. Cover(Above(r, e)) = {a \in Cover(r) : a > End(e)} BY <2>2, AboveCover
  <2> QED BY <1>1, <2>1, <2>2, <2>3, <2>4, CoverTwo
<1>7. Cmp(r, e) \in {"Less", "Greater", "Equal", "Subset", "LessEqual", "GreaterEqual", "Superset"}
  BY DEF Cmp
<1> QED BY <1>2, <1>3, <1>4, <1>5, <1>6, <1>7

(*****************************************************************************)
(* Range::split loses no address and puts each on its side of the split      *)
(* point: the zone tagger relies on it for the two memory zones.             *)
(*****************************************************************************)
THEOREM SplitExact ==
  ASSUME NEW r, NEW at \in Int, IsRange(r)
  PROVE  /\ CoverParts(Split(r, at).low) = {a \in Cover(r) : a < at}
         /\ CoverParts(Split(r, at).high) = {a \in Cover(r) : a >= at}
<1>1. /\ r.base \in Nat /\ r.size \in Nat /\ r.size > 0
      /\ End(r) = r.base + (r.size - 1) /\ Cover(r) = r.base .. End(r)
  BY DEF IsRange, End, Cover
<1>2. CASE at <= r.base
  <2>1. Split(r, at).low = <<>> /\ Split(r, at).high = <<r>> BY <1>2 DEF Split
  <2> QED BY <1>1, <1>2, <2>1, CoverOne, CoverNone
<1>3. CASE ~(at <= r.base) /\ at > End(r)
  <2>1. Split(r, at).low = <<r>> /\ Split(r, at).high = <<>> BY <1>3 DEF Split
  <2> QED BY <1>1, <1>3, <2>1, CoverOne, CoverNone
<1>4. CASE ~(at <= r.base) /\ ~(at > End(r))
  <2> DEFINE l == [tag |-> r.tag, base |-> r.base, size |-> at - r.base]
             h == [tag |-> r.tag, base |-> at, size |-> End(r) - at + 1]
  <2>1. Split(r, at).low = <<l>> /\ Split(r, at).high = <<h>> BY <1>4 DEF Split
  <2>4. Cover(l) = {a \in Cover(r) : a < at} BY <1>1, <1>4 DEF Cover
  <2>5. Cover(h) = {a \in Cover(r) : a >= at} BY <1>1, <1>4 DEF Cover
  <2> QED BY <2>1, <2>4, <2>5, CoverOne
<1> QED BY <1>2, <1>3, <1>4


-----------------------------------------------------------------------------
(*****************************************************************************)
(* Sequences.                                                                *)
(*****************************************************************************)

(* FlattenSeq puts the sequences one behind the other. *)
LEMMA FlattenSteps ==
  ASSUME NEW S, NEW q \in Seq(Seq(S))
  PROVE  \E f \in [0 .. Len(q) -> Seq(S)] :
           /\ f[0] = <<>> /\ FlattenSeq(q) = f[Len(q)]
           /\ \A n \in 1 .. Len(q) : f[n] = f[n - 1] \o q[n]
<1> DEFINE L == Len(q)
<1>0. L \in Nat /\ \A n \in 1 .. L : q[n] \in Seq(S)
  OBVIOUS
<1> SUFFICES \E f \in [0 .. L -> Seq(S)] :
               /\ f[0] = <<>> /\ FlattenSeq(q) = f[L]
               /\ \A n \in 1 .. L : f[n] = f[n - 1] \o q[n]
  OBVIOUS
<1>a. L = Len(q)
  OBVIOUS
<1> HIDE DEF L
<1>1. CASE L = 0
  <2>1. q = <<>>
    BY <1>1, <1>a
  <2>2. FlattenSeq(q) = <<>>
    BY <1>1, <1>a, <2>1 DEF FlattenSeq
  <2> DEFINE f == [i \in 0 .. 0 |-> <<>>]
  <2>3. f \in [0 .. L -> Seq(S)] /\ f[0] = <<>> /\ FlattenSeq(q) = f[L]
    BY <1>1, <2>2
  <2>4. \A n \in 1 .. L : f[n] = f[n - 1] \o q[n]
    BY <1>1
  <2> HIDE DEF f
  <2> QED BY <2>3, <2>4
<1>2. CASE L > 0
  <2> DEFINE G == [n \in 1 .. L |-> [v \in Seq(S) |-> v \o q[n]]]
             Eq(g) == g = [i \in 1 .. L |-> IF i = 1 THEN q[i] ELSE g[i - 1] \o q[i]]
             fl == CHOOSE g : Eq(g)
  <2>1. G \in [1 .. L -> [Seq(S) -> Seq(S)]] /\ <<>> \in Seq(S)
    BY <1>0
  <2>2. \A v \in Seq(S), n \in 1 .. L : G[n][v] = v \o q[n]
    OBVIOUS
  <2>3. \E f \in [0 .. L -> Seq(S)] : f[0] = <<>> /\ \A n \in 1 .. L : f[n] = G[n][f[n - 1]]
    <3> DEFINE V == Seq(S)
               v0 == <<>>
    <3>1. v0 \in V /\ G \in [1 .. L -> [V -> V]]
      BY <2>1
    <3> HIDE DEF G, V, v0
    <3>2. \E f : IsLoop(f, V, v0, L, G)
      BY <1>0, <3>1, LoopExists
    <3> QED BY <3>2 DEF V, v0, IsLoop
  <2>4. PICK f \in [0 .. L -> Seq(S)] : f[0] = <<>> /\ \A n \in 1 .. L : f[n] = G[n][f[n - 1]]
    BY <2>3
  <2>5. \A n \in 1 .. L : f[n] = f[n - 1] \o q[n]
    <3> SUFFICES ASSUME NEW n \in 1 .. L PROVE f[n] = f[n - 1] \o q[n]
      OBVIOUS
    <3>1. f[n - 1] \in Seq(S)
      BY <1>0
    <3> HIDE DEF G
    <3> QED BY <2>2, <2>4, <3>1
  <2> HIDE DEF G
  <2>6. f[1] = q[1]
    <3>1. 1 \in 1 .. L /\ 1 - 1 = 0
      BY <1>0, <1>2
    <3>2. q[1] \in Seq(S)
      BY <1>0, <3>1
    <3>3. f[1] = f[0] \o q[1]
      BY <2>5, <3>1
    <3>4. <<>> \o q[1] = q[1]
      BY <3>2
    <3> QED BY <2>4, <3>3, <3>4
  <2> DEFINE w == [i \in 1 .. L |-> f[i]]
  <2>7. Eq(w)
    <3>1. ASSUME NEW i \in 1 .. L PROVE w[i] = IF i = 1 THEN q[i] ELSE w[i - 1] \o q[i]
      <4>1. CASE i = 1
        BY <2>6, <4>1
      <4>2. CASE i # 1
        <5>1. i - 1 \in 1 .. L
          BY <1>0, <4>2
        <5> QED BY <2>5, <4>2, <5>1
      <4> QED BY <4>1, <4>2
    <3>2. w = [i \in 1 .. L |-> IF i = 1 THEN q[i] ELSE w[i - 1] \o q[i]]
      BY <3>1
    <3> QED BY <3>2
  <2>8. Eq(fl)
    <3> HIDE DEF w, Eq
    <3> QED BY <2>7
  <2>9. FlattenSeq(q) = fl[L]
    BY <1>2, <1>a DEF FlattenSeq
  <2> HIDE DEF fl
  <2>10. \A i \in 1 .. L : fl[i] = IF i = 1 THEN q[i] ELSE fl[i - 1] \o q[i]
    BY <2>8
  <2> HIDE DEF Eq
  <2>11. \A n \in Nat : n \in {k \in Nat : k \in 1 .. L => fl[k] = f[k]}
    <3> DEFINE T == {k \in Nat : k \in 1 .. L => fl[k] = f[k]}
    <3>1. 0 \in T
      BY <1>0
    <3>2. ASSUME NEW k \in Nat, k \in T PROVE k + 1 \in T
      <4> SUFFICES ASSUME k + 1 \in 1 .. L PROVE fl[k + 1] = f[k + 1]
        OBVIOUS
      <4>1. CASE k = 0
        BY <2>6, <2>10, <4>1
      <4>2. CASE k > 0
        <5>1. k \in 1 .. L /\ (k + 1) - 1 = k /\ k + 1 # 1
          BY <1>0, <4>2
        <5>2. fl[k] = f[k]
          BY <3>2, <5>1
        <5>3. fl[k + 1] = fl[k] \o q[k + 1]
          BY <2>10, <5>1
        <5>4. f[k + 1] = f[k] \o q[k + 1]
          BY <2>5, <5>1
        <5> QED BY <5>2, <5>3, <5>4
      <4> QED BY <4>1, <4>2
    <3> HIDE DEF T
    <3>3. \A n \in Nat : n \in T
      BY <3>1, <3>2, NatSetInduction
    <3> QED BY <3>3 DEF T
  <2>12. fl[L] = f[L]
    <3>1. L \in {k \in Nat : k \in 1 .. L => fl[k] = f[k]}
      BY <1>0, <2>11
    <3> QED BY <1>0, <1>2, <3>1
  <2> QED BY <2>4, <2>5, <2>9, <2>12
<1>3. L = 0 \/ L > 0
  BY <1>0
<1> QED BY <1>1, <1>2, <1>3


(* The pages of a sequence of ranges are those of its parts ... *)
LEMMA CoverAllParts == ASSUME NEW s PROVE CoverAll(s) = CoverParts(s)
BY DEF CoverAll, CoverParts, ToSet

(* ... each of them a page of one part ... *)
LEMMA InCoverAll ==
  ASSUME NEW S, NEW s \in Seq(S), NEW a
  PROVE  a \in CoverAll(s) <=> \E i \in 1 .. Len(s) : a \in Cover(s[i])
BY DEF CoverAll, ToSet

(* ... and those of two sequences are those of either. *)
LEMMA CoverConcat ==
  ASSUME NEW S, NEW s \in Seq(S), NEW t \in Seq(S)
  PROVE  CoverAll(s \o t) = CoverAll(s) \cup CoverAll(t)
<1>1. s \o t \in Seq(S)
  OBVIOUS
<1>2. ASSUME NEW a, a \in CoverAll(s \o t) PROVE a \in CoverAll(s) \cup CoverAll(t)
  <2>1. PICK i \in 1 .. Len(s \o t) : a \in Cover((s \o t)[i])
    BY <1>1, <1>2, InCoverAll
  <2>2. CASE i <= Len(s)
    <3>1. (s \o t)[i] = s[i] /\ i \in 1 .. Len(s)
      BY <2>2
    <3> QED BY <2>1, <3>1, InCoverAll
  <2>3. CASE i > Len(s)
    <3>1. (s \o t)[i] = t[i - Len(s)] /\ i - Len(s) \in 1 .. Len(t)
      BY <2>3
    <3> QED BY <2>1, <3>1, InCoverAll
  <2> QED BY <2>2, <2>3
<1>3. ASSUME NEW a, a \in CoverAll(s) PROVE a \in CoverAll(s \o t)
  <2>1. PICK i \in 1 .. Len(s) : a \in Cover(s[i])
    BY <1>3, InCoverAll
  <2>2. (s \o t)[i] = s[i] /\ i \in 1 .. Len(s \o t)
    OBVIOUS
  <2> QED BY <1>1, <2>1, <2>2, InCoverAll
<1>4. ASSUME NEW a, a \in CoverAll(t) PROVE a \in CoverAll(s \o t)
  <2>1. PICK i \in 1 .. Len(t) : a \in Cover(t[i])
    BY <1>4, InCoverAll
  <2>2. (s \o t)[i + Len(s)] = t[i] /\ i + Len(s) \in 1 .. Len(s \o t)
    OBVIOUS
  <2> QED BY <1>1, <2>1, <2>2, InCoverAll
<1> QED BY <1>2, <1>3, <1>4

(* What InsertAt makes of a sequence. *)
LEMMA InsertedAt ==
  ASSUME NEW S, NEW s \in Seq(S), NEW e \in S, NEW i \in 1 .. Len(s) + 1
  PROVE  /\ InsertAt(s, i, e) \in Seq(S) /\ Len(InsertAt(s, i, e)) = Len(s) + 1
         /\ \A j \in 1 .. Len(s) + 1 :
              InsertAt(s, i, e)[j] = IF j < i THEN s[j] ELSE IF j = i THEN e ELSE s[j - 1]
<1> DEFINE a == SubSeq(s, 1, i - 1)
           b == a \o <<e>>
           c == SubSeq(s, i, Len(s))
<1>1. a \in Seq(S) /\ Len(a) = i - 1 /\ \A j \in 1 .. i - 1 : a[j] = s[j]
  OBVIOUS
<1>2. c \in Seq(S) /\ Len(c) = Len(s) - i + 1 /\ \A j \in 1 .. Len(s) - i + 1 : c[j] = s[i + j - 1]
  OBVIOUS
<1> HIDE DEF a, c
<1>3. b \in Seq(S) /\ Len(b) = i /\ \A j \in 1 .. i : b[j] = IF j < i THEN s[j] ELSE e
  BY <1>1
<1> HIDE DEF b
<1>4. b \o c \in Seq(S) /\ Len(b \o c) = Len(s) + 1
  BY <1>2, <1>3
<1>5. ASSUME NEW j \in 1 .. Len(s) + 1
      PROVE  (b \o c)[j] = IF j < i THEN s[j] ELSE IF j = i THEN e ELSE s[j - 1]
  <2>1. CASE j <= i
    BY <1>2, <1>3, <2>1
  <2>2. CASE j > i
    <3>1. (b \o c)[j] = c[j - i] /\ j - i \in 1 .. Len(s) - i + 1
      BY <1>2, <1>3, <2>2
    <3>2. c[j - i] = s[i + (j - i) - 1] /\ i + (j - i) - 1 = j - 1
      BY <1>2, <3>1
    <3> QED BY <2>2, <3>1, <3>2
  <2>3. j <= i \/ j > i
    OBVIOUS
  <2> QED BY <2>1, <2>2, <2>3, Zenon
<1>6. InsertAt(s, i, e) = b \o c
  BY DEF InsertAt, a, b, c
<1> QED BY <1>4, <1>5, <1>6

-----------------------------------------------------------------------------
(*****************************************************************************)
(* Range sets.                                                               *)
(*****************************************************************************)

(* A range of a configuration, which may have become empty, and one that is  *)
(* not empty and lies on its zone's side of address h.                       *)
ZoneRange == [tag : Zone, base : Nat, size : Nat]

GoodRange(r, h) ==
  /\ r \in ZoneRange /\ IsRange(r)
  /\ r.tag = "Linear" => End(r) < h
  /\ r.tag = "High" => r.base >= h

(* A range set that insert_range can make, and one that trim_ranges made of  *)
(* it.                                                                       *)
IsConfig(set, h) ==
  /\ set \in Seq(ZoneRange)
  /\ \A i \in 1 .. Len(set) : GoodRange(set[i], h)
  /\ \A i, j \in 1 .. Len(set) : i < j => set[i].base <= set[j].base

Apart(set) == \A i, j \in 1 .. Len(set) : i < j => End(set[i]) < set[j].base

(* insert_range finds the place behind the last range with a base that is    *)
(* not larger, keeps the order and adds the pages of the range.              *)
LEMMA InsertKeeps ==
  ASSUME NEW set, NEW h \in Int, NEW r, IsConfig(set, h), GoodRange(r, h), Len(set) < SET_SIZE
  PROVE  /\ IsConfig(InsertRange(set, r), h)
         /\ Len(InsertRange(set, r)) = Len(set) + 1
         /\ CoverAll(InsertRange(set, r)) = CoverAll(set) \cup Cover(r)
<1> DEFINE L == Len(set)
           At(i) == /\ \A j \in 1 .. i - 1 : set[j].base <= r.base
                    /\ i = L + 1 \/ r.base < set[i].base
           ins == CHOOSE i \in 1 .. L + 1 : At(i)
           new == InsertRange(set, r)
<1>0. set \in Seq(ZoneRange) /\ L \in Nat /\ r \in ZoneRange /\ L = Len(set)
  BY DEF IsConfig, GoodRange
<1>1. Insertable(set, r)
  <2>1. r.base \in Nat /\ r.size \in Nat /\ r.size # 0 /\ r.base + (r.size - 1) <= UMAX /\ UMAX \in Nat
    BY UmaxAssumption DEF GoodRange, IsRange, End
  <2> QED BY <2>1 DEF Insertable
<1>2. \A i \in 1 .. L : set[i] \in ZoneRange /\ set[i].base \in Nat
  <2>1. \A i \in 1 .. L : set[i] \in ZoneRange
    BY <1>0
  <2> QED BY <2>1 DEF ZoneRange
<1>3. \E i \in 1 .. L + 1 : At(i)
  <2> DEFINE S == {i \in 1 .. L + 1 : i = L + 1 \/ r.base < set[i].base}
  <2>1. S \in SUBSET Nat /\ S # {}
    BY <1>0
  <2>2. PICK m \in S : \A n \in S : m <= n
    <3> HIDE DEF S
    <3> QED BY <2>1, NatMin
  <2>3. ASSUME NEW j \in 1 .. m - 1 PROVE set[j].base <= r.base
    <3>1. j \in 1 .. L /\ m \in 1 .. L + 1 /\ j < m
      BY <1>0
    <3>2. j \notin S
      BY <2>2, <3>1
    <3>3. ~(r.base < set[j].base)
      BY <3>1, <3>2
    <3>4. r.base \in Nat /\ set[j].base \in Nat
      BY <1>0, <1>2, <3>1 DEF ZoneRange
    <3> QED BY <3>3, <3>4
  <2>4. At(m)
    BY <2>3
  <2> QED BY <2>4
<1>4. ins \in 1 .. L + 1 /\ At(ins)
  <2> HIDE DEF At
  <2> QED BY <1>3
<1>5. new = InsertAt(set, ins, r)
  BY <1>1 DEF InsertRange
<1> HIDE DEF new, ins, L
<1>6. /\ new \in Seq(ZoneRange) /\ Len(new) = L + 1
      /\ \A j \in 1 .. L + 1 : new[j] = IF j < ins THEN set[j] ELSE IF j = ins THEN r ELSE set[j - 1]
  <2> DEFINE t == InsertAt(set, ins, r)
  <2>1. ins \in 1 .. Len(set) + 1
    BY <1>0, <1>4
  <2>2. /\ t \in Seq(ZoneRange) /\ Len(t) = Len(set) + 1
        /\ \A j \in 1 .. Len(set) + 1 : t[j] = IF j < ins THEN set[j] ELSE IF j = ins THEN r ELSE set[j - 1]
    <3>1. set \in Seq(ZoneRange) /\ r \in ZoneRange
      BY <1>0
    <3> QED BY <2>1, <3>1, InsertedAt
  <2> HIDE DEF t
  <2> QED BY <1>0, <1>5, <2>2 DEF t
<1>a. \A j \in 1 .. L + 1 : j > ins => j - 1 \in 1 .. L /\ new[j] = set[j - 1]
  <2> SUFFICES ASSUME NEW j \in 1 .. L + 1, j > ins PROVE j - 1 \in 1 .. L /\ new[j] = set[j - 1]
    OBVIOUS
  <2>1. j - 1 \in 1 .. L /\ ~(j < ins) /\ j # ins
    BY <1>0, <1>4
  <2>2. new[j] = IF j < ins THEN set[j] ELSE IF j = ins THEN r ELSE set[j - 1]
    BY <1>6
  <2> QED BY <2>1, <2>2
<1>7. ASSUME NEW j \in 1 .. L + 1 PROVE GoodRange(new[j], h)
  <2>1. \A i \in 1 .. L : GoodRange(set[i], h)
    BY DEF IsConfig, L
  <2>2. CASE j < ins
    <3>1. j \in 1 .. L /\ new[j] = set[j]
      BY <1>0, <1>4, <1>6, <2>2
    <3> QED BY <2>1, <3>1
  <2>3. CASE j = ins
    <3>1. new[j] = r
      BY <1>4, <1>6, <2>3
    <3> QED BY <3>1
  <2>4. CASE j > ins
    <3>1. j - 1 \in 1 .. L /\ new[j] = set[j - 1]
      BY <1>a, <2>4
    <3> QED BY <2>1, <3>1
  <2> QED BY <1>0, <1>4, <2>2, <2>3, <2>4
<1>8. \A i, j \in 1 .. L : i < j => set[i].base <= set[j].base
  BY DEF IsConfig, L
<1>9. \A j \in 1 .. L : IF j < ins THEN set[j].base <= r.base ELSE r.base < set[j].base
  <2> SUFFICES ASSUME NEW j \in 1 .. L
               PROVE  IF j < ins THEN set[j].base <= r.base ELSE r.base < set[j].base
    OBVIOUS
  <2>1. CASE j < ins
    BY <1>0, <1>4, <2>1
  <2>2. CASE j >= ins
    <3>1. ins \in 1 .. L /\ r.base < set[ins].base
      BY <1>0, <1>4, <2>2
    <3>2. set[ins].base <= set[j].base
      BY <1>0, <1>2, <1>8, <2>2, <3>1
    <3>3. r.base \in Nat /\ set[ins].base \in Nat /\ set[j].base \in Nat
      BY <1>0, <1>2, <3>1 DEF ZoneRange
    <3> QED BY <1>4, <2>2, <3>1, <3>2, <3>3
  <2> QED BY <1>4, <2>1, <2>2
<1>10. ASSUME NEW i \in 1 .. L + 1, NEW j \in 1 .. L + 1, i < j PROVE new[i].base <= new[j].base
  <2>0. r.base \in Nat
    BY <1>0 DEF ZoneRange
  <2>1. CASE j < ins
    BY <1>0, <1>4, <1>6, <1>8, <1>10, <2>1
  <2>2. CASE j = ins
    BY <1>0, <1>4, <1>6, <1>9, <1>10, <2>2
  <2>3. CASE i < ins /\ j > ins
    <3>1. i \in 1 .. L /\ j - 1 \in 1 .. L /\ ~(j - 1 < ins) /\ new[i] = set[i] /\ new[j] = set[j - 1]
      BY <1>0, <1>4, <1>6, <1>10, <2>3
    <3>2. set[i].base <= r.base /\ r.base < set[j - 1].base /\ set[i].base \in Nat /\ set[j - 1].base \in Nat
      BY <1>2, <1>9, <2>3, <3>1
    <3> QED BY <2>0, <3>1, <3>2
  <2>4. CASE i = ins
    <3>1. j - 1 \in 1 .. L /\ ~(j - 1 < ins) /\ new[i] = r /\ new[j] = set[j - 1]
      BY <1>0, <1>4, <1>6, <1>10, <2>4
    <3>2. r.base < set[j - 1].base /\ set[j - 1].base \in Nat
      BY <1>2, <1>9, <3>1
    <3> QED BY <2>0, <3>1, <3>2
  <2>5. CASE i > ins
    <3>1. i - 1 \in 1 .. L /\ j - 1 \in 1 .. L /\ i - 1 < j - 1 /\ new[i] = set[i - 1] /\ new[j] = set[j - 1]
      BY <1>0, <1>4, <1>6, <1>10, <2>5
    <3> QED BY <1>8, <3>1
  <2> QED BY <1>0, <1>4, <1>10, <2>1, <2>2, <2>3, <2>4, <2>5
<1>11. IsConfig(new, h)
  BY <1>6, <1>7, <1>10 DEF IsConfig
<1>12. ASSUME NEW a, a \in CoverAll(new) PROVE a \in CoverAll(set) \cup Cover(r)
  <2>1. PICK j \in 1 .. L + 1 : a \in Cover(new[j])
    BY <1>6, <1>12, InCoverAll
  <2>2. CASE j < ins
    <3>1. j \in 1 .. Len(set) /\ new[j] = set[j]
      BY <1>0, <1>4, <1>6, <2>2
    <3> QED BY <1>0, <2>1, <3>1, InCoverAll
  <2>3. CASE j = ins
    BY <1>4, <1>6, <2>1, <2>3
  <2>4. CASE j > ins
    <3>1. j - 1 \in 1 .. L /\ new[j] = set[j - 1]
      BY <1>a, <2>4
    <3> QED BY <1>0, <2>1, <3>1, InCoverAll
  <2> QED BY <1>0, <1>4, <2>2, <2>3, <2>4
<1>13. ASSUME NEW a, a \in CoverAll(set) PROVE a \in CoverAll(new)
  <2>1. PICK j \in 1 .. L : a \in Cover(set[j])
    BY <1>0, <1>13, InCoverAll
  <2>2. CASE j < ins
    <3>1. j \in 1 .. Len(new) /\ new[j] = set[j]
      BY <1>0, <1>4, <1>6, <2>2
    <3> QED BY <1>6, <2>1, <3>1, InCoverAll
  <2>3. CASE j >= ins
    <3>1. j + 1 \in 1 .. Len(new) /\ new[j + 1] = set[(j + 1) - 1] /\ (j + 1) - 1 = j
      BY <1>0, <1>4, <1>6, <2>3
    <3> QED BY <1>6, <2>1, <3>1, InCoverAll
  <2> QED BY <1>4, <2>2, <2>3
<1>14. Cover(r) \subseteq CoverAll(new)
  <2>1. ins \in 1 .. Len(new) /\ new[ins] = r
    BY <1>4, <1>6
  <2> QED BY <1>6, <2>1, InCoverAll
<1> QED BY <1>0, <1>6, <1>11, <1>12, <1>13, <1>14 DEF new


(* A count that stops at the size of the set. *)
Clip(n) == IF n < SET_SIZE THEN n ELSE SET_SIZE

(* insert_range on a set that may be full, which it leaves alone. *)
LEMMA InsertOrFull ==
  ASSUME NEW set, NEW h \in Int, NEW r, IsConfig(set, h), GoodRange(r, h), Len(set) <= SET_SIZE
  PROVE  /\ IsConfig(InsertRange(set, r), h)
         /\ Len(InsertRange(set, r)) = Clip(Len(set) + 1)
         /\ CoverAll(InsertRange(set, r)) =
              CoverAll(set) \cup (IF Len(set) < SET_SIZE THEN Cover(r) ELSE {})
<1>0. Len(set) \in Nat /\ SET_SIZE \in Nat
  BY SetSizeAssumption DEF IsConfig
<1>1. CASE Len(set) < SET_SIZE
  <2>1. Clip(Len(set) + 1) = Len(set) + 1
    BY <1>0, <1>1 DEF Clip
  <2> QED BY <1>1, <2>1, InsertKeeps
<1>2. CASE ~(Len(set) < SET_SIZE)
  <2>1. InsertRange(set, r) = set
    BY <1>2 DEF InsertRange, Insertable
  <2>2. Clip(Len(set) + 1) = Len(set)
    BY <1>0, <1>2 DEF Clip
  <2> QED BY <1>2, <2>1, <2>2
<1> QED BY <1>1, <1>2

(* The bounds of high memory on every machine. *)
LEMMA HighMemBase ==
  ASSUME machine \in Machines
  PROVE  /\ high_mem_base \in 0 .. UMAX + 1
         /\ IF machine.high_mem_size = 0 THEN high_mem_base = UMAX + 1 ELSE high_mem_base <= UMAX
<1>1. machine.high_mem_size \in 0 .. UMAX - virtual_base /\ virtual_base \in 1 .. UMAX /\ UMAX \in Nat
  BY UmaxAssumption, MemoryAssumption
<1> QED BY <1>1 DEF high_mem_base

(* handle_range puts each side of the split into its zone: the set stays    *)
(* sorted, and the pages it takes are those the ghost counts as reported,   *)
(* also when the set is full after the first part or before it.             *)
LEMMA HandleKeeps ==
  ASSUME machine \in Machines, NEW set, IsConfig(set, high_mem_base),
         NEW used \in Nat, Len(set) = Clip(used),
         NEW base \in Nat, NEW size \in Nat \ {0}, base + size - 1 <= UMAX
  PROVE  LET new == HandleRange(set, base, size)
             ranges == IF base < high_mem_base /\ base + size > high_mem_base THEN 2 ELSE 1
         IN /\ IsConfig(new, high_mem_base) /\ Len(new) = Clip(used + ranges)
            /\ CoverAll(new) = CoverAll(set) \cup Reportable(base, size, used)
<1> DEFINE h == high_mem_base
           new == HandleRange(set, base, size)
           ranges == IF base < h /\ base + size > h THEN 2 ELSE 1
           low == [tag |-> "Linear", base |-> base, size |-> size]
           high == [tag |-> "High", base |-> base, size |-> size]
           lower == [tag |-> "Linear", base |-> base, size |-> h - base]
           upper == [tag |-> "High", base |-> h, size |-> base + size - h]
<1>0. h \in Nat /\ UMAX \in Nat /\ SET_SIZE \in Nat \ {0} /\ Len(set) <= SET_SIZE /\ Len(set) \in Nat
  BY HighMemBase, UmaxAssumption, SetSizeAssumption DEF Clip, IsConfig
<1>a. h = high_mem_base
  OBVIOUS
<1> HIDE DEF h
<1>1. CASE h <= base
  <2>1. new = InsertRange(set, high)
    BY <1>0, <1>1, <1>a DEF HandleRange, Split, Area
  <2>2. GoodRange(high, h)
    BY <1>0, <1>1 DEF GoodRange, ZoneRange, Zone, IsRange, End
  <2>3. Cover(high) = base .. base + size - 1
    BY DEF Cover
  <2>4. ranges = 1
    BY <1>0, <1>1
  <2>5. Reportable(base, size, used) = IF Len(set) < SET_SIZE THEN Cover(high) ELSE {}
    BY <1>0, <1>1, <1>a, <2>3 DEF Reportable, Clip
  <2>6. Clip(Len(set) + 1) = Clip(used + 1)
    BY <1>0 DEF Clip
  <2> HIDE DEF high, new
  <2>7. /\ IsConfig(new, h) /\ Len(new) = Clip(Len(set) + 1)
        /\ CoverAll(new) = CoverAll(set) \cup (IF Len(set) < SET_SIZE THEN Cover(high) ELSE {})
    BY <1>0, <1>a, <2>1, <2>2, InsertOrFull
  <2> QED BY <1>a, <2>4, <2>5, <2>6, <2>7 DEF new
<1>2. CASE h > base + size - 1
  <2>1. new = InsertRange(set, low)
    BY <1>0, <1>2, <1>a DEF HandleRange, Split, Area, End
  <2>2. GoodRange(low, h)
    BY <1>0, <1>2 DEF GoodRange, ZoneRange, Zone, IsRange, End
  <2>3. Cover(low) = base .. base + size - 1
    BY DEF Cover
  <2>4. ranges = 1
    BY <1>0, <1>2
  <2>5. Reportable(base, size, used) = IF Len(set) < SET_SIZE THEN Cover(low) ELSE {}
    <3>1. Min({base + size, h}) = base + size
      <4>1. base + size <= h
        BY <1>0, <1>2
      <4> QED BY <1>0, <4>1 DEF Min
    <3> QED BY <1>0, <1>2, <1>a, <2>3, <3>1 DEF Reportable, Clip
  <2>6. Clip(Len(set) + 1) = Clip(used + 1)
    BY <1>0 DEF Clip
  <2> HIDE DEF low, new
  <2>7. /\ IsConfig(new, h) /\ Len(new) = Clip(Len(set) + 1)
        /\ CoverAll(new) = CoverAll(set) \cup (IF Len(set) < SET_SIZE THEN Cover(low) ELSE {})
    BY <1>0, <1>a, <2>1, <2>2, InsertOrFull
  <2> QED BY <1>a, <2>4, <2>5, <2>6, <2>7 DEF new
<1>3. CASE base < h /\ h <= base + size - 1
  <2> DEFINE mid == InsertRange(set, lower)
  <2>1. new = InsertRange(mid, upper)
    <3>1. Split(Area(base, size), h) =
            [low |-> <<[tag |-> "Invalid", base |-> base, size |-> h - base]>>,
             high |-> <<[tag |-> "Invalid", base |-> h, size |-> base + size - h]>>]
      BY <1>0, <1>3 DEF Split, Area, End
    <3> QED BY <1>a, <3>1 DEF HandleRange
  <2>2. GoodRange(lower, h) /\ GoodRange(upper, h)
    BY <1>0, <1>3 DEF GoodRange, ZoneRange, Zone, IsRange, End
  <2>3. Cover(lower) = base .. h - 1 /\ Cover(upper) = h .. base + size - 1
    BY <1>0, <1>3 DEF Cover
  <2>4. ranges = 2
    BY <1>0, <1>3
  <2> HIDE DEF lower, upper, mid, new
  <2>5. /\ IsConfig(mid, h) /\ Len(mid) = Clip(Len(set) + 1)
        /\ CoverAll(mid) = CoverAll(set) \cup (IF Len(set) < SET_SIZE THEN Cover(lower) ELSE {})
    BY <1>0, <1>a, <2>2, InsertOrFull DEF mid
  <2>6. Len(mid) \in Nat /\ Len(mid) <= SET_SIZE
    BY <1>0, <2>5 DEF Clip
  <2>7. /\ IsConfig(new, h) /\ Len(new) = Clip(Len(mid) + 1)
        /\ CoverAll(new) = CoverAll(mid) \cup (IF Len(mid) < SET_SIZE THEN Cover(upper) ELSE {})
    BY <1>0, <2>1, <2>2, <2>5, <2>6, InsertOrFull
  <2>8. Clip(Len(mid) + 1) = Clip(used + 2)
    BY <1>0, <2>5 DEF Clip
  <2>9. Reportable(base, size, used) =
          (IF Len(set) < SET_SIZE THEN Cover(lower) ELSE {})
            \cup (IF Len(mid) < SET_SIZE THEN Cover(upper) ELSE {})
    <3>1. Min({base + size, h}) = h
      <4>1. h <= base + size
        BY <1>0, <1>3
      <4> QED BY <1>0, <4>1 DEF Min
    <3>2. base .. base + size - 1 = (base .. h - 1) \cup (h .. base + size - 1)
      BY <1>0, <1>3
    <3>3. CASE used >= SET_SIZE
      BY <1>0, <2>5, <3>3 DEF Reportable, Clip
    <3>4. CASE used = SET_SIZE - 1
      <4>1. Reportable(base, size, used) = base .. Min({base + size, h}) - 1
        BY <1>0, <1>3, <1>a, <3>4 DEF Reportable
      <4>2. Len(set) < SET_SIZE /\ ~(Len(mid) < SET_SIZE)
        BY <1>0, <2>5, <3>4 DEF Clip
      <4> QED BY <2>3, <3>1, <4>1, <4>2
    <3>5. CASE used < SET_SIZE - 1
      <4>1. Reportable(base, size, used) = base .. base + size - 1
        BY <1>0, <3>5 DEF Reportable
      <4>2. Len(set) < SET_SIZE /\ Len(mid) < SET_SIZE
        BY <1>0, <2>5, <3>5 DEF Clip
      <4> QED BY <2>3, <3>2, <4>1, <4>2
    <3> QED BY <1>0, <3>3, <3>4, <3>5
  <2> QED BY <1>a, <2>4, <2>5, <2>7, <2>8, <2>9 DEF new
<1> QED BY <1>0, <1>1, <1>2, <1>3


(* The set holds the pages reported so far, and counts the ranges up to its  *)
(* size.                                                                     *)
Holding(set, acc) ==
  /\ IsConfig(set, high_mem_base) /\ acc \in [pages : SUBSET Nat, used : Nat]
  /\ Len(set) = Clip(acc.used) /\ CoverAll(set) = acc.pages

(* A turn of the loop of add_memory_blocks: the clamped range of a pair ends *)
(* at or below usize::MAX, so that insert_range does not refuse it.          *)
LEMMA BlockKeeps ==
  ASSUME machine \in Machines, NEW set, NEW acc, NEW pair \in Nat \X Nat, Holding(set, acc)
  PROVE  Holding(AddMemoryBlock(set, pair), Report(acc, pair))
<1> DEFINE base == pair[1]
           size == ClampSize(base, pair[2])
<1>0. /\ base \in Nat /\ pair[2] \in Nat /\ UMAX \in Nat /\ UMAX > 0
      /\ acc \in [pages : SUBSET Nat, used : Nat] /\ acc.used \in Nat /\ acc.pages \in SUBSET Nat
      /\ high_mem_base \in Nat
  BY UmaxAssumption, MemoryAssumption, HighMemBase DEF Holding
<1>1. CASE base > UMAX \/ pair[2] = 0
  BY <1>1 DEF AddMemoryBlock, Report
<1>2. CASE ~(base > UMAX \/ pair[2] = 0)
  <2> DEFINE ranges == IF base < high_mem_base /\ base + size > high_mem_base THEN 2 ELSE 1
             new == HandleRange(set, base, size)
             pages == acc.pages \cup Reportable(base, size, acc.used)
  <2>1. size \in Nat \ {0} /\ base + size - 1 <= UMAX
    BY <1>0, <1>2 DEF ClampSize
  <2>2. AddMemoryBlock(set, pair) = new
    BY <1>2 DEF AddMemoryBlock
  <2>3. Report(acc, pair) = [pages |-> pages, used |-> acc.used + ranges]
    BY <1>2 DEF Report
  <2> HIDE DEF size, base
  <2>4. IsConfig(new, high_mem_base) /\ Len(new) = Clip(acc.used + ranges) /\ CoverAll(new) = pages
    <3> DEFINE used == acc.used
    <3>1. IsConfig(set, high_mem_base) /\ Len(set) = Clip(used) /\ CoverAll(set) = acc.pages /\ used \in Nat
      BY <1>0 DEF Holding
    <3> HIDE DEF used
    <3>2. LET n == HandleRange(set, base, size)
              r == IF base < high_mem_base /\ base + size > high_mem_base THEN 2 ELSE 1
          IN /\ IsConfig(n, high_mem_base) /\ Len(n) = Clip(used + r)
             /\ CoverAll(n) = CoverAll(set) \cup Reportable(base, size, used)
      BY <1>0, <2>1, <3>1, HandleKeeps
    <3> QED BY <3>1, <3>2 DEF used
  <2>5. ranges \in Nat
    OBVIOUS
  <2>6. pages \in SUBSET Nat
    <3> DEFINE lim == Min({base + size, high_mem_base})
    <3>1. lim \in Nat
      <4>1. base + size \in Nat
        BY <1>0, <2>1
      <4>2. {base + size, high_mem_base} \in SUBSET Nat /\ {base + size, high_mem_base} # {}
        BY <1>0, <4>1
      <4>3. \E m \in {base + size, high_mem_base} : \A n \in {base + size, high_mem_base} : m <= n
        BY <4>2, NatMin
      <4> QED BY <4>2, <4>3 DEF Min
    <3>2. base .. lim - 1 \in SUBSET Nat /\ base .. base + size - 1 \in SUBSET Nat
      BY <1>0, <2>1, <3>1
    <3> HIDE DEF lim
    <3>3. Reportable(base, size, acc.used) \in {{}, base .. lim - 1, base .. base + size - 1}
      BY DEF Reportable, lim
    <3> QED BY <1>0, <3>2, <3>3
  <2> HIDE DEF new, ranges, pages
  <2> QED BY <1>0, <2>2, <2>3, <2>4, <2>5, <2>6 DEF Holding
<1> QED BY <1>1, <1>2

(* add_memory_blocks takes all the memory of the pairs while there is room. *)
LEMMA BlocksKeep ==
  ASSUME machine \in Machines, NEW set, IsConfig(set, high_mem_base), Len(set) <= SET_SIZE,
         NEW pairs \in Seq(Nat \X Nat)
  PROVE  LET new == AddMemoryBlocks(set, pairs)
         IN /\ IsConfig(new, high_mem_base) /\ Len(new) <= SET_SIZE
            /\ CoverAll(new) = ReportPairs(CoverAll(set), Len(set), pairs)
<1> DEFINE L == Len(pairs)
           acc0 == [pages |-> CoverAll(set), used |-> Len(set)]
           EqA(g) == g = [n \in 0 .. L |-> IF n = 0 THEN set ELSE AddMemoryBlock(g[n - 1], pairs[n])]
           EqR(g) == g = [n \in 0 .. L |-> IF n = 0 THEN acc0 ELSE Report(g[n - 1], pairs[n])]
           added == CHOOSE g : EqA(g)
           report == CHOOSE g : EqR(g)
           V == {p \in Seq(ZoneRange) \X [pages : SUBSET Nat, used : Nat] : Holding(p[1], p[2])}
           G == [n \in 1 .. L |-> [p \in V |-> <<AddMemoryBlock(p[1], pairs[n]), Report(p[2], pairs[n])>>]]
           v0 == <<set, acc0>>
<1>0. L \in Nat /\ L = Len(pairs) /\ (\A n \in 1 .. L : pairs[n] \in Nat \X Nat)
  OBVIOUS
<1>1. Holding(set, acc0) /\ set \in Seq(ZoneRange) /\ acc0 \in [pages : SUBSET Nat, used : Nat]
  <2>1. set \in Seq(ZoneRange) /\ Len(set) \in Nat
    BY DEF IsConfig
  <2>2. \A i \in 1 .. Len(set) : Cover(set[i]) \subseteq Nat
    BY DEF IsConfig, GoodRange, IsRange, Cover
  <2>3. CoverAll(set) \subseteq Nat
    BY <2>1, <2>2, InCoverAll
  <2>4. Len(set) = Clip(Len(set))
    BY <2>1, SetSizeAssumption DEF Clip
  <2> QED BY <2>1, <2>3, <2>4 DEF Holding
<1> HIDE DEF L, acc0
<1>2. v0 \in V
  BY <1>1
<1>3. \A p : p \in V <=> /\ p \in Seq(ZoneRange) \X [pages : SUBSET Nat, used : Nat]
                         /\ Holding(p[1], p[2])
  OBVIOUS
<1> HIDE DEF V
<1>4. ASSUME NEW n \in 1 .. L, NEW p \in V
      PROVE  <<AddMemoryBlock(p[1], pairs[n]), Report(p[2], pairs[n])>> \in V
  <2>1. Holding(AddMemoryBlock(p[1], pairs[n]), Report(p[2], pairs[n]))
    BY <1>0, <1>3, BlockKeeps
  <2>2. /\ AddMemoryBlock(p[1], pairs[n]) \in Seq(ZoneRange)
        /\ Report(p[2], pairs[n]) \in [pages : SUBSET Nat, used : Nat]
    BY <2>1 DEF Holding, IsConfig
  <2> QED BY <1>3, <2>1, <2>2
<1>5. G \in [1 .. L -> [V -> V]]
  BY <1>4
<1>6. \A n \in 1 .. L, p \in V : G[n][p] = <<AddMemoryBlock(p[1], pairs[n]), Report(p[2], pairs[n])>>
  OBVIOUS
<1> HIDE DEF G
<1>7. PICK f : IsLoop(f, V, v0, L, G)
  <2> HIDE DEF v0
  <2> QED BY <1>0, <1>2, <1>5, LoopExists
<1>8. /\ f[0] = v0
      /\ \A n \in 0 .. L : f[n] \in V
      /\ \A n \in 1 .. L : f[n] = <<AddMemoryBlock(f[n - 1][1], pairs[n]), Report(f[n - 1][2], pairs[n])>>
  <2>1. f[0] = v0 /\ (\A n \in 0 .. L : f[n] \in V) /\ \A n \in 1 .. L : f[n] = G[n][f[n - 1]]
    BY <1>7 DEF IsLoop
  <2>2. ASSUME NEW n \in 1 .. L
        PROVE  f[n] = <<AddMemoryBlock(f[n - 1][1], pairs[n]), Report(f[n - 1][2], pairs[n])>>
    <3>1. f[n - 1] \in V
      BY <1>0, <2>1
    <3> QED BY <1>6, <2>1, <3>1
  <2> QED BY <2>1, <2>2
<1>9. EqA([n \in 0 .. L |-> f[n][1]])
  <2> DEFINE w == [n \in 0 .. L |-> f[n][1]]
  <2>1. ASSUME NEW n \in 0 .. L PROVE w[n] = IF n = 0 THEN set ELSE AddMemoryBlock(w[n - 1], pairs[n])
    <3>1. CASE n = 0
      BY <1>8, <3>1
    <3>2. CASE n # 0
      <4>1. n \in 1 .. L /\ n - 1 \in 0 .. L
        BY <1>0, <3>2
      <4> QED BY <1>8, <3>2, <4>1
    <3> QED BY <3>1, <3>2
  <2>2. w = [n \in 0 .. L |-> IF n = 0 THEN set ELSE AddMemoryBlock(w[n - 1], pairs[n])]
    BY <2>1
  <2> QED BY <2>2
<1>10. EqR([n \in 0 .. L |-> f[n][2]])
  <2> DEFINE w == [n \in 0 .. L |-> f[n][2]]
  <2>1. ASSUME NEW n \in 0 .. L PROVE w[n] = IF n = 0 THEN acc0 ELSE Report(w[n - 1], pairs[n])
    <3>1. CASE n = 0
      BY <1>8, <3>1
    <3>2. CASE n # 0
      <4>1. n \in 1 .. L /\ n - 1 \in 0 .. L
        BY <1>0, <3>2
      <4> QED BY <1>8, <3>2, <4>1
    <3> QED BY <3>1, <3>2
  <2>2. w = [n \in 0 .. L |-> IF n = 0 THEN acc0 ELSE Report(w[n - 1], pairs[n])]
    BY <2>1
  <2> QED BY <2>2
<1>11. EqA(added) /\ EqR(report)
  <2> HIDE DEF EqA, EqR
  <2> QED BY <1>9, <1>10
<1>12. AddMemoryBlocks(set, pairs) = added[L] /\ ReportPairs(CoverAll(set), Len(set), pairs) = report[L].pages
  BY <1>0 DEF AddMemoryBlocks, ReportPairs, acc0
<1> HIDE DEF added, report
<1>13. /\ \A n \in 0 .. L : added[n] = IF n = 0 THEN set ELSE AddMemoryBlock(added[n - 1], pairs[n])
       /\ \A n \in 0 .. L : report[n] = IF n = 0 THEN acc0 ELSE Report(report[n - 1], pairs[n])
  BY <1>11
<1> HIDE DEF EqA, EqR
<1>14. Holding(added[L], report[L])
  <2> DEFINE T == {n \in Nat : n \in 0 .. L => Holding(added[n], report[n])}
  <2>1. 0 \in T
    BY <1>0, <1>1, <1>13
  <2>2. ASSUME NEW n \in Nat, n \in T PROVE n + 1 \in T
    <3> SUFFICES ASSUME n + 1 \in 0 .. L PROVE Holding(added[n + 1], report[n + 1])
      OBVIOUS
    <3>1. n \in 0 .. L /\ n + 1 \in 1 .. L /\ (n + 1) - 1 = n /\ n + 1 # 0
      BY <1>0
    <3>2. Holding(added[n], report[n])
      BY <2>2, <3>1
    <3>3. added[n + 1] = AddMemoryBlock(added[n], pairs[n + 1]) /\ report[n + 1] = Report(report[n], pairs[n + 1])
      BY <1>13, <3>1
    <3> QED BY <1>0, <3>1, <3>2, <3>3, BlockKeeps
  <2> HIDE DEF T
  <2>3. L \in T
    BY <1>0, <2>1, <2>2, NatSetInduction
  <2> QED BY <1>0, <2>3 DEF T
<1>15. Clip(report[L].used) <= SET_SIZE
  BY <1>14, SetSizeAssumption DEF Clip, Holding
<1> QED BY <1>12, <1>14, <1>15 DEF Holding


-----------------------------------------------------------------------------
(*****************************************************************************)
(* trim_ranges.                                                              *)
(*****************************************************************************)

(* The ranges before index k lie below all that follow them. *)
TrimmedTo(set, k) == \A i, j \in 1 .. Len(set) : i < j /\ i < k => End(set[i]) < set[j].base

(* copy_within loses no range but the one it copies over, and keeps the      *)
(* order although the last range is there twice.                             *)
LEMMA CopyDownKeeps ==
  ASSUME NEW set, NEW h \in Int, IsConfig(set, h), NEW from \in 1 .. Len(set),
         NEW k \in 1 .. from, TrimmedTo(set, k)
  PROVE  /\ IsConfig(CopyDown(set, from), h) /\ TrimmedTo(CopyDown(set, from), k)
         /\ Len(CopyDown(set, from)) = Len(set)
         /\ CoverAll(CopyDown(set, from)) \subseteq CoverAll(set)
         /\ CoverAll(set) \subseteq CoverAll(CopyDown(set, from)) \cup Cover(set[from])
<1> DEFINE L == Len(set)
           at(i) == IF from <= i /\ i < L THEN i + 1 ELSE i
           new == CopyDown(set, from)
<1>0. set \in Seq(ZoneRange) /\ L \in Nat /\ from \in 1 .. L /\ k \in 1 .. from /\ L = Len(set)
  BY DEF IsConfig
<1>1. \A i \in 1 .. L : at(i) \in 1 .. L /\ at(i) >= i /\ (i < from => at(i) = i)
  BY <1>0
<1>2. \A i, j \in 1 .. L : i < j => at(i) <= at(j)
  BY <1>0
<1>3. new = [i \in 1 .. L |-> set[at(i)]]
  BY <1>0 DEF CopyDown
<1>4. /\ \A i \in 1 .. L : GoodRange(set[i], h) /\ set[i].base \in Nat
      /\ \A i, j \in 1 .. L : i < j => set[i].base <= set[j].base
      /\ \A i, j \in 1 .. L : i < j /\ i < k => End(set[i]) < set[j].base
  BY DEF IsConfig, GoodRange, IsRange, TrimmedTo
<1>a. \A i \in 1 .. L : i > from => at(i - 1) = i /\ i - 1 \in 1 .. L
  BY <1>0
<1> HIDE DEF at, L
<1>5. new \in Seq(ZoneRange) /\ Len(new) = L /\ \A i \in 1 .. L : new[i] = set[at(i)]
  <2>1. \A i \in 1 .. L : set[at(i)] \in ZoneRange
    BY <1>0, <1>1
  <2> QED BY <1>0, <1>3, <2>1
<1> HIDE DEF new
<1>6. IsConfig(new, h)
  <2>1. \A i \in 1 .. L : GoodRange(new[i], h)
    BY <1>1, <1>4, <1>5
  <2>2. ASSUME NEW i \in 1 .. L, NEW j \in 1 .. L, i < j PROVE new[i].base <= new[j].base
    <3>1. at(i) \in 1 .. L /\ at(j) \in 1 .. L /\ at(i) <= at(j) /\ new[i] = set[at(i)] /\ new[j] = set[at(j)]
      BY <1>1, <1>2, <1>5, <2>2
    <3>2. CASE at(i) = at(j)
      BY <1>4, <3>1, <3>2
    <3>3. CASE at(i) < at(j)
      BY <1>4, <3>1, <3>3
    <3> QED BY <1>0, <3>1, <3>2, <3>3
  <2> QED BY <1>5, <2>1, <2>2 DEF IsConfig
<1>7. TrimmedTo(new, k)
  <2>1. ASSUME NEW i \in 1 .. L, NEW j \in 1 .. L, i < j, i < k PROVE End(new[i]) < new[j].base
    <3>1. i < from /\ new[i] = set[i]
      BY <1>0, <1>1, <1>5, <2>1
    <3>2. at(j) \in 1 .. L /\ i < at(j) /\ new[j] = set[at(j)]
      BY <1>0, <1>1, <1>5, <2>1
    <3> QED BY <1>4, <2>1, <3>1, <3>2
  <2> QED BY <1>5, <2>1 DEF TrimmedTo
<1>8. ASSUME NEW a, a \in CoverAll(new) PROVE a \in CoverAll(set)
  <2>1. PICK i \in 1 .. L : a \in Cover(new[i])
    BY <1>5, <1>8, InCoverAll
  <2>2. at(i) \in 1 .. Len(set) /\ a \in Cover(set[at(i)])
    BY <1>0, <1>1, <1>5, <2>1
  <2> QED BY <1>0, <2>2, InCoverAll
<1>9. ASSUME NEW a, a \in CoverAll(set), a \notin Cover(set[from]) PROVE a \in CoverAll(new)
  <2>1. PICK i \in 1 .. L : a \in Cover(set[i])
    BY <1>0, <1>9, InCoverAll
  <2>2. i # from
    BY <1>9, <2>1
  <2>3. \E j \in 1 .. L : at(j) = i
    <3>1. CASE i < from
      BY <1>1, <3>1
    <3>2. CASE i > from
      BY <1>a, <3>2
    <3> QED BY <1>0, <2>2, <3>1, <3>2
  <2>4. PICK j \in 1 .. L : at(j) = i
    BY <2>3
  <2>5. j \in 1 .. Len(new) /\ a \in Cover(new[j])
    BY <1>5, <2>1, <2>4
  <2> QED BY <1>5, <2>5, InCoverAll
<1> QED BY <1>0, <1>5, <1>6, <1>7, <1>8, <1>9 DEF new

(* A range that takes over the one behind it, of the same zone because the   *)
(* two overlap.                                                              *)
Union(set, i) == [set EXCEPT ![i].size = set[i + 1].base + set[i + 1].size - set[i].base]

(* The union keeps the order and the pages of the set. *)
LEMMA UnionKeeps ==
  ASSUME NEW set, NEW h \in Int, IsConfig(set, h), NEW i \in 1 .. Len(set) - 1, TrimmedTo(set, i),
         set[i + 1].base <= End(set[i]), End(set[i]) <= End(set[i + 1])
  PROVE  /\ IsConfig(Union(set, i), h) /\ TrimmedTo(Union(set, i), i)
         /\ Len(Union(set, i)) = Len(set) /\ CoverAll(Union(set, i)) = CoverAll(set)
         /\ Cover(Union(set, i)[i + 1]) \subseteq Cover(Union(set, i)[i])
<1> DEFINE L == Len(set)
           l == set[i]
           r == set[i + 1]
           u == [l EXCEPT !.size = r.base + r.size - l.base]
           new == Union(set, i)
<1>0. set \in Seq(ZoneRange) /\ L \in Nat /\ i \in 1 .. L /\ i + 1 \in 1 .. L /\ L = Len(set)
  BY DEF IsConfig
<1>1. /\ \A j \in 1 .. L : GoodRange(set[j], h)
      /\ \A a, b \in 1 .. L : a < b => set[a].base <= set[b].base
      /\ \A a, b \in 1 .. L : a < b /\ a < i => End(set[a]) < set[b].base
  BY DEF IsConfig, TrimmedTo
<1>2. GoodRange(l, h) /\ GoodRange(r, h) /\ l.base <= r.base
  BY <1>0, <1>1
<1>3. /\ l.tag \in Zone /\ r.tag \in Zone /\ l \in ZoneRange
      /\ l.base \in Nat /\ l.size \in Nat \ {0} /\ r.base \in Nat /\ r.size \in Nat \ {0}
      /\ End(l) = l.base + (l.size - 1) /\ End(r) = r.base + (r.size - 1)
      /\ End(r) <= UMAX
      /\ l.tag = "Linear" => l.base + (l.size - 1) < h
      /\ l.tag = "High" => l.base >= h
      /\ r.tag = "Linear" => r.base + (r.size - 1) < h
      /\ r.tag = "High" => r.base >= h
      /\ r.base <= l.base + (l.size - 1) /\ l.base + (l.size - 1) <= r.base + (r.size - 1)
  BY <1>2 DEF GoodRange, IsRange, ZoneRange, End
<1>4. u.tag = l.tag /\ u.base = l.base /\ u.size = r.base + r.size - l.base /\ u \in ZoneRange
  <2> DEFINE size == r.base + r.size - l.base
  <2>1. size \in Nat
    <3> DEFINE lb == l.base
               rb == r.base
               rs == r.size
    <3>1. lb \in Nat /\ rb \in Nat /\ rs \in Nat /\ lb <= rb
      BY <1>2, <1>3
    <3>2. size = rb + rs - lb
      OBVIOUS
    <3> HIDE DEF size, lb, rb, rs
    <3> QED BY <3>1, <3>2
  <2> HIDE DEF l, size
  <2>2. u = [l EXCEPT !.size = size]
    BY DEF size
  <2> QED BY <1>3, <2>1, <2>2 DEF ZoneRange, size
<1>5. new = [set EXCEPT ![i] = u]
  BY <1>0 DEF Union
<1>6. /\ new \in Seq(ZoneRange) /\ Len(new) = L /\ new[i] = u
      /\ \A j \in 1 .. L : j # i => new[j] = set[j]
  <2> HIDE DEF u
  <2> QED BY <1>0, <1>4, <1>5
<1> HIDE DEF l, r, u
<1>b. /\ u.base \in Nat /\ u.size \in Nat \ {0} /\ u.base + (u.size - 1) = r.base + (r.size - 1)
      /\ u.base + u.size - 1 = r.base + r.size - 1
  <2> DEFINE lb == l.base
             ls == l.size
             rb == r.base
             rs == r.size
  <2>1. /\ lb \in Nat /\ ls \in Nat \ {0} /\ rb \in Nat /\ rs \in Nat \ {0}
        /\ lb <= rb
    BY <1>2, <1>3
  <2>2. u.base = lb /\ u.size = rb + rs - lb
    BY <1>4
  <2> HIDE DEF lb, ls, rb, rs
  <2>3. lb + ((rb + rs - lb) - 1) = rb + (rs - 1) /\ rb + rs - lb \in Nat \ {0}
        /\ lb + (rb + rs - lb) - 1 = rb + rs - 1
    BY <2>1
  <2> QED BY <2>1, <2>2, <2>3 DEF rb, rs
<1>7. GoodRange(u, h)
  <2>3. End(u) = End(r)
    BY <1>b DEF End
  <2>1. IsRange(u)
    BY <1>3, <1>b, <2>3 DEF IsRange
  <2>2. l.tag = "Linear" => r.tag = "Linear"
    BY <1>3 DEF Zone
  <2> QED BY <1>3, <1>4, <2>1, <2>2, <2>3 DEF GoodRange
<1>8. Cover(u) = Cover(l) \cup Cover(r)
  <2>1. /\ Cover(u) = l.base .. r.base + r.size - 1
        /\ Cover(l) = l.base .. l.base + l.size - 1 /\ Cover(r) = r.base .. r.base + r.size - 1
    BY <1>b, <1>4 DEF Cover
  <2> DEFINE lb == l.base
             le == l.base + l.size - 1
             rb == r.base
             re == r.base + r.size - 1
  <2>2. lb \in Int /\ le \in Int /\ rb \in Int /\ re \in Int /\ lb <= rb /\ rb <= le /\ le <= re
    <3> DEFINE ls == l.size
               rs == r.size
    <3>1. /\ lb \in Nat /\ ls \in Nat /\ rb \in Nat /\ rs \in Nat /\ lb <= rb
          /\ rb <= lb + (ls - 1) /\ lb + (ls - 1) <= rb + (rs - 1)
      BY <1>2, <1>3
    <3>2. le = lb + ls - 1 /\ re = rb + rs - 1
      OBVIOUS
    <3> HIDE DEF lb, le, rb, re, ls, rs
    <3> QED BY <3>1, <3>2
  <2>3. Cover(u) = lb .. re /\ Cover(l) = lb .. le /\ Cover(r) = rb .. re
    BY <2>1
  <2> HIDE DEF lb, le, rb, re
  <2>4. lb .. re = (lb .. le) \cup (rb .. re)
    BY <2>2
  <2> QED BY <2>3, <2>4
<1> HIDE DEF new, u, l, r, L
<1>a. l = set[i] /\ r = set[i + 1]
  BY DEF l, r
<1>9. \A j \in 1 .. L : new[j].base = set[j].base
  BY <1>4, <1>6, <1>a
<1>10. IsConfig(new, h)
  <2>1. \A j \in 1 .. L : GoodRange(new[j], h)
    BY <1>1, <1>6, <1>7
  <2> QED BY <1>1, <1>6, <1>9, <2>1 DEF IsConfig
<1>11. TrimmedTo(new, i)
  <2>1. \A a, b \in 1 .. L : a < b /\ a < i => End(new[a]) < new[b].base
    <3> SUFFICES ASSUME NEW a \in 1 .. L, NEW b \in 1 .. L, a < b, a < i PROVE End(new[a]) < new[b].base
      OBVIOUS
    <3>1. new[a] = set[a]
      BY <1>0, <1>6
    <3> QED BY <1>1, <1>9, <3>1
  <2> QED BY <1>6, <2>1 DEF TrimmedTo
<1>12. ASSUME NEW a, a \in CoverAll(new) PROVE a \in CoverAll(set)
  <2>1. PICK j \in 1 .. L : a \in Cover(new[j])
    BY <1>6, <1>12, InCoverAll
  <2>2. \E m \in 1 .. Len(set) : a \in Cover(set[m])
    <3>1. CASE j = i
      <4>1. a \in Cover(l) \/ a \in Cover(r)
        BY <1>6, <1>8, <2>1, <3>1
      <4> QED BY <1>0, <1>a, <4>1
    <3>2. CASE j # i
      BY <1>0, <1>6, <2>1, <3>2
    <3> QED BY <3>1, <3>2
  <2> QED BY <1>0, <2>2, InCoverAll
<1>13. ASSUME NEW a, a \in CoverAll(set) PROVE a \in CoverAll(new)
  <2>1. PICK j \in 1 .. L : a \in Cover(set[j])
    BY <1>0, <1>13, InCoverAll
  <2>2. a \in Cover(new[j])
    <3>1. CASE j = i
      BY <1>6, <1>8, <1>a, <2>1, <3>1
    <3>2. CASE j # i
      BY <1>6, <2>1, <3>2
    <3> QED BY <3>1, <3>2
  <2> QED BY <1>6, <2>1, <2>2, InCoverAll
<1>14. Cover(new[i + 1]) \subseteq Cover(new[i])
  <2>1. new[i + 1] = r /\ new[i] = u
    BY <1>0, <1>6, <1>a
  <2> QED BY <1>8, <2>1
<1> QED BY <1>0, <1>6, <1>10, <1>11, <1>12, <1>13, <1>14 DEF new

(* The ways two neighbours of a sorted set can lie. *)
LEMMA NeighboursCmp ==
  ASSUME NEW set, NEW h \in Int, IsConfig(set, h), NEW i \in 1 .. Len(set) - 1
  PROVE  LET l == set[i]
             r == set[i + 1]
         IN \/ Cmp(l, r) = "Less" /\ End(l) < r.base
            \/ Cmp(l, r) \in {"Equal", "Superset"} /\ Cover(r) \subseteq Cover(l)
            \/ Cmp(l, r) = "Subset" /\ Cover(l) \subseteq Cover(r)
            \/ Cmp(l, r) = "LessEqual" /\ r.base <= End(l) /\ End(l) <= End(r)
<1> DEFINE l == set[i]
           r == set[i + 1]
<1>1. GoodRange(l, h) /\ GoodRange(r, h) /\ l.base <= r.base
  <2>1. i \in 1 .. Len(set) /\ i + 1 \in 1 .. Len(set) /\ i < i + 1
    BY DEF IsConfig
  <2> QED BY <2>1 DEF IsConfig
<1>2. /\ l.base \in Nat /\ l.size \in Nat \ {0} /\ r.base \in Nat /\ r.size \in Nat \ {0}
      /\ End(l) = l.base + (l.size - 1) /\ End(r) = r.base + (r.size - 1)
      /\ Cover(l) = l.base .. End(l) /\ Cover(r) = r.base .. End(r)
  BY <1>1 DEF GoodRange, IsRange, End, Cover
<1> HIDE DEF l, r
<1>3. \/ Cmp(l, r) = "Less" /\ End(l) < r.base
      \/ Cmp(l, r) \in {"Equal", "Superset"} /\ Cover(r) \subseteq Cover(l)
      \/ Cmp(l, r) = "Subset" /\ Cover(l) \subseteq Cover(r)
      \/ Cmp(l, r) = "LessEqual" /\ r.base <= End(l) /\ End(l) <= End(r)
  <2> DEFINE lb == l.base
             ls == l.size
             le == End(l)
             rb == r.base
             rs == r.size
             re == End(r)
             cmp == Cmp(l, r)
  <2>1. lb \in Nat /\ ls \in Nat \ {0} /\ rb \in Nat /\ rs \in Nat \ {0} /\ lb <= rb
    BY <1>1, <1>2
  <2>2. le = lb + (ls - 1) /\ re = rb + (rs - 1)
    BY <1>2
  <2>3. Cover(l) = lb .. le /\ Cover(r) = rb .. re
    BY <1>2
  <2>4. cmp = IF lb = rb /\ ls = rs THEN "Equal"
              ELSE IF le < rb THEN "Less"
              ELSE IF re < lb THEN "Greater"
              ELSE IF lb <= rb /\ le >= re THEN "Superset"
              ELSE IF rb <= lb /\ re >= le THEN "Subset"
              ELSE IF lb < rb THEN "LessEqual" ELSE "GreaterEqual"
    BY DEF Cmp
  <2> HIDE DEF lb, ls, le, rb, rs, re, cmp
  <2>5. le \in Int /\ re \in Int /\ lb <= le /\ rb <= re
    BY <2>1, <2>2
  <2>6. CASE le < rb
    <3>1. cmp = "Less"
      BY <2>1, <2>2, <2>4, <2>5, <2>6
    <3> QED BY <2>6, <3>1 DEF cmp, le, rb
  <2>7. CASE ~(le < rb) /\ le >= re
    <3>1. cmp \in {"Equal", "Superset"}
      BY <2>1, <2>4, <2>5, <2>7
    <3>2. rb .. re \subseteq lb .. le
      BY <2>1, <2>5, <2>7
    <3> QED BY <2>3, <3>1, <3>2 DEF cmp
  <2>8. CASE ~(le < rb) /\ le < re /\ lb = rb
    <3>1. cmp = "Subset"
      <4>1. ls # rs
        BY <2>1, <2>2, <2>8
      <4> QED BY <2>1, <2>4, <2>5, <2>8, <4>1
    <3>2. lb .. le \subseteq rb .. re
      BY <2>1, <2>5, <2>8
    <3> QED BY <2>3, <3>1, <3>2 DEF cmp
  <2>9. CASE ~(le < rb) /\ le < re /\ lb < rb
    <3>1. cmp = "LessEqual"
      BY <2>1, <2>4, <2>5, <2>9
    <3>2. rb <= le /\ le <= re
      BY <2>1, <2>5, <2>9
    <3> QED BY <3>1, <3>2 DEF cmp, rb, le, re
  <2>10. le < rb \/ (~(le < rb) /\ le >= re) \/ (~(le < rb) /\ le < re /\ lb = rb)
           \/ (~(le < rb) /\ le < re /\ lb < rb)
    BY <2>1, <2>5
  <2> QED BY <2>6, <2>7, <2>8, <2>9, <2>10
<1> QED BY <1>3 DEF l, r

(* A turn of trim_overlapping_ranges on ranges that overlap: no page is lost *)
(* and none is gained, the order stays and so does what was trimmed before.  *)
LEMMA TrimStepKeeps ==
  ASSUME NEW set, NEW h \in Int, IsConfig(set, h), NEW i \in 1 .. Len(set) - 1, TrimmedTo(set, i),
         Cmp(set[i], set[i + 1]) \notin {"Less", "Greater"}
  PROVE  /\ IsConfig(TrimStep(set, i), h) /\ TrimmedTo(TrimStep(set, i), i)
         /\ Len(TrimStep(set, i)) = Len(set) /\ CoverAll(TrimStep(set, i)) = CoverAll(set)
<1>0. set \in Seq(ZoneRange) /\ i \in 1 .. Len(set) /\ i + 1 \in 1 .. Len(set) /\ i \in 1 .. i /\ i \in 1 .. i + 1
  BY DEF IsConfig
<1>1. CASE Cmp(set[i], set[i + 1]) \in {"Equal", "Superset"}
  <2> DEFINE k == i + 1
             new == CopyDown(set, k)
  <2>1. TrimStep(set, i) = new
    BY <1>1 DEF TrimStep
  <2>2. Cover(set[k]) \subseteq Cover(set[i])
    BY <1>1, NeighboursCmp
  <2>3. k \in 1 .. Len(set) /\ i \in 1 .. k /\ i < k
    BY <1>0
  <2> HIDE DEF k
  <2>4. /\ IsConfig(new, h) /\ TrimmedTo(new, i) /\ Len(new) = Len(set)
        /\ CoverAll(new) \subseteq CoverAll(set)
        /\ CoverAll(set) \subseteq CoverAll(new) \cup Cover(set[k])
    BY <2>3, CopyDownKeeps
  <2>5. Cover(set[i]) \subseteq CoverAll(new)
    <3>1. new[i] = set[i] /\ i \in 1 .. Len(new) /\ new \in Seq(ZoneRange)
      BY <1>0, <2>3, <2>4 DEF CopyDown, IsConfig
    <3> HIDE DEF new
    <3> QED BY <3>1, InCoverAll
  <2> QED BY <2>1, <2>2, <2>4, <2>5
<1>2. CASE Cmp(set[i], set[i + 1]) = "Subset"
  <2> DEFINE new == CopyDown(set, i)
  <2>1. TrimStep(set, i) = new
    BY <1>2 DEF TrimStep
  <2>2. Cover(set[i]) \subseteq Cover(set[i + 1])
    BY <1>2, NeighboursCmp
  <2>4. /\ IsConfig(new, h) /\ TrimmedTo(new, i) /\ Len(new) = Len(set)
        /\ CoverAll(new) \subseteq CoverAll(set)
        /\ CoverAll(set) \subseteq CoverAll(new) \cup Cover(set[i])
    BY <1>0, CopyDownKeeps
  <2>5. Cover(set[i + 1]) \subseteq CoverAll(new)
    <3>1. new[i] = set[i + 1] /\ i \in 1 .. Len(new) /\ new \in Seq(ZoneRange)
      BY <1>0, <2>4 DEF CopyDown, IsConfig
    <3> HIDE DEF new
    <3> QED BY <3>1, InCoverAll
  <2> QED BY <2>1, <2>2, <2>4, <2>5
<1>3. CASE Cmp(set[i], set[i + 1]) = "LessEqual"
  <2> DEFINE k == i + 1
             mid == Union(set, i)
             new == CopyDown(mid, k)
  <2>1. TrimStep(set, i) = new
    BY <1>3 DEF TrimStep, Union
  <2>2. set[k].base <= End(set[i]) /\ End(set[i]) <= End(set[k])
    BY <1>3, NeighboursCmp
  <2>a. /\ IsConfig(mid, h) /\ TrimmedTo(mid, i) /\ Len(mid) = Len(set)
        /\ CoverAll(mid) = CoverAll(set) /\ Cover(mid[k]) \subseteq Cover(mid[i])
    <3> HIDE DEF mid
    <3> QED BY <2>2, UnionKeeps DEF mid
  <2>3. k \in 1 .. Len(mid) /\ i \in 1 .. k /\ i < k /\ i \in 1 .. Len(mid)
    BY <1>0, <2>a
  <2> HIDE DEF k, mid
  <2>4. /\ IsConfig(new, h) /\ TrimmedTo(new, i) /\ Len(new) = Len(mid)
        /\ CoverAll(new) \subseteq CoverAll(mid)
        /\ CoverAll(mid) \subseteq CoverAll(new) \cup Cover(mid[k])
    BY <2>a, <2>3, CopyDownKeeps
  <2>5. Cover(mid[i]) \subseteq CoverAll(new)
    <3>1. new[i] = mid[i] /\ i \in 1 .. Len(new) /\ new \in Seq(ZoneRange)
      BY <1>0, <2>3, <2>4 DEF CopyDown, IsConfig
    <3> HIDE DEF new
    <3> QED BY <3>1, InCoverAll
  <2> HIDE DEF new
  <2> QED BY <2>1, <2>a, <2>4, <2>5
<1> QED BY <1>1, <1>2, <1>3, NeighboursCmp

(* A turn on ranges that do not overlap: all that follow lie above too. *)
LEMMA TrimAdvanceKeeps ==
  ASSUME NEW set, NEW h \in Int, IsConfig(set, h), NEW i \in 1 .. Len(set) - 1, TrimmedTo(set, i),
         Cmp(set[i], set[i + 1]) \in {"Less", "Greater"}
  PROVE  TrimmedTo(set, i + 1)
<1>0. set \in Seq(ZoneRange) /\ Len(set) \in Nat /\ i \in 1 .. Len(set) /\ i + 1 \in 1 .. Len(set)
  BY DEF IsConfig
<1>1. End(set[i]) < set[i + 1].base
  BY NeighboursCmp
<1>2. \A a \in 1 .. Len(set) : set[a].base \in Nat /\ End(set[a]) \in Int
  BY DEF IsConfig, GoodRange, IsRange, End
<1>3. ASSUME NEW a \in 1 .. Len(set), NEW b \in 1 .. Len(set), a < b, a < i + 1
      PROVE  End(set[a]) < set[b].base
  <2>1. CASE a < i
    BY <1>3, <2>1 DEF TrimmedTo
  <2>2. CASE a = i
    <3>1. set[i + 1].base <= set[b].base
      <4>1. CASE b = i + 1
        BY <1>2, <4>1
      <4>2. CASE b > i + 1
        BY <1>0, <4>2 DEF IsConfig
      <4> QED BY <1>3, <2>2, <4>1, <4>2
    <3> QED BY <1>0, <1>1, <1>2, <2>2, <3>1
  <2> QED BY <1>3, <2>1, <2>2
<1> QED BY <1>3 DEF TrimmedTo


-----------------------------------------------------------------------------
(*****************************************************************************)
(* exclude_range and trim_empty_ranges.                                      *)
(*****************************************************************************)

(* A set with empty ranges in it, whose other ranges are apart. *)
Loose(set, h) ==
  /\ set \in Seq(ZoneRange)
  /\ \A i \in 1 .. Len(set) : set[i].size > 0 => GoodRange(set[i], h)
  /\ \A i, j \in 1 .. Len(set) : i < j /\ set[i].size > 0 /\ set[j].size > 0 => End(set[i]) < set[j].base

Before(s, t) ==
  \A a \in 1 .. Len(s), b \in 1 .. Len(t) : s[a].size > 0 /\ t[b].size > 0 => End(s[a]) < t[b].base

Full(s) == \A i \in 1 .. Len(s) : s[i].size > 0

(* What the elements of a concatenation are. *)
LEMMA ConcatParts ==
  ASSUME NEW S, NEW s \in Seq(S), NEW t \in Seq(S)
  PROVE  /\ s \o t \in Seq(S) /\ Len(s \o t) = Len(s) + Len(t) /\ Len(s) \in Nat /\ Len(t) \in Nat
         /\ \A i \in 1 .. Len(s) + Len(t) :
              \/ i <= Len(s) /\ i \in 1 .. Len(s) /\ (s \o t)[i] = s[i]
              \/ i > Len(s) /\ i - Len(s) \in 1 .. Len(t) /\ (s \o t)[i] = t[i - Len(s)]
OBVIOUS

(* ... those behind the first sequence in particular. *)
LEMMA ConcatSecond ==
  ASSUME NEW S, NEW s \in Seq(S), NEW t \in Seq(S), NEW i \in Len(s) + 1 .. Len(s) + Len(t)
  PROVE  (s \o t)[i] = t[i - Len(s)]
<1>1. i \in 1 .. Len(s) + Len(t) /\ ~(i <= Len(s))
  OBVIOUS
<1> QED BY <1>1, ConcatParts

(* Sets one behind the other stay apart. *)
LEMMA LooseConcat ==
  ASSUME NEW h, NEW s, NEW t, Loose(s, h), Loose(t, h), Before(s, t)
  PROVE  Loose(s \o t, h)
<1> DEFINE u == s \o t
           L == Len(s) + Len(t)
<1>0. s \in Seq(ZoneRange) /\ t \in Seq(ZoneRange)
  BY DEF Loose
<1>1. /\ u \in Seq(ZoneRange) /\ Len(u) = L /\ Len(s) \in Nat /\ Len(t) \in Nat
      /\ \A i \in 1 .. L :
           \/ i <= Len(s) /\ i \in 1 .. Len(s) /\ u[i] = s[i]
           \/ i > Len(s) /\ i - Len(s) \in 1 .. Len(t) /\ u[i] = t[i - Len(s)]
  BY <1>0, ConcatParts
<1> HIDE DEF u, L
<1>2. ASSUME NEW i \in 1 .. L, u[i].size > 0 PROVE GoodRange(u[i], h)
  <2>1. CASE i <= Len(s) /\ i \in 1 .. Len(s) /\ u[i] = s[i]
    BY <1>2, <2>1 DEF Loose
  <2>2. CASE i > Len(s) /\ i - Len(s) \in 1 .. Len(t) /\ u[i] = t[i - Len(s)]
    BY <1>2, <2>2 DEF Loose
  <2> QED BY <1>1, <2>1, <2>2
<1>3. ASSUME NEW i \in 1 .. L, NEW j \in 1 .. L, i < j, u[i].size > 0, u[j].size > 0
      PROVE  End(u[i]) < u[j].base
  <2>1. CASE j <= Len(s) /\ j \in 1 .. Len(s) /\ u[j] = s[j]
    <3>1. i \in 1 .. Len(s) /\ u[i] = s[i]
      BY <1>1, <1>3, <2>1
    <3> QED BY <1>3, <2>1, <3>1 DEF Loose
  <2>2. CASE j > Len(s) /\ j - Len(s) \in 1 .. Len(t) /\ u[j] = t[j - Len(s)]
    <3>1. CASE i <= Len(s) /\ i \in 1 .. Len(s) /\ u[i] = s[i]
      BY <1>3, <2>2, <3>1 DEF Before
    <3>2. CASE i > Len(s) /\ i - Len(s) \in 1 .. Len(t) /\ u[i] = t[i - Len(s)]
      <4>1. i - Len(s) < j - Len(s)
        BY <1>1, <1>3
      <4> QED BY <1>3, <2>2, <3>2, <4>1 DEF Loose
    <3> QED BY <1>1, <3>1, <3>2
  <2> QED BY <1>1, <2>1, <2>2
<1> QED BY <1>1, <1>2, <1>3 DEF Loose, u

(* ... below what both are below. *)
LEMMA BeforeConcat ==
  ASSUME NEW s \in Seq(ZoneRange), NEW t \in Seq(ZoneRange), NEW v, Before(s, v), Before(t, v)
  PROVE  Before(s \o t, v)
<1> DEFINE u == s \o t
           L == Len(s) + Len(t)
<1>1. /\ u \in Seq(ZoneRange) /\ Len(u) = L /\ Len(s) \in Nat /\ Len(t) \in Nat
      /\ \A i \in 1 .. L :
           \/ i <= Len(s) /\ i \in 1 .. Len(s) /\ u[i] = s[i]
           \/ i > Len(s) /\ i - Len(s) \in 1 .. Len(t) /\ u[i] = t[i - Len(s)]
  BY ConcatParts
<1> HIDE DEF u, L
<1>2. ASSUME NEW i \in 1 .. L, NEW b \in 1 .. Len(v), u[i].size > 0, v[b].size > 0
      PROVE  End(u[i]) < v[b].base
  <2>1. CASE i <= Len(s) /\ i \in 1 .. Len(s) /\ u[i] = s[i]
    BY <1>2, <2>1 DEF Before
  <2>2. CASE i > Len(s) /\ i - Len(s) \in 1 .. Len(t) /\ u[i] = t[i - Len(s)]
    BY <1>2, <2>2 DEF Before
  <2> QED BY <1>1, <2>1, <2>2
<1> QED BY <1>1, <1>2 DEF Before, u

(* ... and have an empty range only if one of them has. *)
LEMMA FullConcat ==
  ASSUME NEW s \in Seq(ZoneRange), NEW t \in Seq(ZoneRange), Full(s), Full(t)
  PROVE  Full(s \o t)
<1> DEFINE u == s \o t
           L == Len(s) + Len(t)
<1>1. /\ u \in Seq(ZoneRange) /\ Len(u) = L /\ Len(s) \in Nat /\ Len(t) \in Nat
      /\ \A i \in 1 .. L :
           \/ i <= Len(s) /\ i \in 1 .. Len(s) /\ u[i] = s[i]
           \/ i > Len(s) /\ i - Len(s) \in 1 .. Len(t) /\ u[i] = t[i - Len(s)]
  BY ConcatParts
<1> HIDE DEF u, L
<1>2. ASSUME NEW i \in 1 .. L PROVE u[i].size > 0
  <2>1. CASE i <= Len(s) /\ i \in 1 .. Len(s) /\ u[i] = s[i]
    BY <2>1 DEF Full
  <2>2. CASE i > Len(s) /\ i - Len(s) \in 1 .. Len(t) /\ u[i] = t[i - Len(s)]
    BY <2>2 DEF Full
  <2> QED BY <1>1, <2>1, <2>2
<1> QED BY <1>1, <1>2 DEF Full, u

(* What is left of the ranges of a set, each cut by itself and in their      *)
(* order, stays apart and has the pages of the parts.                        *)
LEMMA FlattenLoose ==
  ASSUME NEW h, NEW q \in Seq(Seq(ZoneRange)),
         \A n \in 1 .. Len(q) : Loose(q[n], h),
         \A n, m \in 1 .. Len(q) : n < m => Before(q[n], q[m])
  PROVE  /\ Loose(FlattenSeq(q), h)
         /\ CoverAll(FlattenSeq(q)) = UNION {CoverAll(q[n]) : n \in 1 .. Len(q)}
         /\ (\A n \in 1 .. Len(q) : Full(q[n])) => Full(FlattenSeq(q))
<1> DEFINE L == Len(q)
           Parts(n) == UNION {CoverAll(q[k]) : k \in 1 .. n}
           AllFull == \A n \in 1 .. L : Full(q[n])
<1>0. /\ L \in Nat /\ L = Len(q) /\ \A n \in 1 .. L : q[n] \in Seq(ZoneRange) /\ Loose(q[n], h)
      /\ \A n, m \in 1 .. L : n < m => Before(q[n], q[m])
  OBVIOUS
<1>1. PICK f \in [0 .. Len(q) -> Seq(ZoneRange)] :
           /\ f[0] = <<>> /\ FlattenSeq(q) = f[Len(q)]
           /\ \A n \in 1 .. Len(q) : f[n] = f[n - 1] \o q[n]
  BY FlattenSteps
<1>2. /\ f \in [0 .. L -> Seq(ZoneRange)] /\ f[0] = <<>> /\ FlattenSeq(q) = f[L]
      /\ \A n \in 1 .. L : f[n] = f[n - 1] \o q[n]
  BY <1>1
<1> DEFINE Ok(n) == /\ Loose(f[n], h) /\ CoverAll(f[n]) = Parts(n)
                    /\ \A m \in 1 .. L : m > n => Before(f[n], q[m])
                    /\ AllFull => Full(f[n])
           T == {n \in Nat : n \in 0 .. L => Ok(n)}
<1> HIDE DEF L
<1>3. 0 \in T
  <2>1. f[0] = <<>> /\ <<>> \in Seq(ZoneRange) /\ Len(f[0]) = 0
    BY <1>2
  <2>2. Loose(f[0], h)
    BY <2>1 DEF Loose
  <2>3. CoverAll(f[0]) = {} /\ Parts(0) = {}
    BY <2>1 DEF CoverAll, ToSet
  <2>4. \A m \in 1 .. L : Before(f[0], q[m])
    BY <2>1 DEF Before
  <2>5. Full(f[0])
    BY <2>1 DEF Full
  <2> QED BY <2>2, <2>3, <2>4, <2>5
<1>4. ASSUME NEW n \in Nat, n \in T PROVE n + 1 \in T
  <2> SUFFICES ASSUME n + 1 \in 0 .. L PROVE Ok(n + 1)
    OBVIOUS
  <2> DEFINE k == n + 1
             s == f[n]
             t == q[k]
  <2>1. n \in 0 .. L /\ k \in 1 .. L /\ k - 1 = n /\ k \in 0 .. L
    BY <1>0
  <2>2. Ok(n)
    BY <1>4, <2>1
  <2>3. f[k] = s \o t /\ s \in Seq(ZoneRange) /\ t \in Seq(ZoneRange)
    BY <1>0, <1>2, <2>1
  <2>4. Loose(s, h) /\ Loose(t, h) /\ Before(s, t)
    BY <1>0, <2>1, <2>2
  <2>5. Loose(f[k], h)
    <3> HIDE DEF s, t, k
    <3> QED BY <2>3, <2>4, LooseConcat
  <2>6. CoverAll(f[k]) = Parts(n) \cup CoverAll(t)
    <3>1. CoverAll(s) = Parts(n)
      BY <2>2
    <3> HIDE DEF s, t, k
    <3>2. CoverAll(s \o t) = CoverAll(s) \cup CoverAll(t)
      BY <2>3, CoverConcat
    <3> QED BY <2>3, <3>1, <3>2
  <2>7. Parts(k) = Parts(n) \cup CoverAll(q[k])
    <3>1. 1 .. k = (1 .. n) \cup {k}
      OBVIOUS
    <3> QED BY <3>1
  <2>8. ASSUME NEW m \in 1 .. L, m > k PROVE Before(f[k], q[m])
    <3>1. Before(s, q[m])
      BY <2>1, <2>2, <2>8
    <3>2. Before(t, q[m])
      BY <1>0, <2>1, <2>8
    <3> HIDE DEF s, t, k
    <3> QED BY <2>3, <3>1, <3>2, BeforeConcat
  <2>9. ASSUME AllFull PROVE Full(f[k])
    <3>1. Full(s) /\ Full(t)
      BY <2>1, <2>2, <2>9
    <3> HIDE DEF s, t, k
    <3> QED BY <2>3, <3>1, FullConcat
  <2> HIDE DEF Parts, AllFull, s
  <2> QED BY <2>5, <2>6, <2>7, <2>8, <2>9
<1>5. Ok(L)
  <2> HIDE DEF T, Ok
  <2>1. \A n \in Nat : n \in T
    BY <1>3, <1>4, NatSetInduction
  <2> QED BY <1>0, <2>1 DEF T
<1> QED BY <1>0, <1>2, <1>5


(* Without empty ranges such a set is a trimmed configuration, and back. *)
LEMMA LooseFull ==
  ASSUME NEW set, NEW h \in Int, Loose(set, h), Full(set)
  PROVE  IsConfig(set, h) /\ Apart(set)
<1>0. set \in Seq(ZoneRange) /\ Len(set) \in Nat
  BY DEF Loose
<1>1. \A i \in 1 .. Len(set) : GoodRange(set[i], h)
  BY DEF Loose, Full
<1>2. \A i, j \in 1 .. Len(set) : i < j => End(set[i]) < set[j].base
  BY DEF Loose, Full
<1>3. ASSUME NEW i \in 1 .. Len(set), NEW j \in 1 .. Len(set), i < j PROVE set[i].base <= set[j].base
  <2>1. GoodRange(set[i], h) /\ GoodRange(set[j], h) /\ End(set[i]) < set[j].base
    BY <1>1, <1>2, <1>3
  <2>2. /\ set[i].base \in Nat /\ set[i].size \in Nat \ {0} /\ set[j].base \in Nat
        /\ End(set[i]) = set[i].base + (set[i].size - 1)
    BY <2>1 DEF GoodRange, IsRange, End
  <2> QED BY <2>1, <2>2
<1> QED BY <1>0, <1>1, <1>2, <1>3 DEF IsConfig, Apart

(* ... and the other way round. *)
LEMMA ConfigLoose ==
  ASSUME NEW set, NEW h \in Int, IsConfig(set, h), Apart(set)
  PROVE  Loose(set, h)
BY DEF IsConfig, Apart, Loose

(* trim_empty_ranges drops the empty ranges and nothing else. *)
LEMMA TrimEmptyKeeps ==
  ASSUME NEW set, NEW h \in Int, Loose(set, h)
  PROVE  /\ IsConfig(TrimEmptyRanges(set), h) /\ Apart(TrimEmptyRanges(set))
         /\ CoverAll(TrimEmptyRanges(set)) = CoverAll(set)
<1> DEFINE L == Len(set)
           q == [i \in 1 .. L |-> IF set[i].size > 0 THEN <<set[i]>> ELSE <<>>]
           new == FlattenSeq(q)
<1>0. set \in Seq(ZoneRange) /\ L \in Nat /\ L = Len(set) /\ \A i \in 1 .. L : set[i] \in ZoneRange /\ set[i].size \in Nat
  <2>1. set \in Seq(ZoneRange)
    BY DEF Loose
  <2>2. \A i \in 1 .. L : set[i] \in ZoneRange
    BY <2>1
  <2> QED BY <2>1, <2>2 DEF ZoneRange
<1>a. TrimEmptyRanges(set) = new
  BY DEF TrimEmptyRanges
<1>1. /\ q \in Seq(Seq(ZoneRange)) /\ Len(q) = L
      /\ \A i \in 1 .. L : q[i] = IF set[i].size > 0 THEN <<set[i]>> ELSE <<>>
  <2>1. \A i \in 1 .. L : (IF set[i].size > 0 THEN <<set[i]>> ELSE <<>>) \in Seq(ZoneRange)
    BY <1>0
  <2> QED BY <1>0, <2>1
<1>b. /\ \A i \in 1 .. L : set[i].size > 0 => GoodRange(set[i], h)
      /\ \A i, j \in 1 .. L : i < j /\ set[i].size > 0 /\ set[j].size > 0 => End(set[i]) < set[j].base
  BY DEF Loose
<1> HIDE DEF q, L, new
<1>2. \A i \in 1 .. L : \A k \in 1 .. Len(q[i]) : set[i].size > 0 /\ k = 1 /\ Len(q[i]) = 1 /\ q[i][k] = set[i]
  <2> SUFFICES ASSUME NEW i \in 1 .. L, NEW k \in 1 .. Len(q[i])
               PROVE  set[i].size > 0 /\ k = 1 /\ Len(q[i]) = 1 /\ q[i][k] = set[i]
    OBVIOUS
  <2>1. CASE set[i].size > 0
    <3>1. q[i] = <<set[i]>>
      BY <1>1, <2>1
    <3> QED BY <2>1, <3>1
  <2>2. CASE ~(set[i].size > 0)
    BY <1>1, <2>2
  <2> QED BY <2>1, <2>2
<1>3. ASSUME NEW n \in 1 .. L PROVE Loose(q[n], h) /\ Full(q[n])
  <2>1. q[n] \in Seq(ZoneRange)
    BY <1>1
  <2>2. \A k \in 1 .. Len(q[n]) : GoodRange(q[n][k], h) /\ q[n][k].size > 0
    BY <1>2, <1>b
  <2>3. \A i, j \in 1 .. Len(q[n]) : ~(i < j)
    BY <1>2
  <2> QED BY <2>1, <2>2, <2>3 DEF Loose, Full
<1>4. ASSUME NEW n \in 1 .. L, NEW m \in 1 .. L, n < m PROVE Before(q[n], q[m])
  <2> SUFFICES ASSUME NEW a \in 1 .. Len(q[n]), NEW b \in 1 .. Len(q[m]) PROVE End(q[n][a]) < q[m][b].base
    BY DEF Before
  <2>1. q[n][a] = set[n] /\ q[m][b] = set[m] /\ set[n].size > 0 /\ set[m].size > 0
    BY <1>2
  <2> QED BY <1>4, <1>b, <2>1
<1>5. Loose(new, h) /\ CoverAll(new) = UNION {CoverAll(q[n]) : n \in 1 .. Len(q)} /\ Full(new)
  <2>1. /\ \A n \in 1 .. Len(q) : Loose(q[n], h)
        /\ \A n, m \in 1 .. Len(q) : n < m => Before(q[n], q[m])
        /\ \A n \in 1 .. Len(q) : Full(q[n])
    BY <1>1, <1>3, <1>4
  <2> QED BY <1>1, <2>1, FlattenLoose DEF new
<1>6. ASSUME NEW a PROVE a \in CoverAll(new) <=> a \in CoverAll(set)
  <2>1. ASSUME NEW n \in 1 .. L, a \in CoverAll(q[n]) PROVE a \in CoverAll(set)
    <3>1. PICK k \in 1 .. Len(q[n]) : a \in Cover(q[n][k])
      BY <1>1, <2>1, InCoverAll
    <3>2. a \in Cover(set[n])
      BY <1>2, <3>1
    <3> QED BY <1>0, <3>2, InCoverAll
  <2>2. ASSUME a \in CoverAll(set) PROVE \E n \in 1 .. L : a \in CoverAll(q[n])
    <3>1. PICK n \in 1 .. L : a \in Cover(set[n])
      BY <1>0, <2>2, InCoverAll
    <3>2. set[n].size > 0
      <4>1. set[n].base \in Nat /\ set[n].size \in Nat
        BY <1>0 DEF ZoneRange
      <4> QED BY <3>1, <4>1 DEF Cover
    <3>3. q[n] = <<set[n]>>
      BY <1>1, <3>2
    <3>4. a \in CoverAll(q[n])
      BY <3>1, <3>3, CoverOne, CoverAllParts
    <3> QED BY <3>4
  <2> QED BY <1>1, <1>5, <2>1, <2>2
<1> QED BY <1>a, <1>5, <1>6, LooseFull

(* The parts that exclude leaves of a range lie in it, in order, and on the  *)
(* range's side of h; the upper one may be empty, with a base that wrapped.  *)
LEMMA ExcludeParts ==
  ASSUME NEW r, NEW e, NEW h \in Int, GoodRange(r, h), IsArea(e)
  PROVE  /\ Exclude(r, e) \in Seq(ZoneRange) /\ Loose(Exclude(r, e), h)
         /\ \A i \in 1 .. Len(Exclude(r, e)) :
              Exclude(r, e)[i].size > 0 =>
                r.base <= Exclude(r, e)[i].base /\ End(Exclude(r, e)[i]) <= End(r)
<1> DEFINE lo == Below(r, e)
           hi == Above(r, e)
           rb == r.base
           re == End(r)
           eb == e.base
           ee == End(e)
           up == (ee + 1) % (UMAX + 1)
           In(p) == p \in ZoneRange /\ (p.size > 0 => GoodRange(p, h) /\ rb <= p.base /\ End(p) <= re)
           Ok(s) == /\ s \in Seq(ZoneRange) /\ Loose(s, h)
                    /\ \A i \in 1 .. Len(s) : s[i].size > 0 => r.base <= s[i].base /\ End(s[i]) <= End(r)
<1>0. /\ rb \in Nat /\ re \in Nat /\ rb <= re /\ re <= UMAX /\ UMAX \in Nat
      /\ eb \in Nat /\ ee \in Nat /\ eb <= ee /\ r.tag \in Zone /\ r \in ZoneRange
      /\ (r.tag = "Linear" => re < h) /\ (r.tag = "High" => rb >= h)
  BY UmaxAssumption DEF GoodRange, IsRange, IsArea, End, ZoneRange
<1>a. /\ lo = [tag |-> r.tag, base |-> rb, size |-> eb - rb]
      /\ hi = [tag |-> r.tag, base |-> up, size |-> re - ee]
  BY DEF Below, Above
<1>b. /\ \A p : In(p) <=> p \in ZoneRange /\ (p.size > 0 => GoodRange(p, h) /\ rb <= p.base /\ End(p) <= re)
  OBVIOUS
<1>c. rb = r.base /\ re = End(r)
  OBVIOUS
<1> HIDE DEF lo, hi, rb, re, eb, ee, In
<1>1. ASSUME eb >= rb, eb <= re PROVE In(lo) /\ (lo.size > 0 => End(lo) = eb - 1)
  <2>1. eb - rb \in Nat
    BY <1>0, <1>1
  <2>2. lo \in ZoneRange /\ lo.tag = r.tag /\ lo.base = rb /\ lo.size = eb - rb
    BY <1>0, <1>a, <2>1 DEF ZoneRange
  <2>3. End(lo) = eb - 1
    BY <1>0, <2>2 DEF End
  <2>4. ASSUME lo.size > 0 PROVE GoodRange(lo, h) /\ rb <= lo.base /\ End(lo) <= re
    <3>1. IsRange(lo)
      BY <1>0, <1>1, <2>1, <2>2, <2>3, <2>4 DEF IsRange
    <3> QED BY <1>0, <1>1, <2>2, <2>3, <3>1 DEF GoodRange
  <2> QED BY <1>b, <2>2, <2>3, <2>4
<1>2. ASSUME ee <= re, ee >= rb PROVE In(hi) /\ (hi.size > 0 => hi.base = ee + 1)
  <2>1. re - ee \in Nat /\ up \in Nat
    BY <1>0, <1>2
  <2>2. hi \in ZoneRange /\ hi.tag = r.tag /\ hi.base = up /\ hi.size = re - ee
    <3> HIDE DEF up
    <3> QED BY <1>0, <1>a, <2>1 DEF ZoneRange
  <2>3. ASSUME hi.size > 0 PROVE hi.base = ee + 1 /\ GoodRange(hi, h) /\ rb <= hi.base /\ End(hi) <= re
    <3>1. ee < UMAX
      BY <1>0, <1>2, <2>2, <2>3
    <3>2. up = ee + 1
      BY <1>0, <3>1
    <3>3. End(hi) = re /\ hi.base = ee + 1
      <4> HIDE DEF up
      <4> QED BY <1>0, <2>2, <3>2 DEF End
    <3>4. IsRange(hi)
      BY <1>0, <2>1, <2>2, <2>3, <3>3 DEF IsRange
    <3> QED BY <1>0, <1>2, <2>2, <3>3, <3>4 DEF GoodRange
  <2> QED BY <1>b, <2>2, <2>3
<1>3. In(r)
  BY <1>0, <1>b, <1>c
<1>4. ASSUME NEW p, In(p) PROVE Ok(<<p>>)
  <2>1. <<p>> \in Seq(ZoneRange) /\ Len(<<p>>) = 1 /\ <<p>>[1] = p
    BY <1>4, <1>b
  <2> QED BY <1>4, <1>b, <1>c, <2>1 DEF Loose
<1>5. Ok(<<>>)
  BY DEF Loose
<1>6. ASSUME NEW p, NEW s, In(p), In(s), p.size > 0 /\ s.size > 0 => End(p) < s.base PROVE Ok(<<p, s>>)
  <2> DEFINE t == <<p, s>>
  <2>1. t \in Seq(ZoneRange) /\ Len(t) = 2 /\ t[1] = p /\ t[2] = s
    BY <1>6, <1>b
  <2> HIDE DEF t
  <2>2. \A i \in 1 .. 2 : In(t[i])
    <3>1. \A i \in 1 .. 2 : i = 1 \/ i = 2
      OBVIOUS
    <3> QED BY <1>6, <2>1, <3>1
  <2>3. \A i, j \in 1 .. 2 : i < j => i = 1 /\ j = 2
    OBVIOUS
  <2>4. Ok(t)
    BY <1>6, <1>b, <1>c, <2>1, <2>2, <2>3 DEF Loose
  <2> QED BY <2>4 DEF t
<1>7. Ok(Exclude(r, e))
  <2> HIDE DEF Ok
  <2>0. /\ ee = End(e) /\ eb = e.base /\ lo = Below(r, e) /\ hi = Above(r, e)
    BY DEF ee, eb, lo, hi
  <2>1. CASE Cmp(r, e) \in {"Less", "Greater"}
    <3>1. Exclude(r, e) = <<r>> BY <2>1 DEF Exclude
    <3> QED BY <1>3, <1>4, <3>1
  <2>2. CASE Cmp(r, e) \in {"Equal", "Subset"}
    <3>1. Exclude(r, e) = <<>> BY <2>2 DEF Exclude
    <3> QED BY <1>5, <3>1
  <2>3. CASE Cmp(r, e) = "LessEqual"
    <3>1. Exclude(r, e) = <<lo>> BY <2>0, <2>3 DEF Exclude
    <3>2. rb < eb /\ eb <= re BY <1>0, <1>c, <2>0, <2>3 DEF Cmp
    <3> QED BY <1>0, <1>1, <1>4, <3>1, <3>2
  <2>4. CASE Cmp(r, e) = "GreaterEqual"
    <3>1. Exclude(r, e) = <<hi>> BY <2>0, <2>4 DEF Exclude
    <3>2. rb <= ee /\ ee <= re BY <1>0, <1>c, <2>0, <2>4 DEF Cmp
    <3> QED BY <1>0, <1>2, <1>4, <3>1, <3>2
  <2>5. CASE Cmp(r, e) = "Superset"
    <3>1. Exclude(r, e) = <<lo, hi>> BY <2>0, <2>5 DEF Exclude
    <3>2. rb <= eb /\ eb <= re /\ rb <= ee /\ ee <= re BY <1>0, <1>c, <2>0, <2>5 DEF Cmp
    <3>3. In(lo) /\ In(hi) /\ (lo.size > 0 => End(lo) = eb - 1) /\ (hi.size > 0 => hi.base = ee + 1)
      BY <1>0, <1>1, <1>2, <3>2
    <3>4. lo.size > 0 /\ hi.size > 0 => End(lo) < hi.base
      BY <1>0, <3>3
    <3> QED BY <1>6, <3>1, <3>3, <3>4
  <2>6. Cmp(r, e) \in {"Less", "Greater", "Equal", "Subset", "LessEqual", "GreaterEqual", "Superset"}
    BY DEF Cmp
  <2> QED BY <2>1, <2>2, <2>3, <2>4, <2>5, <2>6
<1> QED BY <1>7

(* exclude_range keeps the order, leaves no empty range, and takes exactly   *)
(* the excluded pages out of the set, whatever overlaps the area.            *)
LEMMA ExcludeRangeKeeps ==
  ASSUME NEW set, NEW h \in Int, NEW e, IsConfig(set, h), Apart(set), e.base \in Nat, e.size \in Nat
  PROVE  /\ IsConfig(ExcludeRange(set, e), h) /\ Apart(ExcludeRange(set, e))
         /\ CoverAll(ExcludeRange(set, e)) = CoverAll(set) \ Cover(e)
<1>1. CASE e.size = 0
  <2>1. ExcludeRange(set, e) = set
    BY <1>1 DEF ExcludeRange
  <2>2. Cover(e) = {}
    BY <1>1 DEF Cover
  <2> QED BY <2>1, <2>2
<1>2. CASE e.size # 0
  <2> DEFINE L == Len(set)
             q == [i \in 1 .. L |-> Exclude(set[i], e)]
             mid == FlattenSeq(q)
  <2>0. /\ set \in Seq(ZoneRange) /\ L \in Nat /\ L = Len(set) /\ IsArea(e)
        /\ \A i \in 1 .. L : GoodRange(set[i], h)
        /\ \A i, j \in 1 .. L : i < j => End(set[i]) < set[j].base
    BY <1>2 DEF IsConfig, Apart, IsArea
  <2>1. ExcludeRange(set, e) = TrimEmptyRanges(mid)
    BY <1>2 DEF ExcludeRange, Pieces
  <2>2. \A i \in 1 .. L : /\ Exclude(set[i], e) \in Seq(ZoneRange) /\ Loose(Exclude(set[i], e), h)
                          /\ CoverParts(Exclude(set[i], e)) = Cover(set[i]) \ Cover(e)
    <3> SUFFICES ASSUME NEW i \in 1 .. L
                 PROVE  /\ Exclude(set[i], e) \in Seq(ZoneRange) /\ Loose(Exclude(set[i], e), h)
                        /\ CoverParts(Exclude(set[i], e)) = Cover(set[i]) \ Cover(e)
      OBVIOUS
    <3>1. GoodRange(set[i], h) /\ IsRange(set[i])
      BY <2>0 DEF GoodRange
    <3> HIDE DEF L
    <3> QED BY <2>0, <3>1, ExcludeParts, ExcludeExact
  <2>3. /\ q \in Seq(Seq(ZoneRange)) /\ Len(q) = L /\ \A i \in 1 .. L : q[i] = Exclude(set[i], e)
    BY <2>0, <2>2
  <2> HIDE DEF L, q, mid
  <2>4. ASSUME NEW n \in 1 .. L, NEW m \in 1 .. L, n < m PROVE Before(q[n], q[m])
    <3> DEFINE x == Exclude(set[n], e)
               y == Exclude(set[m], e)
    <3>1. /\ \A i \in 1 .. Len(x) : x[i].size > 0 => set[n].base <= x[i].base /\ End(x[i]) <= End(set[n])
          /\ \A i \in 1 .. Len(y) : y[i].size > 0 => set[m].base <= y[i].base /\ End(y[i]) <= End(set[m])
      BY <2>0, ExcludeParts
    <3>2. x \in Seq(ZoneRange) /\ y \in Seq(ZoneRange) /\ q[n] = x /\ q[m] = y
      BY <2>2, <2>3
    <3>3. End(set[n]) < set[m].base /\ End(set[n]) \in Int /\ set[m].base \in Int
      <4>1. GoodRange(set[n], h) /\ GoodRange(set[m], h) /\ End(set[n]) < set[m].base
        BY <2>0, <2>4
      <4>2. set[n].base \in Nat /\ set[n].size \in Nat /\ set[m].base \in Nat
        BY <4>1 DEF GoodRange, IsRange
      <4> QED BY <4>1, <4>2 DEF End
    <3> HIDE DEF x, y
    <3> SUFFICES ASSUME NEW a \in 1 .. Len(x), NEW b \in 1 .. Len(y), x[a].size > 0, y[b].size > 0
                 PROVE  End(x[a]) < y[b].base
      BY <3>2 DEF Before
    <3>4. End(x[a]) <= End(set[n]) /\ set[m].base <= y[b].base
      BY <3>1
    <3>5. End(x[a]) \in Int /\ y[b].base \in Int
      <4>1. x[a] \in ZoneRange /\ y[b] \in ZoneRange
        BY <3>2
      <4> QED BY <4>1 DEF ZoneRange, End
    <3> QED BY <3>3, <3>4, <3>5
  <2>5. Loose(mid, h) /\ CoverAll(mid) = UNION {CoverAll(q[n]) : n \in 1 .. Len(q)}
    <3>1. /\ \A n \in 1 .. Len(q) : Loose(q[n], h)
          /\ \A n, m \in 1 .. Len(q) : n < m => Before(q[n], q[m])
      BY <2>2, <2>3, <2>4
    <3> QED BY <2>3, <3>1, FlattenLoose DEF mid
  <2>6. ASSUME NEW a PROVE a \in CoverAll(mid) <=> a \in CoverAll(set) \ Cover(e)
    <3>1. \A n \in 1 .. L : CoverAll(q[n]) = Cover(set[n]) \ Cover(e)
      BY <2>2, <2>3, CoverAllParts
    <3>2. a \in CoverAll(mid) <=> \E n \in 1 .. L : a \in Cover(set[n]) \ Cover(e)
      BY <2>3, <2>5, <3>1
    <3>3. a \in CoverAll(set) <=> \E n \in 1 .. L : a \in Cover(set[n])
      BY <2>0, InCoverAll
    <3> QED BY <3>2, <3>3
  <2> QED BY <2>1, <2>5, <2>6, TrimEmptyKeeps
<1> QED BY <1>1, <1>2


-----------------------------------------------------------------------------
(*****************************************************************************)
(* Boot.                                                                     *)
(*****************************************************************************)

(* The areas excluded up to one of them. *)
LEMMA CoverPrefix ==
  ASSUME NEW S, NEW s \in Seq(S)
  PROVE  /\ CoverAll(SubSeq(s, 1, 0)) = {} /\ SubSeq(s, 1, Len(s)) = s
         /\ \A n \in 1 .. Len(s) :
              CoverAll(SubSeq(s, 1, n)) = CoverAll(SubSeq(s, 1, n - 1)) \cup Cover(s[n])
<1>1. CoverAll(SubSeq(s, 1, 0)) = {}
  <2>1. SubSeq(s, 1, 0) = <<>>
    OBVIOUS
  <2> QED BY <2>1, CoverNone, CoverAllParts
<1>2. SubSeq(s, 1, Len(s)) = s
  OBVIOUS
<1>3. ASSUME NEW n \in 1 .. Len(s)
      PROVE  CoverAll(SubSeq(s, 1, n)) = CoverAll(SubSeq(s, 1, n - 1)) \cup Cover(s[n])
  <2> DEFINE t == SubSeq(s, 1, n)
             u == SubSeq(s, 1, n - 1)
  <2>1. t \in Seq(S) /\ Len(t) = n /\ \A i \in 1 .. n : t[i] = s[i]
    OBVIOUS
  <2>2. u \in Seq(S) /\ Len(u) = n - 1 /\ \A i \in 1 .. n - 1 : u[i] = s[i]
    OBVIOUS
  <2> HIDE DEF t, u
  <2>3. ASSUME NEW a, a \in CoverAll(t) PROVE a \in CoverAll(u) \cup Cover(s[n])
    <3>1. PICK i \in 1 .. n : a \in Cover(s[i])
      BY <2>1, <2>3, InCoverAll
    <3>2. CASE i = n
      BY <3>1, <3>2
    <3>3. CASE i # n
      <4>1. i \in 1 .. Len(u) /\ a \in Cover(u[i])
        BY <2>2, <3>1, <3>3
      <4> QED BY <2>2, <4>1, InCoverAll
    <3> QED BY <3>2, <3>3
  <2>4. ASSUME NEW a, a \in CoverAll(u) PROVE a \in CoverAll(t)
    <3>1. PICK i \in 1 .. n - 1 : a \in Cover(s[i])
      BY <2>2, <2>4, InCoverAll
    <3>2. i \in 1 .. Len(t) /\ a \in Cover(t[i])
      BY <2>1, <3>1
    <3> QED BY <2>1, <3>2, InCoverAll
  <2>5. Cover(s[n]) \subseteq CoverAll(t)
    BY <2>1, InCoverAll
  <2> QED BY <2>3, <2>4, <2>5 DEF t, u
<1> QED BY <1>1, <1>2, <1>3

(* What init_memory_config excludes. *)
LEMMA ExclusionsAre ==
  ASSUME machine \in Machines
  PROVE  /\ Exclusions \in Seq({Exclusions[i] : i \in 1 .. 4}) /\ Len(Exclusions) = 4
         /\ \A i \in 1 .. 4 : Exclusions[i].base \in Nat /\ Exclusions[i].size \in Nat
         /\ \A a \in virtual_base .. UMAX : a \in Reserved
<1>1. /\ UMAX \in Nat /\ virtual_base \in 1 .. UMAX /\ kernel_end \in Nat
      /\ machine.page_database.base \in Nat /\ machine.page_database.size \in Nat
      /\ Blob.base \in Nat /\ Blob.size \in Nat
  BY UmaxAssumption, MemoryAssumption
<1> DEFINE x1 == machine.page_database
           x2 == Area(virtual_base, UMAX - virtual_base + 1)
           x3 == Area(0, kernel_end)
           x == Exclusions
<1>2. /\ x2.base = virtual_base /\ x2.size = UMAX - virtual_base + 1 /\ x3.base = 0 /\ x3.size = kernel_end
  BY DEF Area
<1>3. x = <<x1, x2, x3, Blob>>
  BY DEF Exclusions
<1> HIDE DEF x1, x2, x3
<1>4. Len(x) = 4 /\ x[1] = x1 /\ x[2] = x2 /\ x[3] = x3 /\ x[4] = Blob /\ DOMAIN x = 1 .. 4 /\ x \in Seq({x1, x2, x3, Blob})
  BY <1>3
<1> HIDE DEF x
<1>5. \A i \in 1 .. 4 : i = 1 \/ i = 2 \/ i = 3 \/ i = 4
  OBVIOUS
<1>6. \A i \in 1 .. 4 : x[i].base \in Nat /\ x[i].size \in Nat
  <2>1. x1.base \in Nat /\ x1.size \in Nat
    BY <1>1 DEF x1
  <2>2. x2.base \in Nat /\ x2.size \in Nat /\ x3.base \in Nat /\ x3.size \in Nat
    BY <1>1, <1>2
  <2>3. /\ x[1].base \in Nat /\ x[1].size \in Nat /\ x[2].base \in Nat /\ x[2].size \in Nat
        /\ x[3].base \in Nat /\ x[3].size \in Nat /\ x[4].base \in Nat /\ x[4].size \in Nat
    BY <1>1, <1>4, <2>1, <2>2
  <2> QED BY <1>5, <2>3
<1>7. x \in Seq({x[i] : i \in 1 .. 4})
  <2> DEFINE S == {x[i] : i \in 1 .. 4}
  <2>1. \A i \in 1 .. 4 : x[i] \in S
    OBVIOUS
  <2>2. x = [i \in 1 .. 4 |-> x[i]]
    BY <1>4
  <2> HIDE DEF S
  <2>3. x \in [1 .. 4 -> S]
    BY <2>1, <2>2
  <2>4. x \in Seq(S)
    BY <2>3, SeqDef
  <2> QED BY <2>4 DEF S
<1>8. ASSUME NEW a \in virtual_base .. UMAX PROVE a \in CoverAll(x)
  <2>1. a \in Cover(x[2])
    BY <1>1, <1>2, <1>4 DEF Cover
  <2> QED BY <1>4, <2>1, InCoverAll
<1> QED BY <1>4, <1>6, <1>7, <1>8 DEF x, Reserved

(* The pages below high memory. *)
LinearPages(set) == {a \in CoverAll(set) : a < high_mem_base}

(* What init_allocators has laid out. *)
Laid ==
  /\ ~MetadataPanics /\ meta = Cover(Area(MetaBase, MetaTotal))
  /\ zones = [z \in Zone |-> IF z \in Served THEN NewAllocator(z) ELSE NoZone]

(* The inductive invariant: the set is sorted and its ranges on their zone's *)
(* side in every phase, holds what was reported less what was excluded, and  *)
(* is trimmed up to the index that trim_overlapping_ranges compares at.      *)
MemoryInv ==
  /\ machine \in Machines
  /\ phase \in {"new", "root", "scan", "trim", "exclude", "zones", "done", "panic"}
  /\ IsConfig(config, high_mem_base)
  /\ phase \in {"new", "root", "scan"} =>
       /\ Len(config) <= SET_SIZE /\ CoverAll(config) = reported
       /\ root_cells \in RootCells(machine.cell)
  /\ phase = "trim" =>
       step \in Nat \ {0} /\ TrimmedTo(config, step) /\ CoverAll(config) = reported
  /\ phase = "exclude" =>
       /\ Apart(config) /\ step \in 1 .. 5
       /\ CoverAll(config) = reported \ CoverAll(SubSeq(Exclusions, 1, step - 1))
  /\ phase \in {"zones", "done"} =>
       Apart(config) /\ CoverAll(config) = reported \ Reserved /\ mapped = LinearPages(config)
  /\ phase = "done" => Laid

(* Boot begins without memory. *)
LEMMA MemoryInit == Init => MemoryInv
<1> SUFFICES ASSUME Init PROVE MemoryInv
  OBVIOUS
<1>1. machine \in Machines /\ phase = "new" /\ config = <<>> /\ reported = {} /\ addr_cells = 0 /\ size_cells = 0
  BY DEF Init
<1>2. config \in Seq(ZoneRange) /\ Len(config) = 0
  BY <1>1
<1>3. IsConfig(config, high_mem_base)
  BY <1>2 DEF IsConfig
<1>4. CoverAll(config) = reported
  BY <1>1, CoverNone, CoverAllParts
<1>5. root_cells \in RootCells(machine.cell)
  BY <1>1 DEF root_cells, NoCells, RootCells
<1>6. Len(config) <= SET_SIZE
  BY <1>2, SetSizeAssumption
<1> QED BY <1>1, <1>3, <1>4, <1>5, <1>6 DEF MemoryInv

(* What a node says of memory are pairs of numbers. *)
LEMMA SaidPairs ==
  ASSUME NEW node \in Nodes, NEW count
  PROVE  MemorySaid(node, count) \in Seq(Nat \X Nat)
<1>1. Pairs(node) \in Seq(Nat \X Nat)
  <2>1. CASE \E i \in DOMAIN node.props : node.props[i].name = "reg"
    <3> DEFINE k == CHOOSE i \in DOMAIN node.props : node.props[i].name = "reg"
    <3>1. k \in DOMAIN node.props /\ node.props[k].name = "reg"
      BY <2>1
    <3>2. Pairs(node) = node.props[k].value
      BY <2>1 DEF Pairs, Said
    <3> HIDE DEF k
    <3> QED BY <3>1, <3>2, MemoryAssumption
  <2>2. CASE ~\E i \in DOMAIN node.props : node.props[i].name = "reg"
    <3>1. Pairs(node) = <<>>
      BY <2>2 DEF Pairs, Said
    <3> QED BY <3>1
  <2> QED BY <2>1, <2>2
<1> QED BY <1>1 DEF MemorySaid

(* A turn of scan leads on, to trim_ranges or to a panic. *)
LEMMA AfterNodePhase ==
  ASSUME NEW dtb, NEW ok, NEW acells, NEW scells, AfterNode(dtb, ok, acells, scells)
  PROVE  /\ phase' \in {"scan", "trim", "panic"}
         /\ ~ok => phase' = "panic"
         /\ addr_cells' \in {acells, 0} /\ size_cells' \in {scells, 0}
         /\ phase' = "scan" => addr_cells' = acells /\ size_cells' = scells
<1>1. \/ phase' = "scan" /\ ok
      \/ phase' = "trim" /\ ok
      \/ phase' = "panic"
  BY DEF AfterNode
<1> QED BY <1>1 DEF AfterNode


(* The machine alone tells where high memory begins. *)
LEMMA SameBase == ASSUME machine' = machine PROVE high_mem_base' = high_mem_base
BY DEF high_mem_base

(* What init_allocators computes depends on the machine and the set only. *)
LEMMA LaidOut ==
  ASSUME machine' = machine, config' = config, ~MetadataPanics,
         meta' = Cover(Area(MetaBase, MetaTotal)),
         zones' = [z \in Zone |-> IF z \in Served THEN NewAllocator(z) ELSE NoZone]
  PROVE  Laid'
<1>1. \A z : ZoneIndices(z)' = ZoneIndices(z)
  BY DEF ZoneIndices
<1>2. \A z : BoundingRange(z)' = BoundingRange(z)
  BY <1>1 DEF BoundingRange
<1>3. MetaTotal' = MetaTotal /\ \A z : MetaSize(z)' = MetaSize(z)
  BY <1>2 DEF MetaTotal, MetaSize
<1>4. MetaHosts' = MetaHosts
  BY <1>3 DEF MetaHosts, HoldsMetadata
<1>5. MetaBase' = MetaBase
  BY <1>3, <1>4 DEF MetaBase
<1>6. MetadataPanics' = MetadataPanics
  BY <1>3, <1>5 DEF MetadataPanics, ExcludePanics
<1>7. AllocConfig' = AllocConfig
  BY <1>3, <1>5 DEF AllocConfig
<1>8. \A z : ZoneMetadata(z)' = ZoneMetadata(z)
  BY <1>1, <1>3, <1>5 DEF ZoneMetadata
<1>9. \A z : NewAllocator(z)' = NewAllocator(z)
  BY <1>1, <1>2, <1>7, <1>8 DEF NewAllocator
<1>10. Served' = Served
  BY <1>1 DEF Served
<1>11. ~MetadataPanics'
  BY <1>6
<1>12. meta' = Cover(Area(MetaBase', MetaTotal'))
  BY <1>3, <1>5
<1>13. zones' = [z \in Zone |-> IF z \in Served' THEN NewAllocator(z)' ELSE NoZone]
  BY <1>9, <1>10
<1> QED BY <1>11, <1>12, <1>13 DEF Laid

(* ... so that it stays while they do. *)
LEMMA SameLayout ==
  ASSUME machine' = machine, config' = config, meta' = meta, zones' = zones, Laid PROVE Laid'
<1>1. /\ ~MetadataPanics /\ meta' = Cover(Area(MetaBase, MetaTotal))
      /\ zones' = [z \in Zone |-> IF z \in Served THEN NewAllocator(z) ELSE NoZone]
  BY DEF Laid
<1> QED BY <1>1, LaidOut

(* A step that changes no variable of the invariant but the phase, to panic. *)
LEMMA PanicKeeps == MemoryInv /\ Panic => MemoryInv'
<1> SUFFICES ASSUME MemoryInv, Panic PROVE MemoryInv'
  OBVIOUS
<1>1. phase' = "panic" /\ machine' = machine /\ config' = config
  BY DEF Panic
<1>2. machine \in Machines /\ IsConfig(config, high_mem_base)
  BY DEF MemoryInv
<1>3. IsConfig(config', high_mem_base')
  BY <1>1, <1>2, SameBase
<1> QED BY <1>1, <1>2, <1>3 DEF MemoryInv

(* ... and one that changes none. *)
LEMMA StutterKeeps == MemoryInv /\ UNCHANGED vars => MemoryInv'
<1> SUFFICES ASSUME MemoryInv, UNCHANGED vars PROVE MemoryInv'
  OBVIOUS
<1>1. /\ machine' = machine /\ phase' = phase /\ addr_cells' = addr_cells /\ size_cells' = size_cells
      /\ step' = step /\ reported' = reported /\ config' = config /\ mapped' = mapped
      /\ zones' = zones /\ meta' = meta
  BY DEF vars, cells
<1>2. high_mem_base' = high_mem_base
  BY <1>1, SameBase
<1>3. root_cells' = root_cells /\ Exclusions' = Exclusions
  BY <1>1 DEF root_cells, Exclusions
<1>4. Reserved' = Reserved
  BY <1>3 DEF Reserved
<1>5. Laid => Laid'
  BY <1>1, SameLayout
<1>6. LinearPages(config)' = LinearPages(config)
  BY <1>1, <1>2 DEF LinearPages
<1>7. IsConfig(config', high_mem_base')
  BY <1>1, <1>2 DEF MemoryInv
<1> QED BY <1>1, <1>2, <1>3, <1>4, <1>5, <1>6, <1>7 DEF MemoryInv

(* get_memory_layout up to the scan. *)
LEMMA NewReaderKeeps == ASSUME NEW header, MemoryInv, NewReader(header) PROVE MemoryInv'
<1>1. /\ phase = "new" /\ phase' \in {"root", "panic"} /\ machine' = machine /\ config' = config
      /\ reported' = reported /\ addr_cells' = addr_cells /\ size_cells' = size_cells
  BY DEF NewReader, cells
<1>2. /\ machine \in Machines /\ IsConfig(config, high_mem_base) /\ Len(config) <= SET_SIZE
      /\ CoverAll(config) = reported /\ root_cells \in RootCells(machine.cell)
  BY <1>1 DEF MemoryInv
<1>3. IsConfig(config', high_mem_base')
  BY <1>1, <1>2, SameBase
<1>4. root_cells' \in RootCells(machine'.cell)
  BY <1>1, <1>2 DEF root_cells
<1> QED BY <1>1, <1>2, <1>3, <1>4 DEF MemoryInv

(* The invariant after a turn of scan, from what the turn did. *)
LEMMA ScanKeeps ==
  ASSUME machine' = machine, machine \in Machines, phase' \in {"scan", "trim", "panic"},
         IsConfig(config', high_mem_base),
         phase' # "panic" => Len(config') <= SET_SIZE /\ CoverAll(config') = reported',
         phase' = "trim" => step' = 1, phase' = "scan" => root_cells' \in RootCells(machine.cell)
  PROVE  MemoryInv'
<1>1. IsConfig(config', high_mem_base')
  BY SameBase
<1>2. ASSUME phase' = "trim" PROVE step' \in Nat \ {0} /\ TrimmedTo(config', step')
  BY <1>2 DEF TrimmedTo
<1>3. phase' = "scan" \/ phase' = "trim" \/ phase' = "panic"
  OBVIOUS
<1> QED BY <1>1, <1>2, <1>3 DEF MemoryInv

(* scan_root_node takes the cells and leaves the memory alone. *)
LEMMA ScanRootKeeps == ASSUME NEW node \in Nodes, MemoryInv, ScanRootNode(node) PROVE MemoryInv'
<1> DEFINE read == RootRead(node, machine.cell)
           dtb == NodeWords(node, NoCells, machine.cell)
<1>1. /\ phase = "root" /\ node.name = "" /\ machine' = machine /\ config' = config
      /\ reported' = reported /\ AfterNode(dtb, read.ok, read.addr_cells, read.size_cells)
      /\ step' = IF phase' = "trim" THEN 1 ELSE step
  BY DEF ScanRootNode
<1>2. /\ machine \in Machines /\ IsConfig(config, high_mem_base) /\ Len(config) <= SET_SIZE
      /\ CoverAll(config) = reported
  BY <1>1 DEF MemoryInv
<1> HIDE DEF read, dtb
<1>3. /\ phase' \in {"scan", "trim", "panic"}
      /\ phase' = "scan" => addr_cells' = read.addr_cells /\ size_cells' = read.size_cells
  BY <1>1, AfterNodePhase
<1>4. ASSUME phase' = "scan" PROVE root_cells' \in RootCells(machine.cell)
  <2>1. root_cells' = [addr |-> read.addr_cells, size |-> read.size_cells]
    BY <1>3, <1>4 DEF root_cells
  <2> QED BY <1>1, <2>1 DEF read, RootCells
<1>5. IsConfig(config', high_mem_base) /\ Len(config') <= SET_SIZE /\ CoverAll(config') = reported'
  BY <1>1, <1>2
<1> QED BY <1>1, <1>2, <1>3, <1>4, <1>5, ScanKeeps

(* scan_device_node takes the memory that the node says. *)
LEMMA ScanDeviceKeeps == ASSUME NEW node \in NextNodes, MemoryInv, ScanDeviceNode(node) PROVE MemoryInv'
<1> DEFINE count == CellsOf(node, root_cells)
           dtb == NodeWords(node, count, machine.cell)
           read == ReadNode(dtb, root_cells)
           said == MemorySaid(node, count)
           got == MemoryRead(dtb, read, machine.cell)
           new == AddMemoryBlocks(config, got)
<1>1. /\ phase = "scan" /\ node.name # "" /\ machine' = machine
      /\ config' = (IF read.ok THEN new ELSE config)
      /\ reported' = ReportPairs(reported, Len(config), said)
      /\ AfterNode(dtb, read.ok, addr_cells, size_cells)
      /\ step' = IF phase' = "trim" THEN 1 ELSE step + Len(Pairs(node))
  BY DEF ScanDeviceNode, Reported
<1>2. /\ machine \in Machines /\ IsConfig(config, high_mem_base) /\ Len(config) <= SET_SIZE
      /\ CoverAll(config) = reported /\ root_cells \in RootCells(machine.cell)
  BY <1>1 DEF MemoryInv
<1>3. node \in Nodes /\ PairsFit(node, count, machine.cell)
  BY DEF NextNodes
<1>4. read.ok => got = said
  BY <1>1, <1>2, <1>3, ReaderAssumption
<1>5. said \in Seq(Nat \X Nat)
  BY <1>3, SaidPairs
<1> HIDE DEF count, dtb, read, said, got
<1>6. ASSUME read.ok
      PROVE  IsConfig(config', high_mem_base) /\ Len(config') <= SET_SIZE /\ CoverAll(config') = reported'
  <2> DEFINE set == config
  <2>1. config' = AddMemoryBlocks(set, said) /\ reported' = ReportPairs(CoverAll(set), Len(set), said)
    BY <1>1, <1>2, <1>4, <1>6
  <2> HIDE DEF set
  <2>2. IsConfig(set, high_mem_base) /\ Len(set) <= SET_SIZE
    BY <1>2 DEF set
  <2>3. /\ IsConfig(AddMemoryBlocks(set, said), high_mem_base) /\ Len(AddMemoryBlocks(set, said)) <= SET_SIZE
        /\ CoverAll(AddMemoryBlocks(set, said)) = ReportPairs(CoverAll(set), Len(set), said)
    BY <1>2, <1>5, <2>2, BlocksKeep
  <2> QED BY <2>1, <2>3
<1>7. /\ phase' \in {"scan", "trim", "panic"} /\ (~read.ok => phase' = "panic")
      /\ phase' = "scan" => addr_cells' = addr_cells /\ size_cells' = size_cells
  <2>1. AfterNode(dtb, read.ok, addr_cells, size_cells)
    BY <1>1
  <2>2. CASE read.ok
    BY <2>1, <2>2 DEF AfterNode
  <2>3. CASE ~read.ok
    BY <2>1, <2>3 DEF AfterNode
  <2> QED BY <2>2, <2>3
<1>8. IsConfig(config', high_mem_base)
  <2>1. CASE read.ok
    BY <1>6, <2>1
  <2>2. CASE ~read.ok
    BY <1>1, <1>2, <2>2
  <2> QED BY <2>1, <2>2
<1>9. phase' # "panic" => Len(config') <= SET_SIZE /\ CoverAll(config') = reported'
  BY <1>6, <1>7
<1>10. phase' = "scan" => root_cells' \in RootCells(machine.cell)
  BY <1>2, <1>7 DEF root_cells
<1>11. phase' = "trim" => step' = 1
  BY <1>1
<1> QED BY <1>1, <1>2, <1>7, <1>8, <1>9, <1>10, <1>11, ScanKeeps

(* trim_overlapping_ranges moves on ... *)
LEMMA TrimAdvanceInv == ASSUME MemoryInv, TrimAdvance PROVE MemoryInv'
<1>1. /\ phase = "trim" /\ phase' = "trim" /\ step < Len(config) /\ ~Overlap(step) /\ step' = step + 1
      /\ machine' = machine /\ config' = config /\ reported' = reported
  BY DEF TrimAdvance
<1>2. /\ machine \in Machines /\ IsConfig(config, high_mem_base) /\ CoverAll(config) = reported
      /\ step \in Nat \ {0} /\ TrimmedTo(config, step)
  BY <1>1 DEF MemoryInv
<1>3. Cmp(config[step], config[step + 1]) \in {"Less", "Greater"}
  BY <1>1 DEF Overlap
<1>4. TrimmedTo(config, step + 1)
  <2> DEFINE set == config
             i == step
             h == high_mem_base
  <2>1. /\ IsConfig(set, h) /\ TrimmedTo(set, i) /\ Cmp(set[i], set[i + 1]) \in {"Less", "Greater"}
        /\ i \in 1 .. Len(set) - 1 /\ h \in Int
    <3>1. Len(config) \in Nat
      BY <1>2 DEF IsConfig
    <3> QED BY <1>1, <1>2, <1>3, <3>1, HighMemBase
  <2> HIDE DEF set, i, h
  <2>2. TrimmedTo(set, i + 1)
    BY <2>1, TrimAdvanceKeeps
  <2> QED BY <2>2 DEF set, i
<1>5. IsConfig(config', high_mem_base') /\ step' \in Nat \ {0} /\ TrimmedTo(config', step')
  BY <1>1, <1>2, <1>4, SameBase
<1> QED BY <1>1, <1>2, <1>5 DEF MemoryInv

(* ... or merges two ranges. *)
LEMMA TrimMergeInv == ASSUME MemoryInv, TrimMerge PROVE MemoryInv'
<1>1. /\ phase = "trim" /\ phase' = "trim" /\ step < Len(config) /\ Overlap(step) /\ step' = step
      /\ machine' = machine /\ config' = TrimStep(config, step) /\ reported' = reported
  BY DEF TrimMerge
<1>2. /\ machine \in Machines /\ IsConfig(config, high_mem_base) /\ CoverAll(config) = reported
      /\ step \in Nat \ {0} /\ TrimmedTo(config, step)
  BY <1>1 DEF MemoryInv
<1>3. Cmp(config[step], config[step + 1]) \notin {"Less", "Greater"}
  BY <1>1 DEF Overlap
<1>4. /\ IsConfig(config', high_mem_base) /\ TrimmedTo(config', step) /\ CoverAll(config') = reported
  <2> DEFINE set == config
             i == step
             h == high_mem_base
  <2>1. /\ IsConfig(set, h) /\ TrimmedTo(set, i) /\ Cmp(set[i], set[i + 1]) \notin {"Less", "Greater"}
        /\ i \in 1 .. Len(set) - 1 /\ h \in Int
    <3>1. Len(config) \in Nat
      BY <1>2 DEF IsConfig
    <3> QED BY <1>1, <1>2, <1>3, <3>1, HighMemBase
  <2>2. config' = TrimStep(set, i) /\ CoverAll(set) = reported
    BY <1>1, <1>2
  <2> HIDE DEF set, i, h
  <2>3. IsConfig(TrimStep(set, i), h) /\ TrimmedTo(TrimStep(set, i), i) /\ CoverAll(TrimStep(set, i)) = CoverAll(set)
    BY <2>1, TrimStepKeeps
  <2> QED BY <2>2, <2>3 DEF i, h
<1>5. IsConfig(config', high_mem_base') /\ step' \in Nat \ {0} /\ TrimmedTo(config', step')
  BY <1>1, <1>2, <1>4, SameBase
<1>6. CoverAll(config') = reported'
  BY <1>1, <1>4
<1> QED BY <1>1, <1>2, <1>5, <1>6 DEF MemoryInv

(* At its end the ranges are apart. *)
LEMMA TrimDoneInv == ASSUME MemoryInv, TrimDone PROVE MemoryInv'
<1>1. /\ phase = "trim" /\ phase' = "exclude" /\ step >= Len(config) /\ step' = 1
      /\ machine' = machine /\ config' = TrimEmptyRanges(config) /\ reported' = reported
  BY DEF TrimDone
<1>2. /\ machine \in Machines /\ IsConfig(config, high_mem_base) /\ CoverAll(config) = reported
      /\ step \in Nat \ {0} /\ TrimmedTo(config, step)
  BY <1>1 DEF MemoryInv
<1>3. Apart(config)
  <2>1. Len(config) \in Nat
    BY <1>2 DEF IsConfig
  <2> QED BY <1>1, <1>2, <2>1 DEF Apart, TrimmedTo
<1>4. IsConfig(config', high_mem_base) /\ Apart(config') /\ CoverAll(config') = reported
  <2> DEFINE set == config
             h == high_mem_base
  <2>1. IsConfig(set, h) /\ Apart(set) /\ h \in Int /\ config' = TrimEmptyRanges(set) /\ CoverAll(set) = reported
    BY <1>1, <1>2, <1>3, HighMemBase
  <2> HIDE DEF set, h
  <2>2. Loose(set, h)
    BY <2>1, ConfigLoose
  <2>3. /\ IsConfig(TrimEmptyRanges(set), h) /\ Apart(TrimEmptyRanges(set))
        /\ CoverAll(TrimEmptyRanges(set)) = CoverAll(set)
    BY <2>1, <2>2, TrimEmptyKeeps
  <2> QED BY <2>1, <2>3 DEF h
<1>5. IsConfig(config', high_mem_base')
  BY <1>1, <1>4, SameBase
<1>6. CoverAll(SubSeq(Exclusions', 1, step' - 1)) = {}
  <2>1. machine' \in Machines
    BY <1>1, <1>2
  <2>2. Exclusions' = Exclusions
    BY <1>1 DEF Exclusions
  <2>3. CoverAll(SubSeq(Exclusions, 1, 0)) = {}
    BY <1>2, ExclusionsAre, CoverPrefix
  <2> QED BY <1>1, <2>2, <2>3
<1>7. CoverAll(config') = reported' \ CoverAll(SubSeq(Exclusions', 1, step' - 1))
  BY <1>1, <1>4, <1>6
<1>8. machine' \in Machines /\ step' \in 1 .. 5
  BY <1>1, <1>2
<1> QED BY <1>1, <1>4, <1>5, <1>7, <1>8 DEF MemoryInv

(* An exclusion that does not panic takes its area out of the set. *)
LEMMA ExcludeNextInv == ASSUME MemoryInv, ExcludeNext PROVE MemoryInv'
<1> DEFINE e == Exclusions[step]
           gone(n) == CoverAll(SubSeq(Exclusions, 1, n))
<1>1. /\ phase = "exclude" /\ phase' = "exclude" /\ step <= Len(Exclusions) /\ step' = step + 1
      /\ machine' = machine /\ config' = ExcludeRange(config, e) /\ reported' = reported
  BY DEF ExcludeNext
<1>2. /\ machine \in Machines /\ IsConfig(config, high_mem_base) /\ Apart(config) /\ step \in 1 .. 5
      /\ CoverAll(config) = reported \ gone(step - 1)
  BY <1>1 DEF MemoryInv
<1>3. Len(Exclusions) = 4 /\ step \in 1 .. 4 /\ e.base \in Nat /\ e.size \in Nat
  <2>1. Len(Exclusions) = 4 /\ \A i \in 1 .. 4 : Exclusions[i].base \in Nat /\ Exclusions[i].size \in Nat
    BY <1>2, ExclusionsAre
  <2>2. step \in 1 .. 4
    BY <1>1, <1>2, <2>1
  <2> QED BY <2>1, <2>2
<1>4. IsConfig(config', high_mem_base) /\ Apart(config') /\ CoverAll(config') = CoverAll(config) \ Cover(e)
  <2> DEFINE set == config
             h == high_mem_base
  <2>1. IsConfig(set, h) /\ Apart(set) /\ h \in Int /\ config' = ExcludeRange(set, e)
    BY <1>1, <1>2, HighMemBase
  <2> HIDE DEF set, h, e
  <2>2. /\ IsConfig(ExcludeRange(set, e), h) /\ Apart(ExcludeRange(set, e))
        /\ CoverAll(ExcludeRange(set, e)) = CoverAll(set) \ Cover(e)
    BY <1>3, <2>1, ExcludeRangeKeeps
  <2> QED BY <2>1, <2>2 DEF h, set
<1>5. gone(step) = gone(step - 1) \cup Cover(e)
  <2>1. Exclusions \in Seq({Exclusions[i] : i \in 1 .. 4}) /\ Len(Exclusions) = 4
    BY <1>2, ExclusionsAre
  <2> DEFINE s == Exclusions
             S == {Exclusions[i] : i \in 1 .. 4}
             n == step
  <2>2. s \in Seq(S) /\ n \in 1 .. Len(s)
    BY <1>3, <2>1
  <2> HIDE DEF s, S, n
  <2>3. CoverAll(SubSeq(s, 1, n)) = CoverAll(SubSeq(s, 1, n - 1)) \cup Cover(s[n])
    BY <2>2, CoverPrefix
  <2> QED BY <2>3 DEF s, n
<1>6. CoverAll(config') = reported \ gone(step)
  <2> HIDE DEF gone, e
  <2> QED BY <1>2, <1>4, <1>5
<1>7. Exclusions' = Exclusions /\ step' - 1 = step /\ step' \in 1 .. 5
  BY <1>1, <1>3 DEF Exclusions
<1>8. CoverAll(config') = reported' \ CoverAll(SubSeq(Exclusions', 1, step' - 1))
  BY <1>1, <1>6, <1>7
<1>9. IsConfig(config', high_mem_base') /\ machine' \in Machines
  BY <1>1, <1>2, <1>4, SameBase
<1> QED BY <1>1, <1>4, <1>7, <1>8, <1>9 DEF MemoryInv


(* init_direct_map takes of a range what is below high memory. *)
LEMMA LinearPartCover ==
  ASSUME machine \in Machines, NEW r, GoodRange(r, high_mem_base)
  PROVE  UNION {Cover(p) : p \in LinearPart(r)} = {a \in Cover(r) : a < high_mem_base}
<1> DEFINE h == high_mem_base
           e == Area(h, UMAX - h + 1)
<1>0. /\ h \in Nat /\ UMAX \in Nat /\ r.base \in Nat /\ r.size \in Nat \ {0} /\ End(r) <= UMAX
      /\ End(r) = r.base + (r.size - 1) /\ Cover(r) = r.base .. End(r) /\ r.tag \in {"Linear", "High"}
      /\ (r.tag = "Linear" => End(r) < h) /\ (r.tag = "High" => r.base >= h)
  <2>1. r.base + r.size - 1 = r.base + (r.size - 1)
    BY DEF GoodRange, IsRange
  <2> QED BY <2>1, HighMemBase, UmaxAssumption DEF GoodRange, IsRange, End, Cover, ZoneRange, Zone
<1>1. CASE machine.high_mem_size = 0
  <2>1. LinearPart(r) = {r} /\ h = UMAX + 1
    BY <1>1, HighMemBase DEF LinearPart
  <2>2. \A a \in Cover(r) : a < h
    BY <1>0, <2>1
  <2> QED BY <2>1, <2>2
<1>2. CASE machine.high_mem_size # 0
  <2>1. LinearPart(r) = {p \in ToSet(Exclude(r, e)) : p.base < h} /\ h <= UMAX
    BY <1>2, HighMemBase DEF LinearPart
  <2>2. e.base = h /\ e.size = UMAX - h + 1 /\ End(e) = UMAX
    BY <1>0 DEF Area, End
  <2> HIDE DEF h, e
  <2>3. CASE r.tag = "Linear"
    <3>1. End(r) < h /\ r.base < h
      BY <1>0, <2>3
    <3>2. Cmp(r, e) = "Less"
      BY <1>0, <2>1, <2>2, <3>1 DEF Cmp
    <3>3. Exclude(r, e) = <<r>>
      BY <3>2 DEF Exclude
    <3>4. LinearPart(r) = {r}
      BY <2>1, <3>1, <3>3 DEF ToSet
    <3>5. \A a \in Cover(r) : a < h
      BY <1>0, <3>1
    <3> QED BY <3>4, <3>5 DEF h
  <2>4. CASE r.tag = "High"
    <3>1. r.base >= h
      BY <1>0, <2>4
    <3>2. Cmp(r, e) \in {"Equal", "Subset"}
      BY <1>0, <2>1, <2>2, <3>1 DEF Cmp
    <3>3. Exclude(r, e) = <<>>
      BY <3>2 DEF Exclude
    <3>4. LinearPart(r) = {}
      BY <2>1, <3>3 DEF ToSet
    <3>5. \A a \in Cover(r) : ~(a < h)
      BY <1>0, <3>1
    <3> QED BY <3>4, <3>5 DEF h
  <2> QED BY <1>0, <2>3, <2>4
<1> QED BY <1>1, <1>2

(* ... and so maps the linear pages of the set. *)
LEMMA DirectMapInv == ASSUME MemoryInv, InitDirectMap PROVE MemoryInv'
<1>1. /\ phase = "exclude" /\ phase' = "zones" /\ step > Len(Exclusions)
      /\ machine' = machine /\ config' = config /\ reported' = reported
      /\ mapped' = UNION {Cover(p) : p \in UNION {LinearPart(r) : r \in ToSet(config)}}
  BY DEF InitDirectMap
<1>2. /\ machine \in Machines /\ IsConfig(config, high_mem_base) /\ Apart(config) /\ step \in 1 .. 5
      /\ CoverAll(config) = reported \ CoverAll(SubSeq(Exclusions, 1, step - 1))
  BY <1>1 DEF MemoryInv
<1>3. CoverAll(config) = reported \ Reserved
  <2>1. Len(Exclusions) = 4 /\ SubSeq(Exclusions, 1, Len(Exclusions)) = Exclusions
    BY <1>2, ExclusionsAre, CoverPrefix
  <2>2. step - 1 = 4
    BY <1>1, <1>2, <2>1
  <2> QED BY <1>2, <2>1, <2>2 DEF Reserved
<1>4. mapped' = LinearPages(config)
  <2>1. \A r \in ToSet(config) : GoodRange(r, high_mem_base)
    BY <1>2 DEF IsConfig, ToSet
  <2>2. \A r \in ToSet(config) : UNION {Cover(p) : p \in LinearPart(r)} = {a \in Cover(r) : a < high_mem_base}
    BY <1>2, <2>1, LinearPartCover
  <2>3. \A a : a \in mapped' <=> \E r \in ToSet(config) : a \in UNION {Cover(p) : p \in LinearPart(r)}
    BY <1>1
  <2>4. \A a : a \in LinearPages(config) <=> \E r \in ToSet(config) : a \in Cover(r) /\ a < high_mem_base
    BY DEF LinearPages, CoverAll
  <2>5. \A a : a \in mapped' <=> a \in LinearPages(config)
    BY <2>2, <2>3, <2>4
  <2> QED BY <1>1, <2>5 DEF LinearPages
<1>5. high_mem_base' = high_mem_base /\ Reserved' = Reserved
  BY <1>1, SameBase DEF Reserved, Exclusions
<1>6. LinearPages(config)' = LinearPages(config)
  BY <1>1, <1>5 DEF LinearPages
<1>7. IsConfig(config', high_mem_base') /\ Apart(config') /\ machine' \in Machines
  BY <1>1, <1>2, <1>5
<1>8. CoverAll(config') = reported' \ Reserved' /\ mapped' = LinearPages(config)'
  BY <1>1, <1>3, <1>4, <1>5, <1>6
<1> QED BY <1>1, <1>7, <1>8 DEF MemoryInv

(* init_allocators lays the metadata and the zones out. *)
LEMMA AllocatorsInv == ASSUME MemoryInv, InitAllocators PROVE MemoryInv'
<1>1. /\ phase = "zones" /\ phase' = "done" /\ ~MetadataPanics
      /\ machine' = machine /\ config' = config /\ reported' = reported /\ mapped' = mapped
      /\ meta' = Cover(Area(MetaBase, MetaTotal))
      /\ zones' = [z \in Zone |-> IF z \in Served THEN NewAllocator(z) ELSE NoZone]
  BY DEF InitAllocators
<1>2. /\ machine \in Machines /\ IsConfig(config, high_mem_base) /\ Apart(config)
      /\ CoverAll(config) = reported \ Reserved /\ mapped = LinearPages(config)
  BY <1>1 DEF MemoryInv
<1>5. high_mem_base' = high_mem_base /\ Reserved' = Reserved
  BY <1>1, SameBase DEF Reserved, Exclusions
<1>6. LinearPages(config)' = LinearPages(config)
  BY <1>1, <1>5 DEF LinearPages
<1>7. IsConfig(config', high_mem_base') /\ Apart(config') /\ machine' \in Machines
  BY <1>1, <1>2, <1>5
<1>8. CoverAll(config') = reported' \ Reserved' /\ mapped' = LinearPages(config)'
  BY <1>1, <1>2, <1>5, <1>6
<1>9. Laid'
  BY <1>1, LaidOut
<1> QED BY <1>1, <1>7, <1>8, <1>9 DEF MemoryInv

(* Every step keeps the invariant. *)
LEMMA MemoryStep == MemoryInv /\ [Next]_vars => MemoryInv'
<1> SUFFICES ASSUME MemoryInv, [Next]_vars PROVE MemoryInv'
  OBVIOUS
<1>1. CASE \E header \in Headers : NewReader(header)
  BY <1>1, NewReaderKeeps
<1>2. CASE \E node \in NextNodes : ScanRootNode(node) \/ ScanDeviceNode(node)
  <2>1. PICK node \in NextNodes : ScanRootNode(node) \/ ScanDeviceNode(node)
    BY <1>2
  <2>2. node \in Nodes
    BY DEF NextNodes
  <2>3. CASE ScanRootNode(node)
    BY <2>2, <2>3, ScanRootKeeps
  <2>4. CASE ScanDeviceNode(node)
    BY <2>4, ScanDeviceKeeps
  <2> QED BY <2>1, <2>3, <2>4
<1>3. CASE TrimAdvance
  BY <1>3, TrimAdvanceInv
<1>4. CASE TrimMerge
  BY <1>4, TrimMergeInv
<1>5. CASE TrimDone
  BY <1>5, TrimDoneInv
<1>6. CASE ExcludeNext
  BY <1>6, ExcludeNextInv
<1>7. CASE InitDirectMap
  BY <1>7, DirectMapInv
<1>8. CASE InitAllocators
  BY <1>8, AllocatorsInv
<1>9. CASE TrimPanic \/ NoMemory \/ ExcludePanic \/ AllocatorsPanic
  <2>1. Panic
    BY <1>9 DEF TrimPanic, NoMemory, ExcludePanic, AllocatorsPanic
  <2> QED BY <2>1, PanicKeeps
<1>10. CASE Rest \/ UNCHANGED vars
  <2>1. UNCHANGED vars
    BY <1>10 DEF Rest
  <2> QED BY <2>1, StutterKeeps
<1> QED BY <1>1, <1>2, <1>3, <1>4, <1>5, <1>6, <1>7, <1>8, <1>9, <1>10 DEF Next

(* The inductive invariant holds throughout boot. *)
LEMMA MemoryInvHolds == Spec => []MemoryInv
BY MemoryInit, MemoryStep, PTL DEF Spec


(*****************************************************************************)
(* The range set stays sorted through every insertion, merge and exclusion,  *)
(* and once trimmed its ranges are disjoint, not empty, and linear before    *)
(* high ones, on every machine and for every device tree: init_zone_info's   *)
(* indices denote one zone.                                                  *)
(*****************************************************************************)
THEOREM RangesOrderedHolds == Spec => []RangesOrdered
<1>1. MemoryInv => RangesOrdered
  <2> SUFFICES ASSUME MemoryInv PROVE RangesOrdered
    OBVIOUS
  <2>1. /\ machine \in Machines /\ config \in Seq(ZoneRange) /\ high_mem_base \in Nat
        /\ \A i \in 1 .. Len(config) : GoodRange(config[i], high_mem_base)
        /\ \A i, j \in 1 .. Len(config) : i < j => config[i].base <= config[j].base
    BY HighMemBase DEF MemoryInv, IsConfig
  <2>2. DOMAIN config = 1 .. Len(config)
    BY <2>1
  <2>3. ASSUME phase \in {"exclude", "zones", "done"}
        PROVE  \A i, j \in 1 .. Len(config) : i < j => End(config[i]) < config[j].base
    BY <2>3 DEF MemoryInv, Apart
  <2>4. ASSUME NEW r \in ToSet(config) PROVE r.size > 0 /\ (r.tag = "Linear" <=> r.base < high_mem_base)
    <3>1. GoodRange(r, high_mem_base)
      BY <2>1, <2>2 DEF ToSet
    <3>2. /\ r.base \in Nat /\ r.size \in Nat \ {0} /\ r.tag \in {"Linear", "High"}
          /\ (r.tag = "Linear" => r.base + (r.size - 1) < high_mem_base)
          /\ (r.tag = "High" => r.base >= high_mem_base)
      BY <3>1 DEF GoodRange, IsRange, ZoneRange, Zone, End
    <3> QED BY <2>1, <3>2
  <2> QED BY <2>1, <2>2, <2>3, <2>4 DEF RangesOrdered
<1> QED BY <1>1, MemoryInvHolds, PTL

(*****************************************************************************)
(* The configuration holds exactly the reported memory without the areas     *)
(* excluded so far: no page is lost by a merge or a split, also when the     *)
(* trimming leaves a range twice, and no reserved page survives.             *)
(*****************************************************************************)
THEOREM MemoryExactHolds == Spec => []MemoryExact
<1>1. MemoryInv => MemoryExact
  <2> SUFFICES ASSUME MemoryInv PROVE MemoryExact
    OBVIOUS
  <2>1. CASE phase \in {"new", "root", "scan", "trim"}
    BY <2>1 DEF MemoryInv, MemoryExact
  <2>2. CASE phase = "exclude"
    BY <2>2 DEF MemoryInv, MemoryExact
  <2>3. CASE phase \in {"zones", "done"}
    BY <2>3 DEF MemoryInv, MemoryExact
  <2>4. CASE phase = "panic"
    BY <2>4 DEF MemoryExact
  <2> QED BY <2>1, <2>2, <2>3, <2>4 DEF MemoryInv
<1> QED BY <1>1, MemoryInvHolds, PTL


-----------------------------------------------------------------------------
(*****************************************************************************)
(* Powers of two and division, for the blocks of the page allocators.        *)
(*****************************************************************************)

(* A power of two counts the subsets of a set. *)
LEMMA PowerCounts ==
  ASSUME NEW n \in Nat
  PROVE  IsFiniteSet(SUBSET (1 .. n)) /\ Cardinality(SUBSET (1 .. n)) = 2 ^ n
<1>1. IsFiniteSet(1 .. n) /\ Cardinality(1 .. n) = IF 1 > n THEN 0 ELSE n - 1 + 1
  BY FS_Interval
<1>2. Cardinality(1 .. n) = n
  BY <1>1
<1>3. IsFiniteSet(SUBSET (1 .. n)) /\ Cardinality(SUBSET (1 .. n)) = 2 ^ Cardinality(1 .. n)
  BY <1>1, FS_SUBSET
<1> QED BY <1>2, <1>3

(* It is positive ... *)
LEMMA PowerNat == ASSUME NEW n \in Nat PROVE 2 ^ n \in Nat \ {0}
<1> DEFINE S == SUBSET (1 .. n)
<1>1. IsFiniteSet(S) /\ Cardinality(S) = 2 ^ n
  BY PowerCounts
<1>2. S # {}
  OBVIOUS
<1> HIDE DEF S
<1>3. Cardinality(S) \in Nat
  BY <1>1, FS_CardinalityType
<1>4. Cardinality(S) # 0
  BY <1>1, <1>2, FS_EmptySet
<1> QED BY <1>1, <1>3, <1>4

(* ... and doubles with the exponent. *)
LEMMA PowerDouble == ASSUME NEW n \in Nat PROVE 2 ^ (n + 1) = 2 * 2 ^ n
<1> DEFINE A == SUBSET (1 .. n)
           B == {T \cup {n + 1} : T \in A}
           f == [T \in A |-> T \cup {n + 1}]
<1>1. IsFiniteSet(A) /\ Cardinality(A) = 2 ^ n
  BY PowerCounts
<1>2. IsFiniteSet(SUBSET (1 .. n + 1)) /\ Cardinality(SUBSET (1 .. n + 1)) = 2 ^ (n + 1)
  BY PowerCounts
<1>3. SUBSET (1 .. n + 1) = A \cup B
  <2>1. ASSUME NEW T \in SUBSET (1 .. n + 1) PROVE T \in A \cup B
    <3>1. CASE n + 1 \in T
      <4>1. T \ {n + 1} \in A /\ T = (T \ {n + 1}) \cup {n + 1}
        BY <3>1
      <4> QED BY <4>1
    <3>2. CASE n + 1 \notin T
      BY <3>2
    <3> QED BY <3>1, <3>2
  <2>2. ASSUME NEW T \in A \cup B PROVE T \in SUBSET (1 .. n + 1)
    OBVIOUS
  <2> QED BY <2>1, <2>2
<1>4. A \cap B = {}
  <2> SUFFICES ASSUME NEW T \in A, T \in B PROVE FALSE
    OBVIOUS
  <2>1. n + 1 \in T /\ n + 1 \notin 1 .. n
    OBVIOUS
  <2> QED BY <2>1
<1>5. f \in Bijection(A, B)
  <2>1. f \in [A -> B]
    OBVIOUS
  <2>2. ASSUME NEW T \in A, NEW U \in A, f[T] = f[U] PROVE T = U
    <3>1. T \cup {n + 1} = U \cup {n + 1} /\ n + 1 \notin T /\ n + 1 \notin U
      BY <2>2
    <3> QED BY <3>1
  <2>3. \A V \in B : \E T \in A : f[T] = V
    OBVIOUS
  <2> QED BY <2>1, <2>2, <2>3 DEF Bijection, Injection, Surjection, IsInjective
<1>6. ExistsBijection(A, B)
  BY <1>5 DEF ExistsBijection
<1> HIDE DEF A, B
<1>7. IsFiniteSet(B) /\ Cardinality(B) = Cardinality(A)
  BY <1>1, <1>6, FS_Bijection
<1>8. Cardinality(A \cup B) = Cardinality(A) + Cardinality(B) - Cardinality(A \cap B)
  BY <1>1, <1>7, FS_Union
<1>9. Cardinality(A \cap B) = 0
  BY <1>4, FS_EmptySet
<1>10. 2 ^ n \in Nat
  BY PowerNat
<1>11. Cardinality(A \cup B) = 2 ^ (n + 1)
  BY <1>2, <1>3
<1> DEFINE p == 2 ^ n
           q == 2 ^ (n + 1)
<1>12. p \in Nat /\ q = p + p - 0
  BY <1>1, <1>7, <1>8, <1>9, <1>10, <1>11
<1> HIDE DEF p, q
<1>13. q = 2 * p
  BY <1>12
<1> QED BY <1>13 DEF p, q

(* What the quotient and the remainder are. *)
LEMMA Division ==
  ASSUME NEW a \in Nat, NEW b \in Nat \ {0}
  PROVE  a \div b \in Nat /\ a % b \in 0 .. b - 1 /\ a = b * (a \div b) + (a % b)
<1>1. b > 0 /\ a \in Int /\ b \in Int
  OBVIOUS
<1>2. a = b * (a \div b) + (a % b)
  BY <1>1, Z3
<1>3. a \div b \in Nat
  BY <1>1
<1>4. a % b \in 0 .. b - 1
  BY <1>1
<1> QED BY <1>2, <1>3, <1>4

(* A quotient is the only one. *)
LEMMA QuotientIs ==
  ASSUME NEW a \in Nat, NEW b \in Nat \ {0}, NEW q \in Nat, NEW r \in 0 .. b - 1, a = b * q + r
  PROVE  a \div b = q
<1> DEFINE p == a \div b
           s == a % b
<1>1. p \in Nat /\ s \in 0 .. b - 1 /\ a = b * p + s
  BY Division
<1> HIDE DEF p, s
<1>2. CASE p < q
  <2>1. b * (p + 1) <= b * q
    BY <1>1, <1>2
  <2> QED BY <1>1, <2>1
<1>3. CASE q < p
  <2>1. b * (q + 1) <= b * p
    BY <1>1, <1>3
  <2> QED BY <1>1, <2>1
<1> QED BY <1>1, <1>2, <1>3 DEF p


-----------------------------------------------------------------------------
(*****************************************************************************)
(* The metadata of the page allocators.                                      *)
(*****************************************************************************)

(* The words that the bits of a level take. *)
LevelWords(pages, level) == (LevelBits(BlocksAt(pages, level)) + WORD_BITS - 1) \div WORD_BITS

IsLevels(f, pages) ==
  /\ f \in [0 .. BLOCK_LEVELS -> Nat] /\ f[0] = 0
  /\ \A l \in 1 .. BLOCK_LEVELS : f[l] = f[l - 1] + LevelWords(pages, l - 1)

(* calc_next_level counts in natural numbers. *)
LEMMA LevelWordsNat ==
  ASSUME NEW pages \in Nat, NEW l \in Nat
  PROVE  /\ BlocksAt(pages, l) \in Nat /\ LevelBits(BlocksAt(pages, l)) \in Nat
         /\ LevelWords(pages, l) \in Nat
<1> DEFINE p == 2 ^ l
           b == pages \div p
           bits == (b + 1) \div 2
<1>1. p \in Nat \ {0}
  BY PowerNat
<1> HIDE DEF p
<1>2. b \in Nat
  BY <1>1, Division
<1> HIDE DEF b
<1>3. bits \in Nat
  BY <1>2
<1> HIDE DEF bits
<1>4. (bits + WORD_BITS - 1) \in Nat /\ WORD_BITS \in Nat \ {0}
  BY <1>3, LayoutAssumption
<1>5. (bits + WORD_BITS - 1) \div WORD_BITS \in Nat
  BY <1>4, Division
<1> QED BY <1>2, <1>3, <1>5 DEF BlocksAt, LevelBits, LevelWords, p, b, bits

(* make_levels: each level begins where the one below it ends. *)
LEMMA LevelsAre == ASSUME NEW pages \in Nat PROVE IsLevels(MakeLevels(pages), pages)
<1> DEFINE L == BLOCK_LEVELS
           G == [n \in 1 .. L |-> [v \in Nat |-> v + LevelWords(pages, n - 1)]]
           Eq(g) == g = [level \in 0 .. L |->
                           IF level = 0 THEN 0 ELSE CalcNextLevel(BlocksAt(pages, level - 1), g[level - 1])]
           at == CHOOSE g : Eq(g)
<1>0. L \in Nat
  BY LayoutAssumption
<1>1. \A n \in 1 .. L : LevelWords(pages, n - 1) \in Nat
  <2>1. \A n \in 1 .. L : n - 1 \in Nat
    BY <1>0
  <2> QED BY <2>1, LevelWordsNat
<1>2. G \in [1 .. L -> [Nat -> Nat]]
  BY <1>1
<1>3. \A n \in 1 .. L, v \in Nat : G[n][v] = v + LevelWords(pages, n - 1)
  OBVIOUS
<1>4. MakeLevels(pages) = at
  BY DEF MakeLevels
<1> HIDE DEF G, L
<1>5. PICK f : IsLoop(f, Nat, 0, L, G)
  BY <1>0, <1>2, LoopExists
<1>6. /\ f \in [0 .. L -> Nat] /\ f[0] = 0
      /\ \A n \in 1 .. L : f[n] = f[n - 1] + LevelWords(pages, n - 1)
  <2>1. \A n \in 1 .. L : n - 1 \in 0 .. L
    BY <1>0
  <2> QED BY <1>3, <1>5, <2>1 DEF IsLoop
<1>7. \A n, v : CalcNextLevel(BlocksAt(pages, n), v) = v + LevelWords(pages, n)
  BY DEF CalcNextLevel, LevelWords
<1>8. Eq(f)
  <2>1. \A l \in 0 .. L : f[l] = IF l = 0 THEN 0 ELSE f[l - 1] + LevelWords(pages, l - 1)
    BY <1>0, <1>6
  <2>2. f = [l \in 0 .. L |-> IF l = 0 THEN 0 ELSE CalcNextLevel(BlocksAt(pages, l - 1), f[l - 1])]
    BY <1>6, <1>7, <2>1
  <2> QED BY <2>2
<1>9. Eq(at)
  <2> HIDE DEF Eq
  <2> QED BY <1>8
<1> HIDE DEF at
<1>10. \A l \in 0 .. L : at[l] = IF l = 0 THEN 0 ELSE at[l - 1] + LevelWords(pages, l - 1)
  BY <1>7, <1>9
<1>11. at = [l \in 0 .. L |-> at[l]]
  BY <1>9
<1> HIDE DEF Eq
<1> DEFINE T == {k \in Nat : k \in 0 .. L => at[k] = f[k]}
<1>12. 0 \in T
  BY <1>0, <1>6, <1>10
<1>13. ASSUME NEW k \in Nat, k \in T PROVE k + 1 \in T
  <2> SUFFICES ASSUME k + 1 \in 0 .. L PROVE at[k + 1] = f[k + 1]
    OBVIOUS
  <2>1. k \in 0 .. L /\ k + 1 \in 1 .. L /\ (k + 1) - 1 = k /\ k + 1 # 0
    BY <1>0
  <2>2. at[k] = f[k]
    BY <1>13, <2>1
  <2>3. at[k + 1] = at[k] + LevelWords(pages, k)
    BY <1>10, <2>1
  <2>4. f[k + 1] = f[k] + LevelWords(pages, k)
    BY <1>6, <2>1
  <2> QED BY <2>2, <2>3, <2>4
<1> HIDE DEF T
<1>14. \A k \in Nat : k \in T
  BY <1>12, <1>13, NatSetInduction
<1>15. \A k \in 0 .. L : at[k] = f[k]
  BY <1>0, <1>14 DEF T
<1>16. at = f
  BY <1>6, <1>11, <1>15
<1> QED BY <1>4, <1>6, <1>16 DEF IsLevels, L

(* A higher level does not begin before a lower one. *)
LEMMA LevelsRise ==
  ASSUME NEW pages \in Nat, NEW f, IsLevels(f, pages),
         NEW i \in 0 .. BLOCK_LEVELS, NEW j \in 0 .. BLOCK_LEVELS, i <= j
  PROVE  f[i] <= f[j]
<1> DEFINE L == BLOCK_LEVELS
           T == {k \in Nat : k \in i .. L => f[i] <= f[k]}
<1>0. /\ L \in Nat /\ f \in [0 .. L -> Nat] /\ i \in 0 .. L
      /\ \A l \in 1 .. L : f[l] = f[l - 1] + LevelWords(pages, l - 1)
  BY LayoutAssumption DEF IsLevels
<1>a. j \in i .. L
  OBVIOUS
<1> HIDE DEF L
<1>1. 0 \in T
  <2> SUFFICES ASSUME 0 \in i .. L PROVE f[i] <= f[0]
    OBVIOUS
  <2>1. i = 0 /\ 0 \in 0 .. L
    BY <1>0
  <2> QED BY <1>0, <2>1
<1>2. ASSUME NEW k \in Nat, k \in T PROVE k + 1 \in T
  <2> SUFFICES ASSUME k + 1 \in i .. L PROVE f[i] <= f[k + 1]
    OBVIOUS
  <2>1. CASE k + 1 = i
    BY <1>0, <2>1
  <2>2. CASE k + 1 # i
    <3>1. k \in i .. L /\ k + 1 \in 1 .. L /\ k \in 0 .. L /\ (k + 1) - 1 = k
      BY <1>0, <2>2
    <3>2. f[i] <= f[k]
      BY <1>2, <3>1
    <3>3. LevelWords(pages, k) \in Nat
      BY LevelWordsNat
    <3>4. f[k + 1] = f[k] + LevelWords(pages, k) /\ f[k] \in Nat /\ f[i] \in Nat
      BY <1>0, <3>1
    <3> QED BY <3>2, <3>3, <3>4
  <2> QED BY <2>1, <2>2
<1> HIDE DEF T
<1>3. \A k \in Nat : k \in T
  BY <1>1, <1>2, NatSetInduction
<1>4. j \in T /\ j \in Nat
  BY <1>0, <1>3
<1> QED BY <1>4, <1>a DEF T

(* The pages of the metadata hold its words. *)
LEMMA MetadataFits ==
  ASSUME NEW pages \in Nat
  PROVE  /\ MetadataPages(pages) \in Nat /\ CalcMetadataSize(pages) \in Nat
         /\ CalcMetadataSize(pages) <= PAGE_WORDS * MetadataPages(pages)
<1> DEFINE w == CalcMetadataSize(pages)
           u == w + PAGE_WORDS - 1
           m == u \div PAGE_WORDS
<1>1. w \in Nat
  <2>1. IsLevels(MakeLevels(pages), pages)
    BY LevelsAre
  <2> QED BY <2>1, LayoutAssumption DEF IsLevels, CalcMetadataSize
<1>2. PAGE_WORDS \in Nat \ {0}
  BY LayoutAssumption
<1> HIDE DEF w
<1>3. u \in Nat
  BY <1>1, <1>2
<1>a. u = w + PAGE_WORDS - 1
  OBVIOUS
<1> HIDE DEF u
<1>4. m \in Nat /\ u % PAGE_WORDS \in 0 .. PAGE_WORDS - 1 /\ u = PAGE_WORDS * m + (u % PAGE_WORDS)
  BY <1>2, <1>3, Division
<1>b. MetadataPages(pages) = m
  BY DEF MetadataPages, m, u, w
<1> HIDE DEF m
<1>5. PAGE_WORDS * m \in Nat
  BY <1>2, <1>4
<1>6. w <= PAGE_WORDS * m
  <2> DEFINE x == PAGE_WORDS * m
             y == u % PAGE_WORDS
  <2>1. x \in Nat /\ y \in 0 .. PAGE_WORDS - 1 /\ u = x + y
    BY <1>4, <1>5
  <2> HIDE DEF x, y
  <2>2. w <= x
    BY <1>1, <1>2, <1>a, <2>1
  <2> QED BY <2>2 DEF x
<1> QED BY <1>1, <1>4, <1>6, <1>b DEF w


-----------------------------------------------------------------------------
(*****************************************************************************)
(* The zones.                                                                *)
(*****************************************************************************)

(* A sequence with its element k replaced by a sequence of others. *)
Replaced(f, S, s, k, t) ==
  /\ f \in Seq(S) /\ Len(f) = Len(s) - 1 + Len(t)
  /\ \A i \in 1 .. Len(f) :
       f[i] = IF i < k THEN s[i] ELSE IF i < k + Len(t) THEN t[i - k + 1] ELSE s[i - Len(t) + 1]

(* What FlattenSeq makes when all but one part are single ranges. *)
LEMMA FlattenReplace ==
  ASSUME NEW S, NEW s \in Seq(S), NEW k \in 1 .. Len(s), NEW t \in Seq(S), NEW q \in Seq(Seq(S)),
         Len(q) = Len(s), q[k] = t, \A i \in 1 .. Len(s) : i # k => q[i] = <<s[i]>>
  PROVE  Replaced(FlattenSeq(q), S, s, k, t)
<1> DEFINE L == Len(s)
           m == Len(t)
           At(i) == IF i < k THEN s[i] ELSE IF i < k + m THEN t[i - k + 1] ELSE s[i - m + 1]
           Size(n) == IF n < k THEN n ELSE n - 1 + m
<1>0. L \in Nat /\ m \in Nat /\ k \in 1 .. L /\ L = Len(s) /\ m = Len(t) /\ \A i \in 1 .. L : s[i] \in S
  OBVIOUS
<1>1. PICK f \in [0 .. Len(q) -> Seq(S)] :
           /\ f[0] = <<>> /\ FlattenSeq(q) = f[Len(q)]
           /\ \A n \in 1 .. Len(q) : f[n] = f[n - 1] \o q[n]
  BY FlattenSteps
<1>2. /\ f \in [0 .. L -> Seq(S)] /\ f[0] = <<>> /\ FlattenSeq(q) = f[L]
      /\ \A n \in 1 .. L : f[n] = f[n - 1] \o q[n]
  BY <1>1
<1> HIDE DEF L, m
<1> DEFINE Ok(n) == Len(f[n]) = Size(n) /\ \A i \in 1 .. Size(n) : f[n][i] = At(i)
           T == {n \in Nat : n \in 0 .. L => Ok(n)}
<1>3. 0 \in T
  <2>1. Len(f[0]) = 0 /\ Size(0) = 0
    BY <1>0, <1>2
  <2> HIDE DEF At, Size
  <2>2. \A i \in 1 .. Size(0) : f[0][i] = At(i)
    BY <2>1
  <2> QED BY <2>1, <2>2
<1>4. ASSUME NEW n \in Nat, n \in T PROVE n + 1 \in T
  <2> SUFFICES ASSUME n + 1 \in 0 .. L PROVE Ok(n + 1)
    OBVIOUS
  <2> DEFINE g == f[n]
             c == q[n + 1]
  <2>1. n \in 0 .. L /\ n + 1 \in 1 .. L /\ (n + 1) - 1 = n
    BY <1>0
  <2>2. Ok(n) /\ f[n + 1] = g \o c /\ g \in Seq(S)
    BY <1>2, <1>4, <2>1
  <2>3. Size(n) \in Nat /\ Len(g) = Size(n) /\ \A i \in 1 .. Size(n) : g[i] = At(i)
    BY <1>0, <2>2
  <2>4. CASE n + 1 = k
    <3>1. c = t /\ Size(n) = n /\ Size(n + 1) = n + m
      BY <1>0, <2>4
    <3>a. g \in Seq(S) /\ t \in Seq(S) /\ Len(g) = n /\ Len(t) = m
      BY <1>0, <2>2, <2>3, <3>1
    <3>2. Len(g \o c) = n + m
      <4> HIDE DEF g, c
      <4> QED BY <3>1, <3>a
    <3>3. ASSUME NEW i \in 1 .. n + m PROVE (g \o c)[i] = At(i)
      <4>1. CASE i <= n
        <5>1. (g \o c)[i] = g[i]
          BY <1>0, <2>2, <2>3, <3>1, <4>1
        <5> QED BY <2>3, <3>1, <4>1, <5>1
      <4>2. CASE i > n
        <5>1. (g \o c)[i] = t[i - n]
          <6> HIDE DEF g, c
          <6>1. i \in Len(g) + 1 .. Len(g) + Len(t)
            BY <1>0, <3>a, <4>2
          <6>2. (g \o t)[i] = t[i - Len(g)]
            BY <3>a, <6>1, ConcatSecond
          <6> QED BY <3>1, <3>a, <6>2
        <5>2. i - n = i - k + 1 /\ ~(i < k) /\ i < k + m
          BY <1>0, <2>4, <4>2
        <5>3. At(i) = t[i - k + 1]
          BY <5>2
        <5> QED BY <5>1, <5>2, <5>3
      <4>3. i <= n \/ i > n
        BY <1>0
      <4> HIDE DEF At, g, c
      <4> QED BY <4>1, <4>2, <4>3
    <3> HIDE DEF At, g, c
    <3> QED BY <2>2, <3>1, <3>2, <3>3
  <2>5. CASE n + 1 # k
    <3>1. c = <<s[n + 1]>> /\ Size(n + 1) = Size(n) + 1
      BY <1>0, <2>1, <2>5
    <3>2. Len(g \o c) = Size(n) + 1
      <4> HIDE DEF g, c, Size
      <4> QED BY <2>2, <2>3, <3>1
    <3>3. ASSUME NEW i \in 1 .. Size(n) + 1 PROVE (g \o c)[i] = At(i)
      <4>1. CASE i <= Size(n)
        <5>0. i \in 1 .. Size(n)
          BY <2>3, <4>1
        <5> HIDE DEF g, c, Size, At
        <5>1. (g \o c)[i] = g[i]
          BY <2>2, <2>3, <3>1, <5>0
        <5> QED BY <2>3, <5>0, <5>1
      <4>2. CASE i > Size(n)
        <5>1. i = Size(n) + 1
          BY <2>3, <4>2
        <5>2. (g \o c)[i] = s[n + 1]
          <6> HIDE DEF g, c, Size, At
          <6>1. <<s[n + 1]>> \in Seq(S) /\ Len(<<s[n + 1]>>) = 1 /\ g \in Seq(S)
            <7>1. s[n + 1] \in S
              BY <1>0, <2>1
            <7> QED BY <2>2, <7>1
          <6>2. i \in Len(g) + 1 .. Len(g) + Len(<<s[n + 1]>>) /\ i - Len(g) = 1
            BY <2>3, <5>1, <6>1
          <6>3. (g \o <<s[n + 1]>>)[i] = <<s[n + 1]>>[i - Len(g)]
            BY <6>1, <6>2, ConcatSecond
          <6>4. c = <<s[n + 1]>> /\ <<s[n + 1]>>[1] = s[n + 1]
            BY <3>1
          <6> QED BY <6>2, <6>3, <6>4
        <5>3. CASE n + 1 < k
          <6>1. i = n + 1 /\ i < k
            BY <1>0, <5>1, <5>3
          <6> QED BY <5>2, <6>1
        <5>4. CASE n + 1 > k
          <6>0. Size(n) = n - 1 + m
            BY <1>0, <5>4
          <6>1. i = n + m /\ ~(i < k) /\ ~(i < k + m) /\ i - m + 1 = n + 1
            BY <1>0, <5>1, <5>4, <6>0
          <6>2. At(i) = s[i - m + 1]
            BY <6>1
          <6> QED BY <5>2, <6>1, <6>2
        <5>5. n + 1 < k \/ n + 1 > k
          BY <1>0, <2>5
        <5> HIDE DEF At, g, c
        <5> QED BY <5>3, <5>4, <5>5
      <4>3. i <= Size(n) \/ i > Size(n)
        BY <2>3
      <4> HIDE DEF At, g, c, Size
      <4> QED BY <4>1, <4>2, <4>3
    <3> HIDE DEF At, g, c, Size
    <3> QED BY <2>2, <3>1, <3>2, <3>3
  <2> QED BY <2>4, <2>5
<1>5. Ok(L)
  <2> HIDE DEF T, Ok
  <2>1. \A n \in Nat : n \in T
    BY <1>3, <1>4, NatSetInduction
  <2> QED BY <1>0, <2>1 DEF T
<1>6. Size(L) = L - 1 + m
  BY <1>0
<1>7. f[L] \in Seq(S)
  BY <1>0, <1>2
<1> QED BY <1>2, <1>5, <1>6, <1>7 DEF Replaced, L, m


(* The least and the greatest of a set of indices. *)
LEMMA MinMaxOf ==
  ASSUME NEW L \in Nat, NEW S \in SUBSET (1 .. L), S # {}
  PROVE  /\ Min(S) \in S /\ \A n \in S : Min(S) <= n
         /\ Max(S) \in S /\ \A n \in S : n <= Max(S)
<1>1. \E m \in S : \A n \in S : m <= n
  <2>1. S \in SUBSET Nat
    OBVIOUS
  <2> QED BY <2>1, NatMin
<1>2. \E m \in S : \A n \in S : n <= m
  <2> DEFINE D == {L - n : n \in S}
  <2>0. \A n \in S : n \in 1 .. L /\ n \in Int /\ L - n \in Nat
    OBVIOUS
  <2>1. D \in SUBSET Nat /\ D # {}
    BY <2>0
  <2>2. PICK d \in D : \A e \in D : d <= e
    <3> HIDE DEF D
    <3> QED BY <2>1, NatMin
  <2>3. PICK m \in S : d = L - m
    OBVIOUS
  <2>4. \A n \in S : n <= m
    <3> SUFFICES ASSUME NEW n \in S PROVE n <= m
      OBVIOUS
    <3>1. L - n \in D /\ n \in Int /\ m \in Int
      BY <2>0
    <3>2. d <= L - n
      BY <2>2, <3>1
    <3> QED BY <2>3, <3>1, <3>2
  <2> QED BY <2>4
<1>3. Min(S) \in S /\ \A n \in S : Min(S) <= n
  BY <1>1 DEF Min
<1>4. Max(S) \in S /\ \A n \in S : n <= Max(S)
  <2>1. Max(S) = CHOOSE m \in S : \A n \in S : m >= n
    BY DEF Max
  <2>2. \E m \in S : \A n \in S : m >= n
    BY <1>2
  <2> QED BY <2>1, <2>2
<1> QED BY <1>3, <1>4

(* The configuration after trim_ranges. *)
Trimmed == machine \in Machines /\ IsConfig(config, high_mem_base) /\ Apart(config)

(* What is known of its ranges. *)
LEMMA TrimmedFacts ==
  ASSUME Trimmed
  PROVE  /\ config \in Seq(ZoneRange) /\ Len(config) \in Nat /\ DOMAIN config = 1 .. Len(config)
         /\ high_mem_base \in Nat /\ UMAX \in Nat
         /\ \A i \in 1 .. Len(config) :
              /\ config[i] \in ZoneRange /\ config[i].tag \in {"Linear", "High"}
              /\ config[i].base \in Nat /\ config[i].size \in Nat \ {0}
              /\ End(config[i]) = config[i].base + (config[i].size - 1) /\ End(config[i]) \in Nat
              /\ End(config[i]) <= UMAX /\ config[i].base <= End(config[i])
              /\ config[i].tag = "Linear" => End(config[i]) < high_mem_base
              /\ config[i].tag = "High" => config[i].base >= high_mem_base
              /\ Cover(config[i]) = config[i].base .. End(config[i])
         /\ \A i, j \in 1 .. Len(config) : i < j => End(config[i]) < config[j].base
<1>1. config \in Seq(ZoneRange) /\ \A i \in 1 .. Len(config) : GoodRange(config[i], high_mem_base)
  BY DEF Trimmed, IsConfig
<1>2. high_mem_base \in Nat /\ UMAX \in Nat
  BY HighMemBase, UmaxAssumption DEF Trimmed
<1>3. \A i, j \in 1 .. Len(config) : i < j => End(config[i]) < config[j].base
  BY DEF Trimmed, Apart
<1>4. ASSUME NEW i \in 1 .. Len(config)
      PROVE  /\ config[i] \in ZoneRange /\ config[i].tag \in {"Linear", "High"}
             /\ config[i].base \in Nat /\ config[i].size \in Nat \ {0}
             /\ End(config[i]) = config[i].base + (config[i].size - 1) /\ End(config[i]) \in Nat
             /\ End(config[i]) <= UMAX /\ config[i].base <= End(config[i])
             /\ config[i].tag = "Linear" => End(config[i]) < high_mem_base
             /\ config[i].tag = "High" => config[i].base >= high_mem_base
             /\ Cover(config[i]) = config[i].base .. End(config[i])
  <2> DEFINE r == config[i]
  <2>1. GoodRange(r, high_mem_base)
    BY <1>1
  <2> HIDE DEF r
  <2>2. /\ r \in ZoneRange /\ r.tag \in {"Linear", "High"} /\ r.base \in Nat /\ r.size \in Nat \ {0}
        /\ End(r) = r.base + (r.size - 1) /\ End(r) <= UMAX
        /\ (r.tag = "Linear" => End(r) < high_mem_base) /\ (r.tag = "High" => r.base >= high_mem_base)
        /\ Cover(r) = r.base .. r.base + r.size - 1
    BY <2>1 DEF GoodRange, IsRange, ZoneRange, Zone, End, Cover
  <2>3. End(r) \in Nat /\ r.base <= End(r) /\ r.base + r.size - 1 = End(r)
    BY <2>2
  <2> QED BY <2>2, <2>3 DEF r
<1> QED BY <1>1, <1>2, <1>3, <1>4

(* init_zone_info: the ranges of a zone are those from its first to its last *)
(* one, and the bounding range goes from the one to the other.               *)
LEMMA ZoneBounds ==
  ASSUME Trimmed, NEW z \in Served
  PROVE  LET lo == Min(ZoneIndices(z))
             hi == Max(ZoneIndices(z))
         IN /\ lo \in 1 .. Len(config) /\ hi \in 1 .. Len(config) /\ lo <= hi
            /\ \A i \in 1 .. Len(config) : config[i].tag = z <=> lo <= i /\ i <= hi
            /\ BoundingRange(z).base = config[lo].base
            /\ BoundingRange(z).size = End(config[hi]) - config[lo].base + 1
            /\ BoundingRange(z).size \in Nat \ {0} /\ End(BoundingRange(z)) = End(config[hi])
<1> DEFINE I == ZoneIndices(z)
           lo == Min(I)
           hi == Max(I)
           L == Len(config)
<1>0. /\ L \in Nat /\ DOMAIN config = 1 .. L /\ high_mem_base \in Nat
      /\ \A i \in 1 .. L :
           /\ config[i] \in ZoneRange /\ config[i].tag \in {"Linear", "High"}
           /\ config[i].base \in Nat /\ End(config[i]) \in Nat /\ config[i].base <= End(config[i])
           /\ config[i].tag = "Linear" => End(config[i]) < high_mem_base
           /\ config[i].tag = "High" => config[i].base >= high_mem_base
      /\ \A i, j \in 1 .. L : i < j => End(config[i]) < config[j].base
  BY TrimmedFacts
<1>1. I \in SUBSET (1 .. L) /\ I # {} /\ (\A i \in 1 .. L : i \in I <=> config[i].tag = z) /\ z \in Zone
  BY <1>0 DEF ZoneIndices, Served
<1> HIDE DEF L
<1>2. /\ lo \in I /\ (\A n \in I : lo <= n) /\ hi \in I /\ \A n \in I : n <= hi
  <2> HIDE DEF I
  <2> QED BY <1>0, <1>1, MinMaxOf
<1>a. I = ZoneIndices(z)
  OBVIOUS
<1> HIDE DEF I
<1>3. lo \in 1 .. L /\ hi \in 1 .. L /\ lo <= hi /\ config[lo].tag = z /\ config[hi].tag = z
  BY <1>1, <1>2
<1>4. ASSUME NEW i \in 1 .. L, lo <= i, i <= hi PROVE config[i].tag = z
  <2> HIDE DEF lo, hi
  <2>1. CASE z = "Linear"
    <3>1. CASE i = hi
      BY <1>3, <3>1
    <3>2. CASE i # hi
      <4>1. i < hi
        BY <1>0, <1>3, <1>4, <3>2
      <4>2. End(config[i]) < config[hi].base
        BY <1>0, <1>3, <4>1
      <4>3. config[i].base < high_mem_base
        BY <1>0, <1>3, <2>1, <4>2
      <4> QED BY <1>0, <2>1, <4>3
    <3> QED BY <3>1, <3>2
  <2>2. CASE z = "High"
    <3>1. CASE i = lo
      BY <1>3, <3>1
    <3>2. CASE i # lo
      <4>1. lo < i
        BY <1>0, <1>3, <1>4, <3>2
      <4>2. End(config[lo]) < config[i].base
        BY <1>0, <1>3, <4>1
      <4>3. ~(End(config[i]) < high_mem_base)
        <5> DEFINE a == config[lo].base
                   b == End(config[lo])
                   c == config[i].base
                   d == End(config[i])
        <5>1. a \in Nat /\ b \in Nat /\ c \in Nat /\ d \in Nat /\ a >= high_mem_base /\ a <= b /\ c <= d /\ b < c
          BY <1>0, <1>3, <2>2, <4>2
        <5> HIDE DEF a, b, c, d
        <5>2. ~(d < high_mem_base)
          BY <1>0, <5>1
        <5> QED BY <5>2 DEF d
      <4> QED BY <1>0, <2>2, <4>3
    <3> QED BY <3>1, <3>2
  <2> QED BY <1>1, <2>1, <2>2 DEF Zone
<1>5. \A i \in 1 .. L : config[i].tag = z <=> lo <= i /\ i <= hi
  BY <1>1, <1>2, <1>4
<1> HIDE DEF lo, hi
<1>b. lo = Min(ZoneIndices(z)) /\ hi = Max(ZoneIndices(z)) /\ ZoneIndices(z) # {}
  BY <1>1, <1>a DEF lo, hi
<1>6. BoundingRange(z) = [config[lo] EXCEPT !.size = End(config[hi]) - config[lo].base + 1]
  BY <1>b DEF BoundingRange
<1>7. config[lo].base <= End(config[hi])
  <2>1. CASE lo = hi
    BY <1>0, <1>3, <2>1
  <2>2. CASE lo < hi
    <3>1. End(config[lo]) < config[hi].base
      BY <1>0, <1>3, <2>2
    <3> QED BY <1>0, <1>3, <3>1
  <2> QED BY <1>0, <1>3, <2>1, <2>2
<1>8. /\ BoundingRange(z).base = config[lo].base
      /\ BoundingRange(z).size = End(config[hi]) - config[lo].base + 1
  BY <1>0, <1>3, <1>6 DEF ZoneRange
<1>9. BoundingRange(z).size \in Nat \ {0} /\ End(BoundingRange(z)) = End(config[hi])
  <2> DEFINE a == config[lo].base
             b == End(config[hi])
             r == BoundingRange(z)
  <2>1. a \in Nat /\ b \in Nat /\ a <= b /\ r.base = a /\ r.size = b - a + 1
    BY <1>0, <1>3, <1>7, <1>8
  <2> HIDE DEF a, b, r
  <2>2. r.size \in Nat \ {0} /\ r.base + (r.size - 1) = b
    BY <2>1
  <2> QED BY <2>2 DEF End, a, b, r
<1> QED BY <1>3, <1>5, <1>8, <1>9, <1>b DEF L

(* The metadata of a zone, and of both, has a size. *)
LEMMA MetaNat ==
  ASSUME Trimmed
  PROVE  /\ \A z \in Zone : BoundingRange(z).size \in Nat /\ MetaSize(z) \in Nat
         /\ MetaTotal \in Nat /\ MetaTotal = MetaSize("Linear") + MetaSize("High")
<1>1. ASSUME NEW z \in Zone PROVE BoundingRange(z).size \in Nat /\ MetaSize(z) \in Nat
  <2>1. BoundingRange(z).size \in Nat
    <3>1. CASE z \in Served
      BY <3>1, ZoneBounds
    <3>2. CASE z \notin Served
      <4>1. BoundingRange(z) = Area(0, 0)
        BY <3>2 DEF Served, BoundingRange
      <4> QED BY <4>1 DEF Area
    <3> QED BY <3>1, <3>2
  <2> DEFINE pages == BoundingRange(z).size
  <2> HIDE DEF pages
  <2>2. pages \in Nat
    BY <2>1 DEF pages
  <2>3. MetadataPages(pages) \in Nat
    BY <2>2, MetadataFits
  <2> QED BY <2>1, <2>3 DEF MetaSize, pages
<1>2. "Linear" \in Zone /\ "High" \in Zone
  BY DEF Zone
<1> QED BY <1>1, <1>2 DEF MetaTotal

(* init_allocator_memory_config: the metadata is the end of a linear range,  *)
(* of which something is left.                                               *)
LEMMA HostFacts ==
  ASSUME Trimmed, MetaBase # 0
  PROVE  LET host == Min(MetaHosts)
         IN /\ host \in 1 .. Len(config) /\ config[host].tag = "Linear"
            /\ MetaTotal < config[host].size
            /\ MetaBase = End(config[host]) - MetaTotal + 1
            /\ MetaBase \in Nat /\ config[host].base < MetaBase
<1> DEFINE H == MetaHosts
           host == Min(H)
           L == Len(config)
<1>0. L \in Nat /\ DOMAIN config = 1 .. L /\ MetaTotal \in Nat
  BY TrimmedFacts, MetaNat
<1>1. H \in SUBSET (1 .. L) /\ H # {} /\ MetaBase = End(config[host]) - MetaTotal + 1
      /\ \A i \in H : config[i].tag = "Linear" /\ MetaTotal < config[i].size
  BY <1>0 DEF MetaHosts, MetaBase, HoldsMetadata
<1>2. host \in H
  <2> HIDE DEF H
  <2> QED BY <1>0, <1>1, MinMaxOf
<1>3. host \in 1 .. L /\ config[host].tag = "Linear" /\ MetaTotal < config[host].size
  BY <1>1, <1>2
<1> HIDE DEF H, host, L
<1>4. /\ config[host].base \in Nat /\ config[host].size \in Nat
      /\ End(config[host]) = config[host].base + (config[host].size - 1)
  BY <1>3, TrimmedFacts DEF L
<1>5. MetaBase \in Nat /\ config[host].base < MetaBase
  BY <1>0, <1>1, <1>3, <1>4
<1> QED BY <1>1, <1>3, <1>5 DEF H, host, L


(* A set with a part of range k cut off at its end. *)
Cut(new, set, k, total) ==
  /\ new \in Seq(ZoneRange) /\ Len(new) = Len(set)
  /\ \A i \in 1 .. Len(set) :
       new[i] = IF i = k THEN [set[i] EXCEPT !.size = set[i].size - total] ELSE set[i]

(* exclude_range with the end of a range: the range is split into a part and *)
(* an empty one, which trim_empty_ranges drops, so that the indices of all   *)
(* ranges stay.                                                              *)
LEMMA CutEnd ==
  ASSUME NEW set, NEW h \in Int, IsConfig(set, h), Apart(set), NEW k \in 1 .. Len(set),
         NEW total \in Nat, total < set[k].size
  PROVE  Cut(ExcludeRange(set, Area(End(set[k]) - total + 1, total)), set, k, total)
<1> DEFINE L == Len(set)
           e == Area(End(set[k]) - total + 1, total)
           r == set[k]
           short == [set[k] EXCEPT !.size = set[k].size - total]
<1>0. /\ set \in Seq(ZoneRange) /\ L \in Nat /\ L = Len(set) /\ k \in 1 .. L
      /\ \A i \in 1 .. L : GoodRange(set[i], h)
      /\ \A i, j \in 1 .. L : i < j => End(set[i]) < set[j].base
  BY DEF IsConfig, Apart
<1>1. \A i \in 1 .. L : /\ set[i] \in ZoneRange /\ set[i].base \in Nat /\ set[i].size \in Nat \ {0}
                        /\ End(set[i]) = set[i].base + (set[i].size - 1) /\ End(set[i]) \in Nat
                        /\ set[i].base <= End(set[i]) /\ End(set[i]) <= UMAX
  <2> SUFFICES ASSUME NEW i \in 1 .. L
               PROVE  /\ set[i] \in ZoneRange /\ set[i].base \in Nat /\ set[i].size \in Nat \ {0}
                      /\ End(set[i]) = set[i].base + (set[i].size - 1) /\ End(set[i]) \in Nat
                      /\ set[i].base <= End(set[i]) /\ End(set[i]) <= UMAX
    OBVIOUS
  <2>1. /\ set[i] \in ZoneRange /\ set[i].base \in Nat /\ set[i].size \in Nat \ {0}
        /\ End(set[i]) = set[i].base + (set[i].size - 1) /\ End(set[i]) <= UMAX
    BY <1>0 DEF GoodRange, IsRange, End
  <2> QED BY <2>1
<1>2. e.base = End(r) - total + 1 /\ e.size = total /\ UMAX \in Nat
  BY UmaxAssumption DEF Area
<1>3. short \in ZoneRange /\ short.size = r.size - total /\ short.base = r.base /\ short.tag = r.tag
  <2> DEFINE size == set[k].size - total
  <2>1. size \in Nat /\ set[k] \in ZoneRange
    BY <1>0, <1>1
  <2>2. short = [set[k] EXCEPT !.size = size]
    OBVIOUS
  <2> HIDE DEF size
  <2>3. short \in ZoneRange /\ short.size = size /\ short.base = r.base /\ short.tag = r.tag
    BY <2>1, <2>2 DEF ZoneRange
  <2> QED BY <2>3 DEF size
<1> HIDE DEF L, e, short
<1> SUFFICES Cut(ExcludeRange(set, e), set, k, total)
  BY DEF e
<1>4. CASE total = 0
  <2>1. ExcludeRange(set, e) = set
    BY <1>2, <1>4 DEF ExcludeRange
  <2>2. short = set[k]
    <3>1. set[k].size - total = set[k].size /\ set[k] \in ZoneRange
      BY <1>0, <1>1, <1>4
    <3>2. short = [set[k] EXCEPT !.size = set[k].size]
      BY <3>1 DEF short
    <3> QED BY <3>1, <3>2 DEF ZoneRange
  <2>3. \A i \in 1 .. L : set[i] = IF i = k THEN [set[i] EXCEPT !.size = set[i].size - total] ELSE set[i]
    BY <2>2 DEF short
  <2> QED BY <1>0, <2>1, <2>3 DEF Cut
<1>5. CASE total > 0
  <2> DEFINE hi == Above(r, e)
             t == <<short, hi>>
             q == [i \in 1 .. L |-> Exclude(set[i], e)]
             mid == FlattenSeq(q)
  <2>1. /\ End(e) = End(r) /\ r.base < e.base /\ e.base <= End(r) /\ IsArea(e)
    <3> DEFINE b == r.base
               s == r.size
    <3>1. b \in Nat /\ s \in Nat /\ total < s /\ End(r) = b + (s - 1)
      BY <1>0, <1>1
    <3> HIDE DEF b, s
    <3>2. End(e) = e.base + (e.size - 1)
      BY DEF End
    <3>3. e.base = b + (s - 1) - total + 1 /\ e.size = total
      BY <1>2, <3>1
    <3>4. End(e) = End(r) /\ b < e.base /\ e.base <= End(r) /\ e.base \in Nat /\ e.size \in Nat \ {0}
      BY <1>5, <3>1, <3>2, <3>3
    <3> QED BY <3>4 DEF b, IsArea
  <2>2. Exclude(r, e) = t
    <3>0. r.base \in Nat /\ End(r) \in Nat /\ r.base <= End(r) /\ e.base \in Nat
      BY <1>0, <1>1, <2>1 DEF IsArea
    <3>a. /\ r.base # e.base /\ ~(End(r) < e.base) /\ ~(End(e) < r.base)
          /\ r.base <= e.base /\ End(r) >= End(e)
      BY <2>1, <3>0
    <3>1. Cmp(r, e) = "Superset"
      BY <3>a DEF Cmp
    <3>2. Exclude(r, e) = <<Below(r, e), hi>>
      BY <3>1 DEF Exclude
    <3>3. Below(r, e) = short
      <4>1. e.base - r.base = r.size - total
        <5> DEFINE b == r.base
                   s == r.size
        <5>1. b \in Nat /\ s \in Nat /\ End(r) = b + (s - 1)
          BY <1>0, <1>1
        <5> HIDE DEF b, s
        <5>2. e.base - b = s - total
          BY <1>2, <5>1
        <5> QED BY <5>2 DEF b, s
      <4>2. Below(r, e) = [tag |-> r.tag, base |-> r.base, size |-> r.size - total]
        BY <4>1 DEF Below
      <4>3. short \in ZoneRange /\ short = [tag |-> short.tag, base |-> short.base, size |-> short.size]
        BY <1>3 DEF ZoneRange
      <4> QED BY <1>3, <4>2, <4>3
    <3> QED BY <3>2, <3>3
  <2>3. hi.size = 0 /\ hi \in ZoneRange
    <3>1. GoodRange(r, h)
      BY <1>0
    <3>2. Exclude(r, e) \in Seq(ZoneRange)
      BY <2>1, <3>1, ExcludeParts
    <3>3. t \in Seq(ZoneRange) /\ t[2] = hi /\ Len(t) = 2
      BY <2>2, <3>2
    <3>4. hi.size = End(r) - End(e)
      BY DEF Above
    <3>5. End(r) \in Nat
      BY <1>0, <1>1
    <3> HIDE DEF hi, t
    <3>6. hi.size = 0
      BY <2>1, <3>4, <3>5
    <3>7. hi \in ZoneRange
      <4>1. 2 \in 1 .. Len(t)
        BY <3>3
      <4>2. t[2] \in ZoneRange
        BY <3>3, <4>1
      <4> QED BY <3>3, <4>2
    <3> QED BY <3>6, <3>7
  <2>4. \A i \in 1 .. L : i # k => Exclude(set[i], e) = <<set[i]>>
    <3> SUFFICES ASSUME NEW i \in 1 .. L, i # k PROVE Exclude(set[i], e) = <<set[i]>>
      OBVIOUS
    <3>1. CASE i < k
      <4>1. End(set[i]) < r.base
        BY <1>0, <3>1
      <4>2. End(set[i]) < e.base /\ set[i].base # e.base
        <5>1. e.base \in Nat
          BY <2>1 DEF IsArea
        <5> QED BY <1>0, <1>1, <2>1, <4>1, <5>1
      <4>3. Cmp(set[i], e) = "Less"
        BY <4>2 DEF Cmp
      <4> QED BY <4>3 DEF Exclude
    <3>2. CASE i > k
      <4>1. End(r) < set[i].base
        BY <1>0, <3>2
      <4>2. End(e) < set[i].base /\ set[i].base # e.base
        <5>1. e.base \in Nat
          BY <2>1 DEF IsArea
        <5> QED BY <1>0, <1>1, <2>1, <4>1, <5>1
      <4>3. Cmp(set[i], e) \in {"Less", "Greater"}
        BY <4>2 DEF Cmp
      <4> QED BY <4>3 DEF Exclude
    <3> QED BY <1>0, <3>1, <3>2
  <2>5. t \in Seq(ZoneRange) /\ Len(t) = 2 /\ t[1] = short /\ t[2] = hi
    BY <1>3, <2>3
  <2>6. q \in Seq(Seq(ZoneRange)) /\ Len(q) = L /\ q[k] = t /\ \A i \in 1 .. L : i # k => q[i] = <<set[i]>>
    <3>1. \A i \in 1 .. L : Exclude(set[i], e) \in Seq(ZoneRange)
      BY <1>0, <2>1, ExcludeParts
    <3> HIDE DEF t
    <3> QED BY <1>0, <2>2, <2>4, <3>1
  <2>a. ExcludeRange(set, e) = TrimEmptyRanges(mid)
    BY <1>0, <1>2, <1>5 DEF ExcludeRange, Pieces
  <2> HIDE DEF q, t, hi, mid
  <2>7. Replaced(mid, ZoneRange, set, k, t)
    BY <1>0, <2>5, <2>6, FlattenReplace DEF mid
  <2>8. /\ mid \in Seq(ZoneRange) /\ Len(mid) = L + 1 /\ mid[k] = short /\ mid[k + 1] = hi
        /\ \A i \in 1 .. L + 1 : i < k => mid[i] = set[i]
        /\ \A i \in 1 .. L + 1 : i > k + 1 => mid[i] = set[i - 1]
    <3>1. /\ mid \in Seq(ZoneRange) /\ Len(mid) = L + 1
          /\ \A i \in 1 .. L + 1 :
               mid[i] = IF i < k THEN set[i] ELSE IF i < k + 2 THEN t[i - k + 1] ELSE set[i - 2 + 1]
      BY <1>0, <2>5, <2>7 DEF Replaced
    <3>2. k - k + 1 = 1 /\ (k + 1) - k + 1 = 2 /\ k < k + 2 /\ k + 1 < k + 2 /\ k \in 1 .. L + 1 /\ k + 1 \in 1 .. L + 1
      BY <1>0
    <3>3. mid[k] = t[1] /\ mid[k + 1] = t[2]
      BY <3>1, <3>2
    <3>4. \A i \in 1 .. L + 1 : i > k + 1 => i - 2 + 1 = i - 1 /\ ~(i < k) /\ ~(i < k + 2)
      BY <1>0
    <3> QED BY <2>5, <3>1, <3>3, <3>4
  <2> DEFINE k1 == k + 1
             q1 == [i \in 1 .. Len(mid) |-> IF mid[i].size > 0 THEN <<mid[i]>> ELSE <<>>]
             new == FlattenSeq(q1)
  <2>9. TrimEmptyRanges(mid) = new
    BY DEF TrimEmptyRanges
  <2>10. \A i \in 1 .. L + 1 : i # k1 => mid[i].size > 0
    <3> SUFFICES ASSUME NEW i \in 1 .. L + 1, i # k1 PROVE mid[i].size > 0
      OBVIOUS
    <3>1. CASE i < k
      <4>1. mid[i] = set[i] /\ i \in 1 .. L
        BY <1>0, <2>8, <3>1
      <4> QED BY <1>1, <4>1
    <3>2. CASE i = k
      BY <1>0, <1>1, <1>3, <2>8, <3>2
    <3>3. CASE i > k + 1
      <4>1. mid[i] = set[i - 1] /\ i - 1 \in 1 .. L
        BY <1>0, <2>8, <3>3
      <4> QED BY <1>1, <4>1
    <3> QED BY <1>0, <3>1, <3>2, <3>3
  <2>11. mid[k1].size = 0 /\ k1 \in 1 .. Len(mid) /\ <<>> \in Seq(ZoneRange) /\ Len(mid) \in Nat /\ Len(mid) = L + 1
    BY <1>0, <2>3, <2>8
  <2>12. q1 \in Seq(Seq(ZoneRange)) /\ Len(q1) = Len(mid) /\ q1[k1] = <<>>
         /\ \A i \in 1 .. Len(mid) : i # k1 => q1[i] = <<mid[i]>>
    <3>1. \A i \in 1 .. Len(mid) : (IF mid[i].size > 0 THEN <<mid[i]>> ELSE <<>>) \in Seq(ZoneRange)
      BY <2>8
    <3> HIDE DEF k1
    <3>2. q1 \in Seq(Seq(ZoneRange)) /\ Len(q1) = Len(mid)
      <4>1. q1 \in [1 .. Len(mid) -> Seq(ZoneRange)]
        BY <3>1
      <4> HIDE DEF q1
      <4> QED BY <2>11, <4>1
    <3>3. q1[k1] = <<>>
      BY <2>11
    <3>4. \A i \in 1 .. Len(mid) : i # k1 => q1[i] = <<mid[i]>>
      BY <2>10, <2>11
    <3> QED BY <3>2, <3>3, <3>4
  <2> HIDE DEF q1, k1, new
  <2>13. Replaced(new, ZoneRange, mid, k1, <<>>)
    BY <2>8, <2>11, <2>12, FlattenReplace DEF new
  <2>14. /\ new \in Seq(ZoneRange) /\ Len(new) = L
         /\ \A i \in 1 .. L : new[i] = IF i < k1 THEN mid[i] ELSE mid[i + 1]
    <3>1. Len(<<>>) = 0 /\ Len(mid) - 1 + 0 = L /\ k1 \in Nat /\ k1 + 0 = k1
      BY <1>0, <2>8, <2>11
    <3>2. /\ new \in Seq(ZoneRange) /\ Len(new) = L
          /\ \A i \in 1 .. L : new[i] = IF i < k1 THEN mid[i] ELSE IF i < k1 THEN <<>>[i - k1 + 1] ELSE mid[i - 0 + 1]
      BY <2>13, <3>1 DEF Replaced
    <3>3. \A i \in 1 .. L : i - 0 + 1 = i + 1
      BY <1>0
    <3> QED BY <3>2, <3>3
  <2>15. \A i \in 1 .. L : new[i] = IF i = k THEN short ELSE set[i]
    <3> SUFFICES ASSUME NEW i \in 1 .. L PROVE new[i] = IF i = k THEN short ELSE set[i]
      OBVIOUS
    <3>1. CASE i < k
      <4>1. i < k1 /\ i \in 1 .. L + 1 /\ i # k
        BY <1>0, <3>1 DEF k1
      <4> QED BY <2>8, <2>14, <3>1, <4>1
    <3>2. CASE i = k
      <4>1. i < k1
        BY <1>0, <3>2 DEF k1
      <4> QED BY <2>8, <2>14, <3>2, <4>1
    <3>3. CASE i > k
      <4>1. ~(i < k1) /\ i + 1 > k + 1 /\ (i + 1) - 1 = i /\ i + 1 \in 1 .. L + 1 /\ i # k
        BY <1>0, <3>3 DEF k1
      <4> QED BY <2>8, <2>14, <4>1
    <3> QED BY <1>0, <3>1, <3>2, <3>3
  <2> QED BY <1>0, <2>9, <2>a, <2>14, <2>15 DEF Cut, short
<1>6. total = 0 \/ total > 0
  OBVIOUS
<1> QED BY <1>4, <1>5, <1>6


(* init_allocators excludes the metadata: the ranges keep their indices,     *)
(* tags and bases, and one of them ends earlier.                             *)
LEMMA AllocFacts ==
  ASSUME Trimmed, MetaBase # 0
  PROVE  /\ AllocConfig \in Seq(ZoneRange) /\ Len(AllocConfig) = Len(config) /\ Apart(AllocConfig)
         /\ CoverAll(AllocConfig) = CoverAll(config) \ Cover(Area(MetaBase, MetaTotal))
         /\ \A i \in 1 .. Len(config) :
              /\ AllocConfig[i].tag = config[i].tag /\ AllocConfig[i].base = config[i].base
              /\ End(AllocConfig[i]) \in Nat /\ End(AllocConfig[i]) <= End(config[i])
              /\ Cover(AllocConfig[i]) = config[i].base .. End(AllocConfig[i])
<1> DEFINE host == Min(MetaHosts)
           e == Area(MetaBase, MetaTotal)
           h == high_mem_base
           A == AllocConfig
<1>1. /\ host \in 1 .. Len(config) /\ MetaTotal < config[host].size
      /\ MetaBase = End(config[host]) - MetaTotal + 1 /\ MetaBase \in Nat
  BY HostFacts
<1>2. MetaTotal \in Nat /\ h \in Int /\ IsConfig(config, h) /\ Apart(config)
  BY MetaNat, TrimmedFacts DEF Trimmed
<1>3. e.base \in Nat /\ e.size \in Nat
  BY <1>1, <1>2 DEF Area
<1>4. A = ExcludeRange(config, e)
  BY DEF AllocConfig
<1>5. e = Area(End(config[host]) - MetaTotal + 1, MetaTotal)
  BY <1>1
<1>a. \A i \in 1 .. Len(config) : config[i] \in ZoneRange /\ config[i].size \in Nat \ {0} /\ config[i].base \in Nat
  BY TrimmedFacts
<1> HIDE DEF host, e, h, A
<1>6. Apart(A) /\ IsConfig(A, h) /\ CoverAll(A) = CoverAll(config) \ Cover(e)
  BY <1>2, <1>3, <1>4, ExcludeRangeKeeps
<1>7. Cut(A, config, host, MetaTotal)
  BY <1>1, <1>2, <1>4, <1>5, CutEnd
<1>8. A \in Seq(ZoneRange) /\ Len(A) = Len(config)
  BY <1>7 DEF Cut
<1>9. ASSUME NEW i \in 1 .. Len(config)
      PROVE  /\ A[i].tag = config[i].tag /\ A[i].base = config[i].base
             /\ End(A[i]) \in Nat /\ End(A[i]) <= End(config[i])
             /\ Cover(A[i]) = config[i].base .. End(A[i])
  <2> DEFINE c == config[i]
             a == A[i]
  <2>1. c \in ZoneRange /\ c.size \in Nat \ {0} /\ c.base \in Nat
    BY <1>a
  <2>2. a = IF i = host THEN [c EXCEPT !.size = c.size - MetaTotal] ELSE c
    BY <1>7 DEF Cut
  <2>3. MetaTotal < config[host].size /\ MetaTotal \in Nat
    BY <1>1, <1>2
  <2> HIDE DEF c, a
  <2>4. a.tag = c.tag /\ a.base = c.base /\ a.size \in Nat \ {0} /\ a.size <= c.size
    <3>1. CASE i = host
      <4> DEFINE size == c.size - MetaTotal
      <4>1. size \in Nat \ {0} /\ size <= c.size
        BY <2>1, <2>3, <3>1 DEF c
      <4>2. a = [c EXCEPT !.size = size]
        BY <2>2, <3>1
      <4> HIDE DEF size
      <4>3. a.tag = c.tag /\ a.base = c.base /\ a.size = size
        BY <2>1, <4>2 DEF ZoneRange
      <4> QED BY <4>1, <4>3
    <3>2. CASE i # host
      BY <2>1, <2>2, <3>2
    <3> QED BY <3>1, <3>2
  <2>5. /\ End(a) = a.base + (a.size - 1) /\ End(c) = c.base + (c.size - 1)
        /\ Cover(a) = a.base .. a.base + a.size - 1
    BY DEF End, Cover
  <2>6. End(a) \in Nat /\ End(a) <= End(c) /\ a.base + a.size - 1 = End(a)
    BY <2>1, <2>4, <2>5
  <2> QED BY <2>4, <2>5, <2>6 DEF a, c
<1> QED BY <1>6, <1>8, <1>9 DEF A, e

(* The ranges of a new allocator are those of its zone. *)
LEMMA SliceIs ==
  ASSUME Trimmed, MetaBase # 0, NEW z \in Served
  PROVE  ToSet(NewAllocator(z).ranges) = {AllocConfig[i] : i \in ZoneIndices(z)}
<1> DEFINE lo == Min(ZoneIndices(z))
           hi == Max(ZoneIndices(z))
           to == Min({hi, Len(AllocConfig)})
           A == AllocConfig
           L == Len(config)
<1>1. /\ lo \in 1 .. L /\ hi \in 1 .. L /\ lo <= hi
      /\ \A i \in 1 .. L : config[i].tag = z <=> lo <= i /\ i <= hi
  BY ZoneBounds
<1>2. A \in Seq(ZoneRange) /\ Len(A) = L /\ L \in Nat /\ DOMAIN config = 1 .. L
  BY AllocFacts, TrimmedFacts
<1>3. NewAllocator(z).ranges = SubSeq(A, lo, to)
  BY DEF NewAllocator
<1>4. \A i : i \in ZoneIndices(z) <=> i \in lo .. hi
  BY <1>1, <1>2 DEF ZoneIndices
<1>a. to = Min({hi, L})
  BY <1>2
<1> HIDE DEF lo, hi, A, L, to
<1>5. to = hi
  <2> DEFINE S == {hi, L}
  <2>1. S \in SUBSET (1 .. L) /\ S # {} /\ hi \in S
    BY <1>1, <1>2
  <2>2. Min(S) \in S /\ \A n \in S : Min(S) <= n
    <3> HIDE DEF S
    <3> QED BY <1>2, <2>1, MinMaxOf
  <2>3. Min(S) = hi
    BY <1>1, <1>2, <2>2
  <2> QED BY <1>a, <2>3
<1> DEFINE s == SubSeq(A, lo, hi)
<1>6. Len(s) = hi - lo + 1 /\ s \in Seq(ZoneRange) /\ \A j \in 1 .. hi - lo + 1 : s[j] = A[lo + j - 1]
  BY <1>1, <1>2
<1> HIDE DEF s
<1>7. ToSet(s) = {s[j] : j \in 1 .. hi - lo + 1}
  BY <1>6 DEF ToSet
<1>8. \A i \in lo .. hi : i - lo + 1 \in 1 .. hi - lo + 1 /\ lo + (i - lo + 1) - 1 = i
  BY <1>1
<1>9. \A j \in 1 .. hi - lo + 1 : lo + j - 1 \in lo .. hi
  BY <1>1
<1>10. ToSet(s) = {A[i] : i \in lo .. hi}
  <2>1. ASSUME NEW i \in lo .. hi PROVE A[i] \in ToSet(s)
    <3>1. s[i - lo + 1] = A[lo + (i - lo + 1) - 1]
      BY <1>6, <1>8
    <3> QED BY <1>7, <1>8, <3>1
  <2>2. ASSUME NEW j \in 1 .. hi - lo + 1 PROVE s[j] \in {A[i] : i \in lo .. hi}
    BY <1>6, <1>9
  <2> QED BY <1>7, <2>1, <2>2
<1>11. {A[i] : i \in lo .. hi} = {A[i] : i \in ZoneIndices(z)}
  BY <1>4
<1> QED BY <1>3, <1>5, <1>10, <1>11 DEF A, s

(* What each zone has once init_allocators is done, also one without memory. *)
LEMMA ZonesAre ==
  ASSUME Trimmed, Laid, NEW z \in Zone
  PROVE  /\ zones[z].range = BoundingRange(z)
         /\ ToSet(zones[z].ranges) = {AllocConfig[i] : i \in ZoneIndices(z)}
<1>1. MetaBase # 0 /\ zones[z] = IF z \in Served THEN NewAllocator(z) ELSE NoZone
  BY DEF Laid, MetadataPanics
<1>2. CASE z \in Served
  BY <1>1, <1>2, SliceIs DEF NewAllocator
<1>3. CASE z \notin Served
  <2>1. ZoneIndices(z) = {} /\ zones[z] = NoZone
    BY <1>1, <1>3 DEF Served
  <2>2. zones[z].range = Area(0, 0) /\ zones[z].ranges = <<>>
    BY <2>1 DEF NoZone
  <2>3. BoundingRange(z) = Area(0, 0)
    BY <2>1 DEF BoundingRange
  <2>4. ToSet(<<>>) = {}
    BY DEF ToSet
  <2> QED BY <2>1, <2>2, <2>3, <2>4
<1> QED BY <1>2, <1>3


(* The ranges of a zone lie in its bounding range. *)
LEMMA ZoneInside ==
  ASSUME Trimmed, MetaBase # 0, NEW z \in Served, NEW i \in ZoneIndices(z)
  PROVE  /\ i \in 1 .. Len(config) /\ config[i].tag = z
         /\ BoundingRange(z).base \in Nat /\ End(BoundingRange(z)) \in Nat
         /\ BoundingRange(z).base <= config[i].base /\ End(config[i]) <= End(BoundingRange(z))
         /\ Cover(AllocConfig[i]) \subseteq Cover(BoundingRange(z))
<1> DEFINE lo == Min(ZoneIndices(z))
           hi == Max(ZoneIndices(z))
           b == BoundingRange(z)
           L == Len(config)
<1>1. /\ lo \in 1 .. L /\ hi \in 1 .. L
      /\ \A j \in 1 .. L : config[j].tag = z <=> lo <= j /\ j <= hi
      /\ b.base = config[lo].base /\ End(b) = End(config[hi]) /\ b.size \in Nat
  BY ZoneBounds
<1>2. /\ L \in Nat /\ DOMAIN config = 1 .. L
      /\ \A j \in 1 .. L : config[j].base \in Nat /\ End(config[j]) \in Nat /\ config[j].base <= End(config[j])
      /\ \A j, k \in 1 .. L : j < k => End(config[j]) < config[k].base
  BY TrimmedFacts
<1>3. i \in 1 .. L /\ config[i].tag = z
  BY <1>2 DEF ZoneIndices
<1> HIDE DEF lo, hi, L, b
<1>4. lo <= i /\ i <= hi
  BY <1>1, <1>3
<1>5. b.base \in Nat /\ End(b) \in Nat
  BY <1>1, <1>2
<1>6. b.base <= config[i].base
  <2>1. CASE lo = i
    BY <1>1, <1>2, <1>3, <2>1
  <2>2. CASE lo < i
    <3>1. End(config[lo]) < config[i].base
      BY <1>1, <1>2, <1>3, <2>2
    <3> QED BY <1>1, <1>2, <1>3, <3>1
  <2> QED BY <1>1, <1>3, <1>4, <2>1, <2>2
<1>7. End(config[i]) <= End(b)
  <2>1. CASE hi = i
    BY <1>1, <1>2, <1>3, <2>1
  <2>2. CASE i < hi
    <3>1. End(config[i]) < config[hi].base
      BY <1>1, <1>2, <1>3, <2>2
    <3> QED BY <1>1, <1>2, <1>3, <3>1
  <2> QED BY <1>1, <1>3, <1>4, <2>1, <2>2
<1>8. /\ End(AllocConfig[i]) \in Nat /\ End(AllocConfig[i]) <= End(config[i])
      /\ Cover(AllocConfig[i]) = config[i].base .. End(AllocConfig[i])
  BY <1>3, AllocFacts DEF L
<1>9. Cover(b) = b.base .. End(b)
  <2>1. b.base + b.size - 1 = b.base + (b.size - 1)
    BY <1>1, <1>5
  <2> QED BY <2>1 DEF Cover, End
<1>10. Cover(AllocConfig[i]) \subseteq Cover(b)
  BY <1>2, <1>3, <1>5, <1>6, <1>7, <1>8, <1>9
<1> QED BY <1>3, <1>5, <1>6, <1>7, <1>10 DEF b, L

(* BuddyPageAllocator::new accepts what init_allocators gives it: the slice  *)
(* is in bounds and its ranges in the bounding range, which ends below the   *)
(* excluded kernel segment.                                                  *)
LEMMA NewAccepts ==
  ASSUME Trimmed, CoverAll(config) = reported \ Reserved, MetaBase # 0, NEW z \in Served
  PROVE  ~AllocatorPanics(z)
<1> DEFINE hi == Max(ZoneIndices(z))
           b == BoundingRange(z)
<1>1. hi \in 1 .. Len(config) /\ End(b) = End(config[hi])
  BY ZoneBounds
<1>2. Len(AllocConfig) = Len(config) /\ Len(config) \in Nat
  BY AllocFacts, TrimmedFacts
<1>3. NewAllocator(z).range = b
  BY DEF NewAllocator
<1>4. ~(hi > Len(AllocConfig))
  BY <1>1, <1>2
<1>5. ~(End(b) > max_physical)
  <2> DEFINE a == End(config[hi])
  <2>1. a \in Cover(config[hi]) /\ a \in Nat /\ a <= UMAX /\ config \in Seq(ZoneRange)
    BY <1>1, TrimmedFacts
  <2>2. a \in CoverAll(config)
    BY <1>1, <2>1, InCoverAll
  <2>3. a \notin Reserved
    BY <2>2
  <2>4. ~(a \in virtual_base .. UMAX)
    BY <2>3, ExclusionsAre DEF Trimmed
  <2>5. UMAX \in Nat /\ virtual_base \in 1 .. UMAX /\ kernel_base \in 0 .. UMAX - virtual_base
    BY UmaxAssumption, MemoryAssumption
  <2> HIDE DEF a
  <2>6. a <= max_physical /\ max_physical \in Nat
    BY <2>1, <2>4, <2>5 DEF max_physical
  <2> QED BY <1>1, <2>1, <2>6 DEF a
<1>6. ASSUME NEW r \in ToSet(NewAllocator(z).ranges) PROVE ~(r.base < b.base \/ End(r) > End(b))
  <2>1. PICK i \in ZoneIndices(z) : r = AllocConfig[i]
    BY SliceIs
  <2>2. /\ i \in 1 .. Len(config) /\ b.base \in Nat /\ End(b) \in Nat
        /\ b.base <= config[i].base /\ End(config[i]) <= End(b)
    BY ZoneInside
  <2>3. r.base = config[i].base /\ End(r) \in Nat /\ End(r) <= End(config[i]) /\ End(config[i]) \in Nat /\ config[i].base \in Nat
    BY <2>1, <2>2, AllocFacts, TrimmedFacts
  <2> HIDE DEF b
  <2> QED BY <2>2, <2>3
<1> QED BY <1>3, <1>4, <1>5, <1>6 DEF AllocatorPanics

(* The pages that a zone serves. *)
LEMMA ServedPages ==
  ASSUME Trimmed, Laid, NEW z \in Zone, NEW a
  PROVE  /\ a \in CoverAll(zones[z].ranges) <=> \E i \in ZoneIndices(z) : a \in Cover(AllocConfig[i])
         /\ ZoneIndices(z) = {i \in 1 .. Len(config) : config[i].tag = z}
<1>1. ToSet(zones[z].ranges) = {AllocConfig[i] : i \in ZoneIndices(z)}
  BY ZonesAre
<1>2. CoverAll(zones[z].ranges) = UNION {Cover(r) : r \in {AllocConfig[i] : i \in ZoneIndices(z)}}
  BY <1>1 DEF CoverAll
<1>3. DOMAIN config = 1 .. Len(config)
  BY TrimmedFacts
<1> QED BY <1>2, <1>3 DEF ZoneIndices

(*****************************************************************************)
(* After init_allocators each zone serves ranges of its own kind only, no    *)
(* page twice, and all the memory that is neither reserved nor metadata; and *)
(* whenever the metadata finds its place, BuddyPageAllocator::new accepts    *)
(* the ranges at the indices that were taken before.                         *)
(*****************************************************************************)
THEOREM ZonesServeTheirMemoryHolds == Spec => []ZonesServeTheirMemory
<1>1. MemoryInv => ZonesServeTheirMemory
  <2> SUFFICES ASSUME MemoryInv PROVE ZonesServeTheirMemory
    OBVIOUS
  <2>1. ASSUME phase = "zones", ~MetadataPanics, NEW z \in Served PROVE ~AllocatorPanics(z)
    <3>1. Trimmed /\ CoverAll(config) = reported \ Reserved
      BY <2>1 DEF MemoryInv, Trimmed
    <3>2. MetaBase # 0
      BY <2>1 DEF MetadataPanics
    <3> QED BY <3>1, <3>2, NewAccepts
  <2>2. ASSUME phase = "done"
        PROVE  /\ \A z \in Zone : \A r \in ToSet(zones[z].ranges) :
                    r.tag = z /\ Cover(r) \subseteq Cover(zones[z].range)
               /\ CoverAll(zones["Linear"].ranges) \cap CoverAll(zones["High"].ranges) = {}
               /\ CoverAll(zones["Linear"].ranges) \cup CoverAll(zones["High"].ranges) =
                    (reported \ Reserved) \ meta
    <3>1. Trimmed /\ CoverAll(config) = reported \ Reserved /\ Laid
      BY <2>2 DEF MemoryInv, Trimmed
    <3>2. MetaBase # 0 /\ meta = Cover(Area(MetaBase, MetaTotal))
      BY <3>1 DEF MetadataPanics, Laid
    <3>3. /\ AllocConfig \in Seq(ZoneRange) /\ Len(AllocConfig) = Len(config) /\ Apart(AllocConfig)
          /\ CoverAll(AllocConfig) = (reported \ Reserved) \ meta
          /\ \A i \in 1 .. Len(config) :
               /\ AllocConfig[i].tag = config[i].tag /\ AllocConfig[i].base \in Nat
               /\ End(AllocConfig[i]) \in Nat
               /\ Cover(AllocConfig[i]) = AllocConfig[i].base .. End(AllocConfig[i])
               /\ config[i].tag \in {"Linear", "High"}
      BY <3>1, <3>2, AllocFacts, TrimmedFacts
    <3>4. ASSUME NEW z \in Zone, NEW r \in ToSet(zones[z].ranges)
          PROVE  r.tag = z /\ Cover(r) \subseteq Cover(zones[z].range)
      <4>1. PICK i \in ZoneIndices(z) : r = AllocConfig[i]
        BY <3>1, ZonesAre
      <4>2. z \in Served /\ zones[z].range = BoundingRange(z)
        BY <3>1, ZonesAre DEF Served
      <4>3. i \in 1 .. Len(config) /\ config[i].tag = z /\ Cover(AllocConfig[i]) \subseteq Cover(BoundingRange(z))
        BY <3>1, <3>2, <4>2, ZoneInside
      <4> QED BY <3>3, <4>1, <4>2, <4>3
    <3>5. "Linear" \in Zone /\ "High" \in Zone
      BY DEF Zone
    <3>6. ASSUME NEW a, a \in CoverAll(zones["Linear"].ranges), a \in CoverAll(zones["High"].ranges)
          PROVE  FALSE
      <4>1. PICK i \in ZoneIndices("Linear") : a \in Cover(AllocConfig[i])
        BY <3>1, <3>5, <3>6, ServedPages
      <4>2. PICK j \in ZoneIndices("High") : a \in Cover(AllocConfig[j])
        BY <3>1, <3>5, <3>6, ServedPages
      <4>3. i \in 1 .. Len(config) /\ config[i].tag = "Linear" /\ j \in 1 .. Len(config) /\ config[j].tag = "High"
        BY <3>1, <3>5, ServedPages
      <4>4. i # j
        BY <4>3
      <4>5. \A m, n \in 1 .. Len(config) : m < n => End(AllocConfig[m]) < AllocConfig[n].base
        BY <3>3 DEF Apart
      <4>6. /\ a \in Int /\ AllocConfig[i].base <= a /\ a <= End(AllocConfig[i])
            /\ AllocConfig[j].base <= a /\ a <= End(AllocConfig[j])
        BY <3>3, <4>1, <4>2, <4>3
      <4>7. CASE i < j
        <5>1. End(AllocConfig[i]) < AllocConfig[j].base
          BY <4>3, <4>5, <4>7
        <5> QED BY <3>3, <4>3, <4>6, <5>1
      <4>8. CASE j < i
        <5>1. End(AllocConfig[j]) < AllocConfig[i].base
          BY <4>3, <4>5, <4>8
        <5> QED BY <3>3, <4>3, <4>6, <5>1
      <4> QED BY <4>3, <4>4, <4>7, <4>8
    <3>7. ASSUME NEW a
          PROVE  a \in CoverAll(AllocConfig) <=>
                   a \in CoverAll(zones["Linear"].ranges) \/ a \in CoverAll(zones["High"].ranges)
      <4>1. a \in CoverAll(AllocConfig) <=> \E i \in 1 .. Len(config) : a \in Cover(AllocConfig[i])
        BY <3>3, InCoverAll
      <4>2. \A z \in Zone :
              /\ a \in CoverAll(zones[z].ranges) <=> \E i \in ZoneIndices(z) : a \in Cover(AllocConfig[i])
              /\ ZoneIndices(z) = {i \in 1 .. Len(config) : config[i].tag = z}
        BY <3>1, ServedPages
      <4> QED BY <3>3, <3>5, <4>1, <4>2
    <3> QED BY <3>3, <3>4, <3>6, <3>7
  <2> QED BY <2>1, <2>2 DEF ZonesServeTheirMemory
<1> QED BY <1>1, MemoryInvHolds, PTL

(*****************************************************************************)
(* The direct map covers the metadata and all that the linear zone serves,   *)
(* and nothing that the high zone serves: virtual_base + address is used for *)
(* mapped pages only.                                                        *)
(*****************************************************************************)
THEOREM LinearMemoryMappedHolds == Spec => []LinearMemoryMapped
<1>1. MemoryInv => LinearMemoryMapped
  <2> SUFFICES ASSUME MemoryInv, phase = "done"
               PROVE  /\ meta \subseteq mapped
                      /\ CoverAll(zones["Linear"].ranges) \subseteq mapped
                      /\ CoverAll(zones["High"].ranges) \cap mapped = {}
    BY DEF LinearMemoryMapped
  <2>1. Trimmed /\ Laid /\ mapped = LinearPages(config)
    BY DEF MemoryInv, Trimmed
  <2>2. MetaBase # 0 /\ meta = Cover(Area(MetaBase, MetaTotal)) /\ "Linear" \in Zone /\ "High" \in Zone
    BY <2>1 DEF MetadataPanics, Laid, Zone
  <2>3. /\ config \in Seq(ZoneRange) /\ high_mem_base \in Nat
        /\ \A i \in 1 .. Len(config) :
             /\ config[i].base \in Nat /\ End(config[i]) \in Nat
             /\ config[i].tag = "Linear" => End(config[i]) < high_mem_base
             /\ config[i].tag = "High" => config[i].base >= high_mem_base
             /\ Cover(config[i]) = config[i].base .. End(config[i])
    BY <2>1, TrimmedFacts
  <2>4. ASSUME NEW i \in 1 .. Len(config), config[i].tag = "Linear" PROVE Cover(config[i]) \subseteq mapped
    <3> SUFFICES ASSUME NEW a \in Cover(config[i]) PROVE a \in mapped
      OBVIOUS
    <3>1. a < high_mem_base
      BY <2>3, <2>4
    <3>2. a \in CoverAll(config)
      BY <2>3, InCoverAll
    <3> QED BY <2>1, <3>1, <3>2 DEF LinearPages
  <2>5. \A i \in 1 .. Len(config) : Cover(AllocConfig[i]) \subseteq Cover(config[i])
    <3> SUFFICES ASSUME NEW i \in 1 .. Len(config) PROVE Cover(AllocConfig[i]) \subseteq Cover(config[i])
      OBVIOUS
    <3>1. /\ End(AllocConfig[i]) \in Nat /\ End(AllocConfig[i]) <= End(config[i])
          /\ Cover(AllocConfig[i]) = config[i].base .. End(AllocConfig[i])
      BY <2>1, <2>2, AllocFacts
    <3> QED BY <2>3, <3>1
  <2>6. meta \subseteq mapped
    <3> DEFINE host == Min(MetaHosts)
    <3>1. /\ host \in 1 .. Len(config) /\ config[host].tag = "Linear"
          /\ MetaBase = End(config[host]) - MetaTotal + 1 /\ MetaBase \in Nat /\ config[host].base < MetaBase
      BY <2>1, <2>2, HostFacts
    <3>2. MetaTotal \in Nat
      BY <2>1, MetaNat
    <3>3. meta = MetaBase .. MetaBase + MetaTotal - 1
      BY <2>2 DEF Cover, Area
    <3> HIDE DEF host
    <3>4. MetaBase + MetaTotal - 1 = End(config[host])
      BY <2>3, <3>1, <3>2
    <3>5. meta \subseteq Cover(config[host])
      BY <2>3, <3>1, <3>3, <3>4
    <3> QED BY <2>4, <3>1, <3>5
  <2>7. CoverAll(zones["Linear"].ranges) \subseteq mapped
    <3> SUFFICES ASSUME NEW a \in CoverAll(zones["Linear"].ranges) PROVE a \in mapped
      OBVIOUS
    <3>1. PICK i \in ZoneIndices("Linear") : a \in Cover(AllocConfig[i])
      BY <2>1, <2>2, ServedPages
    <3>2. i \in 1 .. Len(config) /\ config[i].tag = "Linear"
      BY <2>1, <2>2, ServedPages
    <3> QED BY <2>4, <2>5, <3>1, <3>2
  <2>8. ASSUME NEW a \in CoverAll(zones["High"].ranges) PROVE a \notin mapped
    <3>1. PICK i \in ZoneIndices("High") : a \in Cover(AllocConfig[i])
      BY <2>1, <2>2, ServedPages
    <3>2. i \in 1 .. Len(config) /\ config[i].tag = "High"
      BY <2>1, <2>2, ServedPages
    <3>a. a \in Cover(config[i])
      BY <2>5, <3>1, <3>2
    <3>3. a \in Int /\ config[i].base <= a /\ config[i].base >= high_mem_base /\ config[i].base \in Nat
      BY <2>3, <3>2, <3>a
    <3>4. ~(a < high_mem_base)
      BY <2>3, <3>3
    <3> QED BY <2>1, <3>4 DEF LinearPages
  <2> QED BY <2>6, <2>7, <2>8
<1> QED BY <1>1, MemoryInvHolds, PTL


-----------------------------------------------------------------------------
(*****************************************************************************)
(* The bits of the pairs.                                                    *)
(*****************************************************************************)

(* Division keeps the order ... *)
LEMMA QuotientOrder ==
  ASSUME NEW a \in Nat, NEW b \in Nat, NEW c \in Nat \ {0}, a <= b
  PROVE  a \div c <= b \div c
<1> DEFINE p == a \div c
           q == b \div c
           s == a % c
           t == b % c
<1>1. /\ p \in Nat /\ s \in 0 .. c - 1 /\ a = c * p + s
      /\ q \in Nat /\ t \in 0 .. c - 1 /\ b = c * q + t
  BY Division
<1> HIDE DEF p, q, s, t
<1>2. CASE q < p
  <2>1. c * (q + 1) <= c * p
    BY <1>1, <1>2
  <2>2. c * (q + 1) = c * q + c /\ c * p \in Nat /\ c * q \in Nat
    BY <1>1
  <2> HIDE <1>1
  <2>3. b < a
    <3> DEFINE x == c * p
               y == c * q
    <3>1. x \in Nat /\ y \in Nat /\ y + c <= x /\ a = x + s /\ b = y + t /\ s \in 0 .. c - 1 /\ t \in 0 .. c - 1
      BY <1>1, <2>1, <2>2
    <3> HIDE DEF x, y
    <3> QED BY <3>1
  <2> QED BY <2>3
<1>3. p <= q
  BY <1>1, <1>2
<1> QED BY <1>3 DEF p, q

(* ... and a divisor more is one more. *)
LEMMA QuotientNext ==
  ASSUME NEW a \in Nat, NEW c \in Nat \ {0}
  PROVE  (a + c) \div c = (a \div c) + 1
<1> DEFINE p == a \div c
           s == a % c
           x == c * p
<1>1. p \in Nat /\ s \in 0 .. c - 1 /\ a = c * p + s
  BY Division
<1> HIDE DEF p, s
<1>2. x \in Nat /\ c * (p + 1) = x + c
  BY <1>1
<1>3. a = x + s
  BY <1>1
<1> HIDE DEF x
<1>4. a + c = (x + c) + s /\ a + c \in Nat /\ p + 1 \in Nat
  BY <1>1, <1>2, <1>3
<1>5. a + c = c * (p + 1) + s
  BY <1>2, <1>4
<1>6. (a + c) \div c = p + 1
  <2> DEFINE d == a + c
             q == p + 1
  <2>1. d \in Nat /\ q \in Nat /\ d = c * q + s
    BY <1>4, <1>5
  <2> HIDE DEF d, q
  <2>2. d \div c = q
    BY <1>1, <2>1, QuotientIs
  <2> QED BY <2>2 DEF d, q
<1> QED BY <1>6 DEF p

(* A pair of blocks is a block of the level above. *)
LEMMA HalvedQuotient ==
  ASSUME NEW a \in Nat, NEW l \in Nat
  PROVE  a \div 2 ^ (l + 1) = (a \div 2 ^ l) \div 2
<1> DEFINE p == 2 ^ l
           x == a \div p
           s == a % p
           q == x \div 2
           t == x % 2
           d == 2 ^ (l + 1)
<1>1. p \in Nat \ {0} /\ d = 2 * p
  BY PowerNat, PowerDouble
<1> HIDE DEF p, d
<1>2. x \in Nat /\ s \in 0 .. p - 1 /\ a = p * x + s
  BY <1>1, Division
<1> HIDE DEF x, s
<1>3. q \in Nat /\ t \in 0 .. 2 - 1 /\ x = 2 * q + t
  BY <1>2, Division
<1> HIDE DEF q, t
<1>4. p * x = d * q + p * t
  <2>1. p * (2 * q + t) = (2 * p) * q + p * t
    BY <1>1, <1>3, SMT
  <2> QED BY <1>1, <1>3, <2>1
<1>5. t = 0 \/ t = 1
  BY <1>3
<1>6. p * t + s \in 0 .. d - 1
  <2>1. CASE t = 0
    <3>1. p * t = 0
      BY <1>1, <2>1
    <3> QED BY <1>1, <1>2, <3>1
  <2>2. CASE t = 1
    <3>1. p * t = p
      BY <1>1, <2>2
    <3> QED BY <1>1, <1>2, <3>1
  <2> QED BY <1>5, <2>1, <2>2
<1> DEFINE r == p * t + s
<1>7. a = d * q + r
  <2> DEFINE u == p * x
             v == d * q
             w == p * t
  <2>1. u \in Nat /\ v \in Nat /\ w \in Nat /\ a = u + s /\ u = v + w
    BY <1>1, <1>2, <1>3, <1>4
  <2> HIDE DEF u, v, w
  <2>2. a = v + (w + s)
    BY <1>2, <2>1
  <2> QED BY <2>2 DEF v, w
<1>8. r \in 0 .. d - 1 /\ d \in Nat \ {0}
  BY <1>1, <1>6
<1> HIDE DEF r
<1>9. a \div d = q
  BY <1>3, <1>7, <1>8, QuotientIs
<1> QED BY <1>9 DEF d, q, x, p


(* A block of a level that lies in the allocator's pages has a pair with a   *)
(* bit in that level.                                                        *)
LEMMA PairHasBit ==
  ASSUME NEW pages \in Nat, NEW n \in Nat, NEW l \in Nat, n + 2 ^ l <= pages
  PROVE  /\ n \div 2 ^ (l + 1) \in Nat
         /\ n \div 2 ^ (l + 1) < LevelBits(BlocksAt(pages, l))
<1> DEFINE p == 2 ^ l
           x == n \div p
           y == pages \div p
           d == 2 ^ (l + 1)
<1>1. p \in Nat \ {0} /\ n \div d = x \div 2
  BY PowerNat, HalvedQuotient
<1>a. LevelBits(BlocksAt(pages, l)) = (y + 1) \div 2
  BY DEF LevelBits, BlocksAt
<1>b. n + p <= pages
  OBVIOUS
<1> HIDE DEF p, d
<1>2. x \in Nat /\ y \in Nat /\ (n + p) \div p = x + 1
  BY <1>1, Division, QuotientNext
<1>3. (n + p) \div p <= y
  <2> DEFINE m == n + p
  <2>1. m \in Nat /\ m <= pages
    BY <1>1, <1>b
  <2> HIDE DEF m
  <2>2. m \div p <= pages \div p
    BY <1>1, <2>1, QuotientOrder
  <2> QED BY <2>2 DEF m
<1> HIDE DEF x, y
<1>4. x + 2 <= y + 1
  BY <1>2, <1>3
<1>5. x \div 2 \in Nat /\ (y + 1) \div 2 \in Nat /\ x \div 2 < (y + 1) \div 2
  BY <1>2, <1>4
<1> QED BY <1>1, <1>5, <1>a DEF d

(* Where the bit of a pair is: in its level's words. *)
LEMMA FlagIn ==
  ASSUME NEW pages \in Nat, NEW n \in Nat, NEW l \in Level, n + 2 ^ l <= pages
  PROVE  LET at == GetFlagIndexAndBit(pages, n, l)
             f == MakeLevels(pages)
             q == n \div 2 ^ (l + 1)
         IN /\ l \in 0 .. BLOCK_LEVELS /\ l + 1 \in 0 .. BLOCK_LEVELS
            /\ q \in Nat /\ at = <<f[l] + q \div WORD_BITS, q % WORD_BITS>>
            /\ f[l] <= at[1] /\ at[1] < f[l + 1] /\ at[1] \in Nat /\ at[1] < CalcMetadataSize(pages)
            /\ q \div WORD_BITS \in Nat /\ at[2] \in 0 .. WORD_BITS - 1
<1> DEFINE at == GetFlagIndexAndBit(pages, n, l)
           f == MakeLevels(pages)
           q == n \div 2 ^ (l + 1)
           W == WORD_BITS
           bits == LevelBits(BlocksAt(pages, l))
           words == LevelWords(pages, l)
<1>1. l \in Nat /\ l \in 0 .. BLOCK_LEVELS /\ l + 1 \in 0 .. BLOCK_LEVELS /\ l + 1 \in 1 .. BLOCK_LEVELS
      /\ BLOCK_LEVELS \in 0 .. BLOCK_LEVELS /\ l + 1 <= BLOCK_LEVELS /\ (l + 1) - 1 = l
      /\ W \in Nat \ {0}
  BY LayoutAssumption DEF Level
<1>2. q \in Nat /\ q < bits /\ bits \in Nat /\ words \in Nat
  BY <1>1, PairHasBit, LevelWordsNat
<1>3. IsLevels(f, pages)
  BY LevelsAre
<1>4. at = <<f[l] + q \div W, q % W>>
  BY DEF GetFlagIndexAndBit
<1>a. words = (bits + W - 1) \div W
  BY DEF LevelWords
<1>b. CalcMetadataSize(pages) = f[BLOCK_LEVELS]
  BY DEF CalcMetadataSize
<1> HIDE DEF f, q, W, bits, at, words
<1>5. f[l] \in Nat /\ f[l + 1] \in Nat /\ f[BLOCK_LEVELS] \in Nat /\ f[l + 1] = f[l] + words
  <2>1. /\ f \in [0 .. BLOCK_LEVELS -> Nat]
        /\ \A k \in 1 .. BLOCK_LEVELS : f[k] = f[k - 1] + LevelWords(pages, k - 1)
    BY <1>3 DEF IsLevels
  <2> QED BY <1>1, <2>1 DEF words
<1>6. f[l + 1] <= f[BLOCK_LEVELS]
  BY <1>1, <1>3, LevelsRise
<1>7. q \div W \in Nat /\ q % W \in 0 .. W - 1
  BY <1>1, <1>2, Division
<1>8. q \div W < words
  <2> DEFINE u == q + W
             v == bits + W - 1
  <2>1. u \in Nat /\ v \in Nat /\ u <= v
    BY <1>1, <1>2
  <2>2. u \div W = q \div W + 1
    BY <1>1, <1>2, QuotientNext
  <2>3. u \div W <= v \div W
    <3> HIDE DEF u, v
    <3> QED BY <1>1, <2>1, QuotientOrder
  <2> DEFINE m == q \div W
             k == u \div W
  <2>4. m \in Nat /\ k = m + 1 /\ k <= words
    BY <1>7, <1>a, <2>2, <2>3
  <2> HIDE DEF m, k
  <2>5. m < words
    BY <1>2, <2>4
  <2> QED BY <2>5 DEF m
<1> DEFINE m == q \div W
           r == q % W
<1>9. at[1] = f[l] + m /\ at[2] = r
  BY <1>4
<1>10. m \in Nat /\ m < words
  BY <1>7, <1>8
<1> HIDE DEF m
<1>11. f[l] <= at[1] /\ at[1] < f[l + 1] /\ at[1] \in Nat /\ at[1] < f[BLOCK_LEVELS]
  BY <1>2, <1>5, <1>6, <1>9, <1>10
<1>12. at[2] \in 0 .. W - 1
  BY <1>7, <1>9
<1> QED BY <1>1, <1>2, <1>4, <1>7, <1>11, <1>12, <1>b DEF f, q, at, W

(* Two blocks of an allocator with one bit are of one level and one pair. *)
LEMMA FlagOnce ==
  ASSUME NEW pages \in Nat, NEW n \in Nat, NEW l \in Level, n + 2 ^ l <= pages,
         NEW m \in Nat, NEW k \in Level, m + 2 ^ k <= pages,
         GetFlagIndexAndBit(pages, n, l) = GetFlagIndexAndBit(pages, m, k)
  PROVE  l = k /\ n \div 2 ^ (l + 1) = m \div 2 ^ (k + 1)
<1> DEFINE f == MakeLevels(pages)
           at == GetFlagIndexAndBit(pages, n, l)
           to == GetFlagIndexAndBit(pages, m, k)
           q == n \div 2 ^ (l + 1)
           t == m \div 2 ^ (k + 1)
           W == WORD_BITS
<1>1. /\ l \in 0 .. BLOCK_LEVELS /\ l + 1 \in 0 .. BLOCK_LEVELS
      /\ q \in Nat /\ at = <<f[l] + q \div W, q % W>>
      /\ f[l] <= at[1] /\ at[1] < f[l + 1] /\ at[1] \in Nat /\ q \div W \in Nat
  BY FlagIn
<1>2. /\ k \in 0 .. BLOCK_LEVELS /\ k + 1 \in 0 .. BLOCK_LEVELS
      /\ t \in Nat /\ to = <<f[k] + t \div W, t % W>>
      /\ f[k] <= to[1] /\ to[1] < f[k + 1] /\ to[1] \in Nat /\ t \div W \in Nat
  BY FlagIn
<1>3. IsLevels(f, pages) /\ W \in Nat \ {0}
  BY LevelsAre, LayoutAssumption
<1>a. at = to
  OBVIOUS
<1> HIDE DEF f, at, to, q, t, W
<1>4. \A i \in 0 .. BLOCK_LEVELS : f[i] \in Nat
  BY <1>3 DEF IsLevels
<1>5. ~(l < k)
  <2> SUFFICES ASSUME l < k PROVE FALSE
    OBVIOUS
  <2>1. l + 1 <= k
    BY <1>1, <1>2
  <2>2. f[l + 1] <= f[k]
    BY <1>1, <1>2, <1>3, <2>1, LevelsRise
  <2> QED BY <1>1, <1>2, <1>4, <1>a, <2>2
<1>6. ~(k < l)
  <2> SUFFICES ASSUME k < l PROVE FALSE
    OBVIOUS
  <2>1. k + 1 <= l
    BY <1>1, <1>2
  <2>2. f[k + 1] <= f[l]
    BY <1>1, <1>2, <1>3, <2>1, LevelsRise
  <2> QED BY <1>1, <1>2, <1>4, <1>a, <2>2
<1>7. l = k
  BY <1>1, <1>2, <1>5, <1>6
<1>8. f[l] + q \div W = f[l] + t \div W /\ q % W = t % W
  BY <1>1, <1>2, <1>7, <1>a
<1>9. q \div W = t \div W
  <2> DEFINE a == q \div W
             b == t \div W
  <2>1. a \in Nat /\ b \in Nat /\ f[l] \in Nat /\ f[l] + a = f[l] + b
    BY <1>1, <1>2, <1>4, <1>8
  <2> HIDE DEF a, b
  <2>2. a = b
    BY <2>1
  <2> QED BY <2>2 DEF a, b
<1>10. q = W * (q \div W) + (q % W) /\ t = W * (t \div W) + (t % W)
  BY <1>1, <1>2, <1>3, Division
<1>11. q = t
  BY <1>8, <1>9, <1>10
<1> QED BY <1>7, <1>11 DEF q, t


(* A quotient lies between the bounds of what is divided. *)
LEMMA QuotientBounds ==
  ASSUME NEW a \in Nat, NEW c \in Nat \ {0}, NEW lo \in Nat, NEW hi \in Nat, lo * c <= a, a < hi * c
  PROVE  a \div c \in lo .. hi - 1
<1> DEFINE d == a \div c
           s == a % c
<1>1. d \in Nat /\ s \in 0 .. c - 1 /\ a = c * d + s
  BY Division
<1> HIDE DEF d, s
<1>2. CASE d < lo
  <2>1. (d + 1) * c <= lo * c
    BY <1>1, <1>2
  <2>2. (d + 1) * c = c * d + c
    BY <1>1
  <2> DEFINE x == c * d
             y == lo * c
  <2>3. x \in Nat /\ y \in Nat /\ x + c <= y /\ a = x + s /\ y <= a
    BY <1>1, <2>1, <2>2
  <2> HIDE DEF x, y
  <2> QED BY <1>1, <2>3
<1>3. CASE d >= hi
  <2>1. hi * c <= c * d
    BY <1>1, <1>3
  <2> DEFINE x == c * d
             y == hi * c
  <2>2. x \in Nat /\ y \in Nat /\ y <= x /\ a = x + s /\ a < y
    BY <1>1, <2>1
  <2> HIDE DEF x, y
  <2> QED BY <1>1, <2>2
<1>4. d \in lo .. hi - 1
  BY <1>1, <1>2, <1>3
<1> QED BY <1>4 DEF d

(* A block that the allocator of a zone can have lies in the zone's bounding *)
(* range.                                                                    *)
LEMMA BlockIn ==
  ASSUME Trimmed, Laid, NEW z \in Zone, NEW b \in Blocks(z)
  PROVE  /\ z \in Served /\ zones[z].range = BoundingRange(z) /\ zones[z].metadata = ZoneMetadata(z)
         /\ b[2] \in Level /\ zones[z].range.size \in Nat
         /\ b[1] - zones[z].range.base \in Nat
         /\ (b[1] - zones[z].range.base) + 2 ^ b[2] <= zones[z].range.size
<1>1. PICK r \in ToSet(zones[z].ranges) :
        b \in {c \in Cover(r) \X Level : c[1] % 2 ^ c[2] = 0 /\ c[1] + 2 ^ c[2] - 1 <= End(r)}
  BY DEF Blocks
<1>2. b[1] \in Cover(r) /\ b[2] \in Level /\ b[1] + 2 ^ b[2] - 1 <= End(r)
  BY <1>1
<1>3. zones[z].range = BoundingRange(z) /\ \E i \in ZoneIndices(z) : r = AllocConfig[i]
  BY ZonesAre
<1>4. PICK i \in ZoneIndices(z) : r = AllocConfig[i]
  BY <1>3
<1>5. z \in Served
  BY <1>4 DEF Served
<1>6. zones[z] = NewAllocator(z) /\ MetaBase # 0
  BY <1>5 DEF Laid, MetadataPanics
<1>7. zones[z].metadata = ZoneMetadata(z)
  BY <1>6 DEF NewAllocator
<1> DEFINE g == BoundingRange(z)
           p == 2 ^ b[2]
           a == b[1]
<1>8. /\ i \in 1 .. Len(config) /\ g.base \in Nat /\ End(g) \in Nat
      /\ g.base <= config[i].base /\ End(config[i]) <= End(g)
  BY <1>5, <1>6, ZoneInside
<1>9. /\ r.base = config[i].base /\ End(r) \in Nat /\ End(r) <= End(config[i])
      /\ Cover(r) = config[i].base .. End(r) /\ config[i].base \in Nat /\ End(config[i]) \in Nat
  BY <1>4, <1>6, <1>8, AllocFacts, TrimmedFacts
<1>10. g.size \in Nat \ {0} /\ End(g) = g.base + (g.size - 1)
  BY <1>5, ZoneBounds DEF End
<1>11. p \in Nat \ {0}
  <2>1. b[2] \in Nat
    BY <1>2, LayoutAssumption DEF Level
  <2> QED BY <2>1, PowerNat
<1>12. a \in Int /\ config[i].base <= a /\ a + p - 1 <= End(r)
  BY <1>2, <1>9
<1> HIDE DEF g, p, a
<1>13. a - g.base \in Nat /\ (a - g.base) + p <= g.size
  <2> DEFINE gb == g.base
             gs == g.size
             cb == config[i].base
             ce == End(config[i])
             re == End(r)
  <2>1. /\ gb \in Nat /\ gs \in Nat /\ cb \in Nat /\ ce \in Nat /\ re \in Nat /\ a \in Int
        /\ gb <= cb /\ cb <= a /\ a + p - 1 <= re /\ re <= ce /\ ce <= gb + (gs - 1)
    BY <1>8, <1>9, <1>10, <1>12
  <2> HIDE DEF gb, gs, cb, ce, re
  <2>2. a - gb \in Nat /\ (a - gb) + p <= gs
    BY <1>11, <2>1
  <2> QED BY <2>2 DEF gb, gs
<1> QED BY <1>2, <1>3, <1>5, <1>7, <1>10, <1>13 DEF g, p, a

(* The metadata of a zone is a part of what is set aside, and that of the    *)
(* high zone comes after that of the linear one.                             *)
LEMMA MetadataPlaces ==
  ASSUME Trimmed, MetaBase # 0
  PROVE  /\ \A z \in Zone : /\ ZoneMetadata(z) \in Nat /\ MetaSize(z) \in Nat /\ MetaBase <= ZoneMetadata(z)
                            /\ ZoneMetadata(z) + MetaSize(z) <= MetaBase + MetaTotal
         /\ "Linear" \in Served => ZoneMetadata("Linear") + MetaSize("Linear") <= ZoneMetadata("High")
         /\ MetaBase \in Nat /\ MetaTotal \in Nat
<1>1. MetaBase \in Nat
  BY HostFacts
<1>2. /\ MetaSize("Linear") \in Nat /\ MetaSize("High") \in Nat
      /\ MetaTotal \in Nat /\ MetaTotal = MetaSize("Linear") + MetaSize("High")
  BY MetaNat DEF Zone
<1>3. ZoneMetadata("Linear") = MetaBase
  BY <1>1 DEF ZoneMetadata
<1>4. ZoneMetadata("High") = MetaBase + MetaSize("Linear") \/ ZoneMetadata("High") = MetaBase
  BY <1>1 DEF ZoneMetadata
<1>5. "Linear" \in Served => ZoneMetadata("High") = MetaBase + MetaSize("Linear")
  BY DEF ZoneMetadata, Served
<1>6. \A z \in Zone : /\ ZoneMetadata(z) \in Nat /\ MetaSize(z) \in Nat /\ MetaBase <= ZoneMetadata(z)
                      /\ ZoneMetadata(z) + MetaSize(z) <= MetaBase + MetaTotal
  <2>1. /\ ZoneMetadata("Linear") \in Nat /\ MetaBase <= ZoneMetadata("Linear")
        /\ ZoneMetadata("Linear") + MetaSize("Linear") <= MetaBase + MetaTotal
    BY <1>1, <1>2, <1>3
  <2>2. /\ ZoneMetadata("High") \in Nat /\ MetaBase <= ZoneMetadata("High")
        /\ ZoneMetadata("High") + MetaSize("High") <= MetaBase + MetaTotal
    BY <1>1, <1>2, <1>4
  <2> QED BY <1>2, <2>1, <2>2 DEF Zone
<1>7. ASSUME "Linear" \in Served PROVE ZoneMetadata("Linear") + MetaSize("Linear") <= ZoneMetadata("High")
  <2>1. ZoneMetadata("High") = MetaBase + MetaSize("Linear")
    BY <1>5, <1>7
  <2> QED BY <1>1, <1>2, <1>3, <2>1
<1> QED BY <1>1, <1>2, <1>6, <1>7

(* The bit of a block lies in its zone's part of the metadata. *)
LEMMA FlagPlace ==
  ASSUME Trimmed, Laid, NEW z \in Zone, NEW b \in Blocks(z)
  PROVE  LET flag == PairFlag(z, b[1], b[2])
             at == GetFlagIndexAndBit(zones[z].range.size, b[1] - zones[z].range.base, b[2])
         IN /\ flag = <<ZoneMetadata(z) * PAGE_WORDS + at[1], at[2]>>
            /\ flag[1] \in Nat /\ at[1] \in Nat /\ at = <<at[1], at[2]>> /\ flag[2] \in 0 .. WORD_BITS - 1
            /\ ZoneMetadata(z) * PAGE_WORDS <= flag[1]
            /\ flag[1] < (ZoneMetadata(z) + MetaSize(z)) * PAGE_WORDS
            /\ flag[1] \div PAGE_WORDS \in meta
<1> DEFINE flag == PairFlag(z, b[1], b[2])
           pages == zones[z].range.size
           n == b[1] - zones[z].range.base
           l == b[2]
           at == GetFlagIndexAndBit(pages, n, l)
           M == ZoneMetadata(z)
           s == MetaSize(z)
           P == PAGE_WORDS
<1>1. /\ zones[z].range = BoundingRange(z) /\ zones[z].metadata = M /\ l \in Level /\ pages \in Nat
      /\ n \in Nat /\ n + 2 ^ l <= pages
  BY BlockIn
<1>2. flag = <<M * P + at[1], at[2]>>
  BY <1>1 DEF PairFlag
<1>3. MetaBase # 0 /\ meta = Cover(Area(MetaBase, MetaTotal))
  BY DEF Laid, MetadataPanics
<1>4. /\ M \in Nat /\ s \in Nat /\ MetaBase <= M /\ M + s <= MetaBase + MetaTotal
      /\ MetaBase \in Nat /\ MetaTotal \in Nat
  BY <1>3, MetadataPlaces
<1>5. meta = MetaBase .. MetaBase + MetaTotal - 1
  BY <1>3 DEF Cover, Area
<1>6. s = MetadataPages(pages)
  BY <1>1 DEF MetaSize
<1>7. P \in Nat \ {0}
  BY LayoutAssumption
<1> HIDE DEF flag, pages, n, l, M, s, P
<1>8. /\ at[1] \in Nat /\ at[1] < CalcMetadataSize(pages) /\ at[2] \in 0 .. WORD_BITS - 1
      /\ at = <<at[1], at[2]>>
  BY <1>1, FlagIn
<1>9. CalcMetadataSize(pages) \in Nat /\ CalcMetadataSize(pages) <= P * s
  BY <1>1, <1>6, MetadataFits DEF P
<1> HIDE DEF at
<1>10. flag[1] = M * P + at[1] /\ flag[2] = at[2]
  BY <1>2
<1>11. (M + s) * P = M * P + P * s /\ M * P \in Nat /\ P * s \in Nat
  BY <1>4, <1>7
<1> DEFINE w == flag[1]
           x == M * P
           y == P * s
           v == (M + s) * P
<1>12. w = x + at[1] /\ v = x + y /\ x \in Nat /\ y \in Nat /\ CalcMetadataSize(pages) <= y
  BY <1>9, <1>10, <1>11
<1> HIDE DEF w, x, y, v
<1>13. w \in Nat /\ x <= w /\ w < v
  BY <1>8, <1>9, <1>12
<1>14. w \div P \in M .. (M + s) - 1
  <2> DEFINE hi == M + s
  <2>1. hi \in Nat /\ M * P <= w /\ w < hi * P
    BY <1>4, <1>13 DEF x, v
  <2> HIDE DEF hi
  <2>2. w \div P \in M .. hi - 1
    BY <1>4, <1>7, <1>13, <2>1, QuotientBounds
  <2> QED BY <2>2 DEF hi
<1>15. w \div P \in meta
  BY <1>4, <1>5, <1>14
<1> QED BY <1>2, <1>8, <1>10, <1>13, <1>15 DEF flag, at, pages, n, l, M, s, P, w, x, v


(* Two blocks with one bit are of one zone, level and pair. *)
LEMMA FlagOfOnePair ==
  ASSUME Trimmed, Laid, NEW z \in Zone, NEW y \in Zone, NEW b \in Blocks(z), NEW c \in Blocks(y),
         PairFlag(z, b[1], b[2]) = PairFlag(y, c[1], c[2])
  PROVE  /\ z = y /\ b[2] = c[2]
         /\ (b[1] - zones[z].range.base) \div 2 ^ (b[2] + 1) = (c[1] - zones[y].range.base) \div 2 ^ (c[2] + 1)
<1> DEFINE F == PairFlag(z, b[1], b[2])
           G == PairFlag(y, c[1], c[2])
           P == PAGE_WORDS
<1>1. F[1] \in Nat /\ ZoneMetadata(z) * P <= F[1] /\ F[1] < (ZoneMetadata(z) + MetaSize(z)) * P
  BY FlagPlace
<1>2. G[1] \in Nat /\ ZoneMetadata(y) * P <= G[1] /\ G[1] < (ZoneMetadata(y) + MetaSize(y)) * P
  BY FlagPlace
<1>3. MetaBase # 0 /\ z \in Served /\ y \in Served
  BY BlockIn DEF Laid, MetadataPanics
<1>4. /\ \A x \in Zone : ZoneMetadata(x) \in Nat /\ MetaSize(x) \in Nat
      /\ "Linear" \in Served => ZoneMetadata("Linear") + MetaSize("Linear") <= ZoneMetadata("High")
      /\ P \in Nat \ {0}
  BY <1>3, MetadataPlaces, LayoutAssumption
<1>a. F = G /\ F[1] = G[1]
  OBVIOUS
<1>5. z = y
  <2> DEFINE lo == (ZoneMetadata("Linear") + MetaSize("Linear")) * P
             hi == ZoneMetadata("High") * P
  <2>1. ASSUME "Linear" \in Served PROVE lo <= hi /\ lo \in Nat /\ hi \in Nat
    <3> DEFINE u == ZoneMetadata("Linear") + MetaSize("Linear")
               v == ZoneMetadata("High")
    <3>1. u \in Nat /\ v \in Nat /\ u <= v
      BY <1>4, <2>1 DEF Zone
    <3> HIDE DEF u, v, P
    <3>2. u * P <= v * P /\ u * P \in Nat /\ v * P \in Nat
      BY <1>4, <3>1
    <3> QED BY <3>2 DEF u, v
  <2> HIDE DEF F, G, lo, hi, P
  <2>2. CASE z = "Linear" /\ y = "High"
    <3>1. F[1] < lo /\ hi <= G[1] /\ lo <= hi /\ lo \in Nat /\ hi \in Nat
      BY <1>1, <1>2, <1>3, <2>1, <2>2 DEF lo, hi
    <3> QED BY <1>1, <1>2, <1>a, <3>1
  <2>3. CASE z = "High" /\ y = "Linear"
    <3>1. G[1] < lo /\ hi <= F[1] /\ lo <= hi /\ lo \in Nat /\ hi \in Nat
      BY <1>1, <1>2, <1>3, <2>1, <2>3 DEF lo, hi
    <3> QED BY <1>1, <1>2, <1>a, <3>1
  <2> QED BY <2>2, <2>3 DEF Zone
<1> DEFINE pages == zones[z].range.size
           n == b[1] - zones[z].range.base
           m == c[1] - zones[z].range.base
           l == b[2]
           k == c[2]
           at == GetFlagIndexAndBit(pages, n, l)
           to == GetFlagIndexAndBit(pages, m, k)
           M == ZoneMetadata(z) * P
<1>6. /\ l \in Level /\ pages \in Nat /\ n \in Nat /\ n + 2 ^ l <= pages
  BY BlockIn
<1>7. /\ k \in Level /\ m \in Nat /\ m + 2 ^ k <= pages
  BY <1>5, BlockIn
<1>8. F = <<M + at[1], at[2]>> /\ at[1] \in Nat /\ at = <<at[1], at[2]>>
  BY FlagPlace
<1>9. G = <<M + to[1], to[2]>> /\ to[1] \in Nat /\ to = <<to[1], to[2]>>
  BY <1>5, FlagPlace
<1>10. M \in Nat
  <2> HIDE DEF P
  <2> QED BY <1>4
<1> HIDE DEF pages, n, m, l, k, M, F, G
<1>11. at = to
  <2> HIDE DEF at, to
  <2>1. M + at[1] = M + to[1] /\ at[2] = to[2]
    BY <1>8, <1>9, <1>a
  <2>2. at[1] = to[1]
    BY <1>8, <1>9, <1>10, <2>1
  <2> QED BY <1>8, <1>9, <2>1, <2>2
<1>12. l = k /\ n \div 2 ^ (l + 1) = m \div 2 ^ (k + 1)
  BY <1>6, <1>7, <1>11, FlagOnce
<1> QED BY <1>5, <1>12 DEF n, m, l, k

(* As many as are told apart: a set of records, of which a finite field      *)
(* tells every two apart, has as many members as values of that field.       *)
LEMMA FieldCounts ==
  ASSUME NEW all, NEW V, IsFiniteSet(V), \A f \in all : f.flag \in V,
         \A f, g \in all : f.flag = g.flag => f = g
  PROVE  Cardinality({f.flag : f \in all}) = Cardinality(all)
<1> DEFINE T == {f.flag : f \in all}
           h == [f \in all |-> f.flag]
<1>1. T \in SUBSET V
  OBVIOUS
<1>2. h \in [all -> T] /\ (\A f, g \in all : h[f] = h[g] => f = g) /\ \A t \in T : \E f \in all : h[f] = t
  OBVIOUS
<1> HIDE DEF T, h
<1>3. IsFiniteSet(T)
  BY <1>1, FS_Subset
<1>4. h \in Injection(all, T)
  BY <1>2 DEF Injection, IsInjective
<1>5. h \in Surjection(all, T)
  BY <1>2 DEF Surjection
<1>6. Cardinality(all) = Cardinality(T)
  BY <1>3, <1>4, <1>5, FS_Injection
<1> QED BY <1>6 DEF T

(*****************************************************************************)
(* Whatever the sizes and bases of the zones, the numbers of block levels    *)
(* and the sizes of words and pages, the bit of each block that an allocator *)
(* can have lies in the memory set aside as metadata, and two blocks share a *)
(* bit only if they are of one zone, one level and one pair.                 *)
(*****************************************************************************)
THEOREM PairFlagsApartHold == Spec => []PairFlagsApart
<1>1. MemoryInv => PairFlagsApart
  <2> SUFFICES ASSUME MemoryInv, phase = "done" PROVE PairFlagsApart
    BY DEF PairFlagsApart
  <2> DEFINE flags(z) == {[z |-> z, level |-> b[2], flag |-> PairFlag(z, b[1], b[2]),
                           pair |-> (b[1] - zones[z].range.base) \div 2 ^ (b[2] + 1)] : b \in Blocks(z)}
             all == flags("Linear") \cup flags("High")
             V == (0 .. (MetaBase + MetaTotal) * PAGE_WORDS) \X (0 .. WORD_BITS - 1)
  <2>1. Trimmed /\ Laid
    BY DEF MemoryInv, Trimmed
  <2>2. ASSUME NEW f \in all
        PROVE  \E z \in Zone : \E b \in Blocks(z) :
                 f = [z |-> z, level |-> b[2], flag |-> PairFlag(z, b[1], b[2]),
                      pair |-> (b[1] - zones[z].range.base) \div 2 ^ (b[2] + 1)]
    <3>1. "Linear" \in Zone /\ "High" \in Zone
      BY DEF Zone
    <3> QED BY <2>2, <3>1
  <2>3. PairFlagsApart <=> /\ \A f \in all : f.flag[1] \div PAGE_WORDS \in meta
                           /\ Cardinality({f.flag : f \in all}) = Cardinality(all)
    BY DEF PairFlagsApart
  <2> HIDE DEF all
  <2>4. ASSUME NEW f \in all
        PROVE  f.flag[1] \div PAGE_WORDS \in meta /\ f.flag \in V
    <3>1. PICK z \in Zone : \E b \in Blocks(z) :
                 f = [z |-> z, level |-> b[2], flag |-> PairFlag(z, b[1], b[2]),
                      pair |-> (b[1] - zones[z].range.base) \div 2 ^ (b[2] + 1)]
      BY <2>2
    <3>2. PICK b \in Blocks(z) : f.flag = PairFlag(z, b[1], b[2])
      BY <3>1
    <3> DEFINE F == PairFlag(z, b[1], b[2])
               end == (ZoneMetadata(z) + MetaSize(z)) * PAGE_WORDS
               top == (MetaBase + MetaTotal) * PAGE_WORDS
    <3>3. /\ F[1] \in Nat /\ F[2] \in 0 .. WORD_BITS - 1 /\ F[1] < end /\ F[1] \div PAGE_WORDS \in meta
          /\ F = <<F[1], F[2]>>
      BY <2>1, FlagPlace
    <3>4. end <= top /\ end \in Nat /\ top \in Nat
      <4> DEFINE u == ZoneMetadata(z) + MetaSize(z)
                 v == MetaBase + MetaTotal
      <4>1. MetaBase # 0
        BY <2>1 DEF Laid, MetadataPanics
      <4>2. u \in Nat /\ v \in Nat /\ u <= v
        BY <2>1, <4>1, MetadataPlaces
      <4>3. PAGE_WORDS \in Nat
        BY LayoutAssumption
      <4> HIDE DEF u, v
      <4>4. u * PAGE_WORDS <= v * PAGE_WORDS /\ u * PAGE_WORDS \in Nat /\ v * PAGE_WORDS \in Nat
        BY <4>2, <4>3
      <4> QED BY <4>4 DEF u, v
    <3>5. F[1] \in 0 .. top
      <4> HIDE DEF F, end, top
      <4> QED BY <3>3, <3>4
    <3>6. F \in V
      <4> HIDE DEF F
      <4> QED BY <3>3, <3>5
    <3> QED BY <3>2, <3>3, <3>6
  <2>5. ASSUME NEW f \in all, NEW g \in all, f.flag = g.flag PROVE f = g
    <3>1. PICK z \in Zone : \E b \in Blocks(z) :
                 f = [z |-> z, level |-> b[2], flag |-> PairFlag(z, b[1], b[2]),
                      pair |-> (b[1] - zones[z].range.base) \div 2 ^ (b[2] + 1)]
      BY <2>2
    <3>2. PICK b \in Blocks(z) :
                 f = [z |-> z, level |-> b[2], flag |-> PairFlag(z, b[1], b[2]),
                      pair |-> (b[1] - zones[z].range.base) \div 2 ^ (b[2] + 1)]
      BY <3>1
    <3>3. PICK y \in Zone : \E c \in Blocks(y) :
                 g = [z |-> y, level |-> c[2], flag |-> PairFlag(y, c[1], c[2]),
                      pair |-> (c[1] - zones[y].range.base) \div 2 ^ (c[2] + 1)]
      BY <2>2
    <3>4. PICK c \in Blocks(y) :
                 g = [z |-> y, level |-> c[2], flag |-> PairFlag(y, c[1], c[2]),
                      pair |-> (c[1] - zones[y].range.base) \div 2 ^ (c[2] + 1)]
      BY <3>3
    <3>5. PairFlag(z, b[1], b[2]) = PairFlag(y, c[1], c[2])
      BY <2>5, <3>2, <3>4
    <3>6. /\ z = y /\ b[2] = c[2]
          /\ (b[1] - zones[z].range.base) \div 2 ^ (b[2] + 1) = (c[1] - zones[y].range.base) \div 2 ^ (c[2] + 1)
      BY <2>1, <3>5, FlagOfOnePair
    <3> QED BY <3>2, <3>4, <3>5, <3>6
  <2>6. IsFiniteSet(V)
    <3> DEFINE top == (MetaBase + MetaTotal) * PAGE_WORDS
               bit == WORD_BITS - 1
    <3>1. MetaBase # 0
      BY <2>1 DEF Laid, MetadataPanics
    <3>2. MetaBase \in Nat /\ MetaTotal \in Nat
      BY <2>1, <3>1, MetadataPlaces
    <3>3. top \in Int /\ bit \in Int
      BY <3>2, LayoutAssumption
    <3>4. V = (0 .. top) \X (0 .. bit)
      OBVIOUS
    <3> HIDE DEF top, bit, V
    <3>5. IsFiniteSet(0 .. top) /\ IsFiniteSet(0 .. bit)
      BY <3>3, FS_Interval
    <3> QED BY <3>4, <3>5, FS_Product
  <2> HIDE DEF V
  <2>7. Cardinality({f.flag : f \in all}) = Cardinality(all)
    BY <2>4, <2>5, <2>6, FieldCounts
  <2> QED BY <2>3, <2>4, <2>7
<1> QED BY <1>1, MemoryInvHolds, PTL

=============================================================================
