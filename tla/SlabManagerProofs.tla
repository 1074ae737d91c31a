--------------------------- MODULE SlabManagerProofs ---------------------------
(*****************************************************************************)
(* Proofs about the slab manager, for every number of slabs and of objects   *)
(* in a slab, every order of alloc, free and free_unused, and whatever the   *)
(* other clients of the page allocator do meanwhile.                         *)
(*****************************************************************************)
EXTENDS SlabManager, Induction, FiniteSetTheorems

Node == [avail : Int, free : Int, prev : Int, next : Int, ok : BOOLEAN]
ListPair == [list : [List -> Slab \cup {0}], node : [Slab -> Node]]

TypeOK ==
  /\ list \in [List -> Slab \cup {0}]
  /\ node \in [Slab -> Node]
  /\ next \in [Obj -> Obj \cup {0, Poison}]
  /\ slabs_allocated \in Int /\ objects_allocated \in Int /\ objects_available \in Int
  /\ walk \in [on : BOOLEAN, at : Slab \cup {0}]
  /\ pages \in SUBSET Slab /\ mine \in SUBSET Slab /\ used \in SUBSET Obj

(* The nodes of S are linked both ways into one ring through the head h: a  *)
(* set that holds h and the successor of each of its members is all of S.   *)
IsRing(nd, h, S) ==
  /\ IF S = {} THEN h = 0 ELSE h \in S
  /\ \A s \in S :
       /\ nd[s].next \in S /\ nd[nd[s].next].prev = s
       /\ nd[s].prev \in S /\ nd[nd[s].prev].next = s
  /\ \A T \in SUBSET S : h \in T /\ (\A s \in T : nd[s].next \in T) => T = S

(* The three lists of m are rings of the slabs M[l]. *)
AreRings(m, M) ==
  /\ m \in ListPair /\ M \in [List -> SUBSET Slab]
  /\ \A l \in List : IsRing(m.node, m.list[l], M[l])
  /\ \A l, k \in List : l # k => M[l] \cap M[k] = {}

(* Node nd is that of slab s, of which clients have the objects U. *)
NodeExact(nd, s, chain, U) ==
  /\ nd.ok /\ nd.avail \in 0 .. ObjsPerSlab
  /\ \E f : IsChain(f, nd.avail, nd.free, chain, ObjectsOf(s) \ U, 0)

(* Once free_unused has poisoned the node of the first unused slab, that    *)
(* slab is the manager's and its node is not a slab node.                   *)
Begun == walk.on /\ walk.at # list["unused"]
Intact == IF Begun THEN mine \ {list["unused"]} ELSE mine
Members == [l \in List |-> {s \in Intact : ListOf(s) = l}]

(* The slabs free_unused still has to give back, the first one last. *)
Remaining == {list["unused"]} \cup Members["unused"]

(* The walk meets each of them, unless another client of the page allocator *)
(* overwrote the node it is at.                                             *)
WalkExact ==
  /\ walk.at \in Slab \ mine
  /\ list["unused"] \in mine /\ ObjectsOf(list["unused"]) \cap used = {} /\ ~node[list["unused"]].ok
  /\ \A s \in Members["unused"] : node[s].next \in Remaining
  /\ node[walk.at].ok =>
       /\ node[walk.at].next \in Remaining
       /\ \A s, t \in Members["unused"] \cup {walk.at} : node[s].next = node[t].next => s = t
       /\ \A T \in SUBSET Remaining :
            node[walk.at].next \in T /\ (\A s \in T \ {list["unused"]} : node[s].next \in T) => T = Remaining

Counted ==
  /\ slabs_allocated = Cardinality(mine)
  /\ objects_allocated = Cardinality(used)
  /\ objects_available = Cardinality({o \in Obj : SlabOf(o) \in mine} \ used)

(* The inductive invariant. *)
IInv ==
  /\ TypeOK
  /\ SlabsOwned
  /\ \A o \in used : next[o] = Poison
  /\ \A s \in Intact : NodeExact(node[s], s, next, used)
  /\ \A l \in List : (l = "unused" => ~Begun) => IsRing(node, list[l], Members[l])
  /\ Begun => WalkExact
  /\ Counted
  /\ AssertionsHold

-----------------------------------------------------------------------------
(*****************************************************************************)
(* Where the objects of a slab are.                                          *)
(*****************************************************************************)

(* An object lies in the slab its address is aligned down to. *)
LEMMA SlabOfObject ==
  ASSUME NEW o \in Obj
  PROVE  SlabOf(o) \in Slab /\ o \in ObjectsOf(SlabOf(o))
<1> DEFINE P == ObjsPerSlab
           q == (o - 1) \div P
           r == (o - 1) % P
<1>0. NumSlabs \in Nat /\ P \in Nat /\ P > 0 /\ NumSlabs * P \in Nat
  BY SlabAssumption
<1>1. o \in Nat /\ o >= 1 /\ o <= NumSlabs * P
  BY <1>0 DEF Obj
<1>2. q \in Nat /\ r \in 0 .. P - 1 /\ o - 1 = q * P + r
  BY <1>0, <1>1
<1> HIDE DEF q, r
<1>3. (q + 1) * P = q * P + P /\ ((q + 1) - 1) * P = q * P /\ q * P \in Nat
  BY <1>0, <1>2
<1>4. q + 1 <= NumSlabs
  <2> SUFFICES ASSUME q >= NumSlabs PROVE FALSE
    BY <1>0, <1>2
  <2>1. q * P >= NumSlabs * P
    BY <1>0, <1>2
  <2> QED BY <1>0, <1>1, <1>2, <1>3, <2>1
<1>5. SlabOf(o) = q + 1
  BY DEF SlabOf, q
<1>6. o \in ((q + 1) - 1) * P + 1 .. (q + 1) * P
  BY <1>0, <1>1, <1>2, <1>3
<1> QED BY <1>0, <1>2, <1>4, <1>5, <1>6 DEF Slab, ObjectsOf

(* The objects of a slab are objects, and of no other slab. *)
LEMMA ObjectOfSlab ==
  ASSUME NEW s \in Slab, NEW o \in ObjectsOf(s)
  PROVE  o \in Obj /\ SlabOf(o) = s
<1> DEFINE P == ObjsPerSlab
           r == o - 1 - (s - 1) * P
<1>0. NumSlabs \in Nat /\ P \in Nat /\ P > 0 /\ s \in Nat /\ s >= 1 /\ s <= NumSlabs
  BY SlabAssumption DEF Slab
<1>1. (s - 1) * P \in Nat /\ s * P = (s - 1) * P + P /\ s * P \in Nat
  BY <1>0
<1>2. o \in Nat /\ r \in 0 .. P - 1 /\ o - 1 = (s - 1) * P + r /\ o >= 1 /\ o <= s * P
  BY <1>0, <1>1 DEF ObjectsOf
<1>3. s * P <= NumSlabs * P /\ NumSlabs * P \in Nat
  BY <1>0
<1>4. o \in Obj
  BY <1>1, <1>2, <1>3 DEF Obj
<1> HIDE DEF r
<1>5. ((s - 1) * P + r) \div P = s - 1
  BY <1>0, <1>2
<1> QED BY <1>0, <1>2, <1>4, <1>5 DEF SlabOf

(* A slab holds ObjsPerSlab objects. *)
LEMMA SlabSize ==
  ASSUME NEW s \in Slab
  PROVE  IsFiniteSet(ObjectsOf(s)) /\ Cardinality(ObjectsOf(s)) = ObjsPerSlab
<1> DEFINE a == (s - 1) * ObjsPerSlab + 1
           b == s * ObjsPerSlab
<1>0. ObjsPerSlab \in Nat /\ ObjsPerSlab > 0 /\ s \in Nat /\ s >= 1
  BY SlabAssumption DEF Slab
<1>1. a \in Int /\ b \in Int /\ b = a + ObjsPerSlab - 1
  BY <1>0
<1>2. ObjectsOf(s) = a .. b
  BY DEF ObjectsOf
<1> HIDE DEF a, b
<1>3. IsFiniteSet(a .. b) /\ Cardinality(a .. b) = IF a > b THEN 0 ELSE b - a + 1
  BY <1>1, FS_Interval
<1> QED BY <1>0, <1>1, <1>2, <1>3

-----------------------------------------------------------------------------
(*****************************************************************************)
(* The list primitives keep the lists rings.                                 *)
(*****************************************************************************)

(* What the primitives leave alone: the objects and the check of every node. *)
SameObjects(nd1, nd2) ==
  \A x \in Slab : /\ nd2[x].avail = nd1[x].avail /\ nd2[x].free = nd1[x].free
                  /\ nd2[x].ok = nd1[x].ok

(* A ring depends on the links of its own nodes only. *)
LEMMA RingLinks ==
  ASSUME NEW nd1, NEW nd2, NEW h, NEW S, IsRing(nd1, h, S),
         \A x \in S : nd2[x].next = nd1[x].next /\ nd2[x].prev = nd1[x].prev
  PROVE  IsRing(nd2, h, S)
<1>1. \A s \in S :
        /\ nd2[s].next \in S /\ nd2[nd2[s].next].prev = s
        /\ nd2[s].prev \in S /\ nd2[nd2[s].prev].next = s
  BY DEF IsRing
<1>2. ASSUME NEW T \in SUBSET S, h \in T, \A s \in T : nd2[s].next \in T
      PROVE  T = S
  <2>1. \A s \in T : nd1[s].next \in T
    BY <1>2
  <2> QED BY <1>2, <2>1 DEF IsRing
<1> QED BY <1>1, <1>2 DEF IsRing

(* One link of one node changes. *)
WithPrev(nd, y, v) == [nd EXCEPT ![y].prev = v]
WithNext(nd, y, v) == [nd EXCEPT ![y].next = v]

(* Setting the prev link of a slab node changes nothing else. *)
LEMMA SetPrev ==
  ASSUME NEW nd \in [Slab -> Node], NEW y \in Slab, NEW v \in Int
  PROVE  /\ WithPrev(nd, y, v) \in [Slab -> Node] /\ SameObjects(nd, WithPrev(nd, y, v))
         /\ \A x \in Slab :
              /\ WithPrev(nd, y, v)[x].prev = IF x = y THEN v ELSE nd[x].prev
              /\ WithPrev(nd, y, v)[x].next = nd[x].next
BY DEF Node, SameObjects, WithPrev

(* Setting the next link of a slab node changes nothing else. *)
LEMMA SetNext ==
  ASSUME NEW nd \in [Slab -> Node], NEW y \in Slab, NEW v \in Int
  PROVE  /\ WithNext(nd, y, v) \in [Slab -> Node] /\ SameObjects(nd, WithNext(nd, y, v))
         /\ \A x \in Slab :
              /\ WithNext(nd, y, v)[x].next = IF x = y THEN v ELSE nd[x].next
              /\ WithNext(nd, y, v)[x].prev = nd[x].prev
BY DEF Node, SameObjects, WithNext

(* The nodes after two links of slab s, the prev of slab h and the next of  *)
(* slab t are set, as by add_slab_to_tail and remove_slab_from_list.        *)
Relinked(nd, s, p, n, h, hp, t, tn) ==
  WithNext(WithPrev(WithNext(WithPrev(nd, s, p), s, n), h, hp), t, tn)

(* What that changes: those four links. *)
Relinks(nd, nd2, s, p, n, h, hp, t, tn) ==
  /\ nd2 \in [Slab -> Node] /\ SameObjects(nd, nd2)
  /\ \A x \in Slab :
       /\ nd2[x].prev = IF x = h THEN hp ELSE IF x = s THEN p ELSE nd[x].prev
       /\ nd2[x].next = IF x = t THEN tn ELSE IF x = s THEN n ELSE nd[x].next

(* The four assignments of a list primitive change those four links, the   *)
(* later ones winning when two of the slabs are the same.                   *)
LEMMA RelinkedNodes ==
  ASSUME NEW nd \in [Slab -> Node], NEW s \in Slab, NEW h \in Slab, NEW t \in Slab,
         NEW p \in Int, NEW n \in Int, NEW hp \in Int, NEW tn \in Int
  PROVE  Relinks(nd, Relinked(nd, s, p, n, h, hp, t, tn), s, p, n, h, hp, t, tn)
<1> DEFINE n1 == WithPrev(nd, s, p)
           n2 == WithNext(n1, s, n)
           n3 == WithPrev(n2, h, hp)
           n4 == WithNext(n3, t, tn)
<1>0. Relinked(nd, s, p, n, h, hp, t, tn) = n4
  BY DEF Relinked
<1>1. /\ n1 \in [Slab -> Node] /\ SameObjects(nd, n1)
      /\ \A x \in Slab : n1[x].prev = (IF x = s THEN p ELSE nd[x].prev) /\ n1[x].next = nd[x].next
  BY SetPrev
<1> HIDE DEF n1
<1>2. /\ n2 \in [Slab -> Node] /\ SameObjects(n1, n2)
      /\ \A x \in Slab : n2[x].next = (IF x = s THEN n ELSE n1[x].next) /\ n2[x].prev = n1[x].prev
  BY <1>1, SetNext
<1> HIDE DEF n2
<1>3. /\ n3 \in [Slab -> Node] /\ SameObjects(n2, n3)
      /\ \A x \in Slab : n3[x].prev = (IF x = h THEN hp ELSE n2[x].prev) /\ n3[x].next = n2[x].next
  BY <1>2, SetPrev
<1> HIDE DEF n3
<1>4. /\ n4 \in [Slab -> Node] /\ SameObjects(n3, n4)
      /\ \A x \in Slab : n4[x].next = (IF x = t THEN tn ELSE n3[x].next) /\ n4[x].prev = n3[x].prev
  BY <1>3, SetNext
<1> HIDE DEF n4
<1>5. SameObjects(nd, n4)
  BY <1>1, <1>2, <1>3, <1>4 DEF SameObjects
<1>6. \A x \in Slab :
        /\ n4[x].prev = IF x = h THEN hp ELSE IF x = s THEN p ELSE nd[x].prev
        /\ n4[x].next = IF x = t THEN tn ELSE IF x = s THEN n ELSE nd[x].next
  BY <1>1, <1>2, <1>3, <1>4
<1> QED BY <1>0, <1>4, <1>5, <1>6 DEF Relinks

(* Linking s between the tail and the head of a ring makes a larger ring. *)
LEMMA RingAdd ==
  ASSUME NEW nd, NEW nd2, NEW h, NEW S, NEW s, IsRing(nd, h, S), S # {}, s \notin S,
         \A x \in S \cup {s} :
           /\ nd2[x].prev = IF x = h THEN s ELSE IF x = s THEN nd[h].prev ELSE nd[x].prev
           /\ nd2[x].next = IF x = nd[h].prev THEN s ELSE IF x = s THEN h ELSE nd[x].next
  PROVE  IsRing(nd2, h, S \cup {s})
<1> DEFINE t == nd[h].prev
<1>0. h \in S /\ t \in S /\ nd[t].next = h /\ h # s /\ t # s
  BY DEF IsRing
<1>1. \A x \in S : nd[x].next = h => x = t
  BY <1>0 DEF IsRing
<1>2. \A x \in S : nd[x].prev = t => x = h
  BY <1>0 DEF IsRing
<1>3. ASSUME NEW x \in S \cup {s}
      PROVE  /\ nd2[x].next \in S \cup {s} /\ nd2[nd2[x].next].prev = x
             /\ nd2[x].prev \in S \cup {s} /\ nd2[nd2[x].prev].next = x
  <2>1. CASE x = s
    BY <1>0, <2>1
  <2>2. CASE x = t
    <3>1. nd2[x].next = s /\ nd2[s].prev = t
      BY <1>0, <2>2
    <3>2. CASE x = h
      BY <1>0, <2>2, <3>1, <3>2
    <3>3. CASE x # h
      <4>1. nd2[x].prev = nd[x].prev /\ nd[x].prev \in S /\ nd[x].prev # t
        BY <1>0, <1>2, <2>2, <3>3 DEF IsRing
      <4>2. nd2[nd[x].prev].next = nd[nd[x].prev].next
        BY <1>0, <4>1
      <4> QED BY <1>0, <2>2, <3>1, <4>1, <4>2 DEF IsRing
    <3> QED BY <3>2, <3>3
  <2>3. CASE x \in S /\ x # t
    <3>1. nd2[x].next = nd[x].next /\ nd[x].next \in S /\ nd[x].next # h
      BY <1>0, <1>1, <2>3 DEF IsRing
    <3>2. nd2[nd[x].next].prev = x
      BY <1>0, <3>1, <2>3 DEF IsRing
    <3>3. CASE x = h
      BY <1>0, <3>1, <3>2, <3>3
    <3>4. CASE x # h
      <4>1. nd2[x].prev = nd[x].prev /\ nd[x].prev \in S /\ nd[x].prev # t
        BY <1>0, <1>2, <2>3, <3>4 DEF IsRing
      <4>2. nd2[nd[x].prev].next = nd[nd[x].prev].next
        BY <1>0, <4>1
      <4> QED BY <1>0, <2>3, <3>1, <3>2, <4>1, <4>2 DEF IsRing
    <3> QED BY <3>3, <3>4
  <2> QED BY <2>1, <2>2, <2>3
<1>4. ASSUME NEW T \in SUBSET (S \cup {s}), h \in T, \A x \in T : nd2[x].next \in T
      PROVE  T = S \cup {s}
  <2>1. \A x \in T \ {s} : nd[x].next \in T \ {s}
    <3> SUFFICES ASSUME NEW x \in T \ {s} PROVE nd[x].next \in T \ {s}
      OBVIOUS
    <3>1. CASE x = t
      BY <1>0, <1>4, <3>1
    <3>2. CASE x # t
      BY <1>0, <1>4, <3>2 DEF IsRing
    <3> QED BY <3>1, <3>2
  <2>2. T \ {s} = S
    <3>1. T \ {s} \in SUBSET S /\ h \in T \ {s}
      BY <1>0, <1>4
    <3> QED BY <2>1, <3>1 DEF IsRing
  <2>3. nd2[t].next = s /\ t \in T
    BY <1>0, <2>2
  <2> QED BY <1>4, <2>2, <2>3
<1> QED BY <1>0, <1>3, <1>4 DEF IsRing

(* Linking the neighbours of s to each other takes s out of the ring; the   *)
(* head moves on when it was s.                                             *)
LEMMA RingRemove ==
  ASSUME NEW nd, NEW nd2, NEW h, NEW S, NEW s \in S, IsRing(nd, h, S), nd[s].next # s,
         \A x \in S \ {s} :
           /\ nd2[x].prev = IF x = nd[s].next THEN nd[s].prev ELSE nd[x].prev
           /\ nd2[x].next = IF x = nd[s].prev THEN nd[s].next ELSE nd[x].next
  PROVE  IsRing(nd2, IF h = s THEN nd[s].next ELSE h, S \ {s})
<1> DEFINE n == nd[s].next
           p == nd[s].prev
           h2 == IF h = s THEN n ELSE h
           R == S \ {s}
<1>0. /\ n \in S /\ p \in S /\ nd[n].prev = s /\ nd[p].next = s /\ n # s /\ p # s
      /\ h \in S /\ n \in R /\ p \in R
  BY DEF IsRing
<1>1. \A x \in R : (nd[x].next = s => x = p) /\ (nd[x].prev = s => x = n)
  BY <1>0 DEF IsRing
<1>2. ASSUME NEW x \in R
      PROVE  /\ nd2[x].next \in R /\ nd2[nd2[x].next].prev = x
             /\ nd2[x].prev \in R /\ nd2[nd2[x].prev].next = x
  <2>1. nd2[x].next \in R /\ nd2[nd2[x].next].prev = x
    <3>1. CASE x = p
      BY <1>0, <3>1
    <3>2. CASE x # p
      <4>1. nd2[x].next = nd[x].next /\ nd[x].next \in R /\ nd[nd[x].next].prev = x
        BY <1>0, <1>1, <3>2 DEF IsRing
      <4>2. nd[x].next # n
        BY <1>0, <4>1
      <4> QED BY <4>1, <4>2
    <3> QED BY <3>1, <3>2
  <2>2. nd2[x].prev \in R /\ nd2[nd2[x].prev].next = x
    <3>1. CASE x = n
      BY <1>0, <3>1
    <3>2. CASE x # n
      <4>1. nd2[x].prev = nd[x].prev /\ nd[x].prev \in R /\ nd[nd[x].prev].next = x
        BY <1>0, <1>1, <3>2 DEF IsRing
      <4>2. nd[x].prev # p
        BY <1>0, <4>1
      <4> QED BY <4>1, <4>2
    <3> QED BY <3>1, <3>2
  <2> QED BY <2>1, <2>2
<1>3. ASSUME NEW T \in SUBSET R, h2 \in T, \A x \in T : nd2[x].next \in T
      PROVE  T = R
  <2>1. \A x \in T : x # p => nd[x].next \in T
    BY <1>3
  <2>2. CASE p \in T \/ h = s
    <3>1. n \in T
      BY <1>0, <1>3, <2>2
    <3>2. h \in T \cup {s} /\ \A x \in T \cup {s} : nd[x].next \in T \cup {s}
      BY <1>0, <1>3, <2>1, <3>1
    <3>3. T \cup {s} = S
      <4> DEFINE V == T \cup {s}
      <4>1. V \in SUBSET S /\ h \in V /\ \A x \in V : nd[x].next \in V
        BY <3>2
      <4> HIDE DEF V
      <4>2. V = S
        BY <4>1 DEF IsRing
      <4> QED BY <4>2 DEF V
    <3> QED BY <3>3
  <2>3. CASE p \notin T /\ h # s
    <3>1. h \in T /\ \A x \in T : nd[x].next \in T
      BY <1>3, <2>1, <2>3
    <3>2. T = S
      BY <3>1 DEF IsRing
    <3> QED BY <3>2
  <2> QED BY <2>2, <2>3
<1>4. h2 \in R
  BY <1>0
<1> QED BY <1>2, <1>3, <1>4 DEF IsRing

(* add_slab_to_tail makes a slab that is on no list the last of list l, and *)
(* leaves the other lists and the objects of every slab alone.              *)
LEMMA AddRings ==
  ASSUME NEW m, NEW M, AreRings(m, M), NEW l \in List, NEW s \in Slab,
         \A k \in List : s \notin M[k]
  PROVE  /\ AreRings(AddSlabToTail(m, l, s), [M EXCEPT ![l] = @ \cup {s}])
         /\ SameObjects(m.node, AddSlabToTail(m, l, s).node)
<1> DEFINE a == AddSlabToTail(m, l, s)
           h == m.list[l]
           t == m.node[h].prev
           M2 == [M EXCEPT ![l] = @ \cup {s}]
<1>0. /\ m.list \in [List -> Slab \cup {0}] /\ m.node \in [Slab -> Node] /\ M \in [List -> SUBSET Slab]
      /\ m = [list |-> m.list, node |-> m.node]
  BY DEF AreRings, ListPair
<1>1. s \in Int /\ s # 0 /\ 0 \notin Slab
  BY SlabAssumption DEF Slab
<1>2. M2 \in [List -> SUBSET Slab] /\ M2[l] = M[l] \cup {s} /\ \A k \in List : k # l => M2[k] = M[k]
  BY <1>0
<1>3. \A k, j \in List : k # j => M2[k] \cap M2[j] = {}
  BY <1>2 DEF AreRings
<1> HIDE DEF M2
<1>4. CASE h = 0
  <2>1. M[l] = {}
    BY <1>0, <1>1, <1>4 DEF AreRings, IsRing
  <2>2. a = [list |-> [m.list EXCEPT ![l] = s],
             node |-> [m.node EXCEPT ![s].prev = s, ![s].next = s]]
    BY <1>4 DEF AddSlabToTail
  <2> DEFINE nd == WithNext(WithPrev(m.node, s, s), s, s)
  <2>3. a.node = nd /\ a.list = [m.list EXCEPT ![l] = s] /\ a = [list |-> a.list, node |-> a.node]
    BY <2>2 DEF WithNext, WithPrev
  <2>4. /\ nd \in [Slab -> Node] /\ SameObjects(m.node, nd)
        /\ nd[s].prev = s /\ nd[s].next = s
        /\ \A x \in Slab \ {s} : nd[x].prev = m.node[x].prev /\ nd[x].next = m.node[x].next
    <3> DEFINE n1 == WithPrev(m.node, s, s)
    <3>1. /\ n1 \in [Slab -> Node] /\ SameObjects(m.node, n1)
          /\ \A x \in Slab : n1[x].prev = (IF x = s THEN s ELSE m.node[x].prev) /\ n1[x].next = m.node[x].next
      BY <1>0, <1>1, SetPrev
    <3> HIDE DEF n1
    <3>2. /\ WithNext(n1, s, s) \in [Slab -> Node] /\ SameObjects(n1, WithNext(n1, s, s))
          /\ \A x \in Slab : /\ WithNext(n1, s, s)[x].next = (IF x = s THEN s ELSE n1[x].next)
                             /\ WithNext(n1, s, s)[x].prev = n1[x].prev
      <4>1. n1 \in [Slab -> Node] /\ s \in Slab /\ s \in Int
        BY <1>1, <3>1
      <4> QED BY <4>1, SetNext
    <3> QED BY <3>1, <3>2 DEF n1, SameObjects
  <2> HIDE DEF nd, a
  <2>5. a \in ListPair
    BY <1>0, <2>3, <2>4 DEF ListPair
  <2>6. IsRing(a.node, a.list[l], M2[l])
    BY <1>0, <1>2, <2>1, <2>3, <2>4 DEF IsRing
  <2>7. ASSUME NEW k \in List, k # l
        PROVE  IsRing(a.node, a.list[k], M2[k])
    <3>1. a.list[k] = m.list[k] /\ M2[k] = M[k] /\ s \notin M[k] /\ M[k] \subseteq Slab
      BY <1>0, <1>2, <2>3, <2>7
    <3>2. IsRing(m.node, m.list[k], M[k])
      BY DEF AreRings
    <3>3. \A x \in M[k] : nd[x].next = m.node[x].next /\ nd[x].prev = m.node[x].prev
      BY <2>4, <3>1
    <3>4. IsRing(nd, m.list[k], M[k])
      BY <3>2, <3>3, RingLinks
    <3> QED BY <2>3, <3>1, <3>4
  <2>8. AreRings(a, M2)
    BY <1>2, <1>3, <2>5, <2>6, <2>7 DEF AreRings
  <2> QED BY <2>3, <2>4, <2>8 DEF a, M2
<1>5. CASE h # 0
  <2>1. h \in M[l] /\ M[l] # {} /\ t \in M[l] /\ h \in Slab /\ t \in Slab /\ s # h /\ s # t
    BY <1>0, <1>5 DEF AreRings, IsRing
  <2>2. a = [m EXCEPT !.node = [@ EXCEPT ![s].prev = t, ![s].next = h, ![h].prev = s, ![t].next = s]]
    BY <1>5 DEF AddSlabToTail
  <2> DEFINE nd == Relinked(m.node, s, t, h, h, s, t, s)
  <2>3. a = [list |-> m.list, node |-> nd]
    BY <1>0, <2>2 DEF Relinked, WithNext, WithPrev
  <2>4. a.list = m.list /\ a.node = nd
    BY <2>3
  <2>5. /\ nd \in [Slab -> Node] /\ SameObjects(m.node, nd)
        /\ \A x \in Slab : /\ nd[x].prev = IF x = h THEN s ELSE IF x = s THEN t ELSE m.node[x].prev
                           /\ nd[x].next = IF x = t THEN s ELSE IF x = s THEN h ELSE m.node[x].next
    <3>1. h \in Int /\ t \in Int /\ s \in Int
      BY <2>1, SlabAssumption DEF Slab
    <3>2. m.node \in [Slab -> Node] /\ s \in Slab /\ h \in Slab /\ t \in Slab
      BY <1>0, <2>1
    <3> HIDE DEF h, t
    <3>3. Relinks(m.node, nd, s, t, h, h, s, t, s)
      BY <3>1, <3>2, RelinkedNodes
    <3> HIDE DEF nd
    <3> QED BY <3>3 DEF Relinks
  <2> HIDE DEF nd, a
  <2>6. a \in ListPair
    BY <1>0, <2>3, <2>5 DEF ListPair
  <2>7. IsRing(nd, h, M[l] \cup {s})
    <3>1. IsRing(m.node, h, M[l]) /\ M[l] \cup {s} \subseteq Slab /\ s \notin M[l]
      BY <1>0 DEF AreRings
    <3>2. \A x \in M[l] \cup {s} :
            /\ nd[x].prev = IF x = h THEN s ELSE IF x = s THEN m.node[h].prev ELSE m.node[x].prev
            /\ nd[x].next = IF x = m.node[h].prev THEN s ELSE IF x = s THEN h ELSE m.node[x].next
      BY <2>5, <3>1
    <3> QED BY <2>1, <3>1, <3>2, RingAdd
  <2>8. ASSUME NEW k \in List, k # l
        PROVE  IsRing(a.node, a.list[k], M2[k])
    <3>1. M2[k] = M[k] /\ M[k] \subseteq Slab \ {h, s, t}
      BY <1>0, <1>2, <2>1, <2>8 DEF AreRings
    <3>2. IsRing(m.node, m.list[k], M[k])
      BY DEF AreRings
    <3>3. \A x \in M[k] : nd[x].next = m.node[x].next /\ nd[x].prev = m.node[x].prev
      BY <2>5, <3>1
    <3>4. IsRing(nd, m.list[k], M[k])
      BY <3>2, <3>3, RingLinks
    <3> QED BY <2>4, <3>1, <3>4
  <2>9. IsRing(a.node, a.list[l], M2[l])
    BY <1>2, <2>4, <2>7
  <2>10. AreRings(a, M2)
    BY <1>2, <1>3, <2>6, <2>8, <2>9 DEF AreRings
  <2> QED BY <2>4, <2>5, <2>10 DEF a, M2
<1> QED BY <1>4, <1>5

(* remove_slab_from_list takes slab s out of list l, and leaves the other   *)
(* lists and the objects of every slab alone.                               *)
LEMMA RemoveRings ==
  ASSUME NEW m, NEW M, AreRings(m, M), NEW l \in List, NEW s \in M[l]
  PROVE  /\ AreRings(RemoveSlabFromList(m, l, s), [M EXCEPT ![l] = @ \ {s}])
         /\ SameObjects(m.node, RemoveSlabFromList(m, l, s).node)
<1> DEFINE a == RemoveSlabFromList(m, l, s)
           h == m.list[l]
           p == m.node[s].prev
           n == m.node[s].next
           M2 == [M EXCEPT ![l] = @ \ {s}]
<1>0. /\ m.list \in [List -> Slab \cup {0}] /\ m.node \in [Slab -> Node] /\ M \in [List -> SUBSET Slab]
      /\ m = [list |-> m.list, node |-> m.node]
  BY DEF AreRings, ListPair
<1>1. s \in Slab /\ s \in Int /\ s # 0 /\ 0 \notin Slab
  BY <1>0, SlabAssumption DEF Slab
<1>2. M2 \in [List -> SUBSET Slab] /\ M2[l] = M[l] \ {s} /\ \A k \in List : k # l => M2[k] = M[k]
  BY <1>0
<1>3. \A k, j \in List : k # j => M2[k] \cap M2[j] = {}
  BY <1>2 DEF AreRings
<1> HIDE DEF M2
<1>4. /\ IsRing(m.node, h, M[l]) /\ h \in M[l] /\ n \in M[l] /\ p \in M[l]
      /\ m.node[n].prev = s /\ m.node[p].next = s
  BY DEF AreRings, IsRing
<1>5. h \in Slab /\ n \in Slab /\ p \in Slab
  BY <1>0, <1>4
<1>6. CASE n = s
  <2>1. p = s
    BY <1>4, <1>6
  <2>2. M[l] = {s}
    <3>1. \A x \in M[l] : m.node[x].next = s => x = s
      BY <1>4, <2>1 DEF IsRing
    <3> DEFINE T == M[l] \ {s}
    <3>2. CASE h = s
      <4>1. {s} \in SUBSET M[l] /\ h \in {s} /\ \A x \in {s} : m.node[x].next \in {s}
        BY <1>6, <3>2
      <4> QED BY <1>4, <4>1 DEF IsRing
    <3>3. CASE h # s
      <4>1. T \in SUBSET M[l] /\ h \in T /\ \A x \in T : m.node[x].next \in T
        BY <1>4, <3>1, <3>3 DEF IsRing
      <4>2. T = M[l]
        BY <1>4, <4>1 DEF IsRing
      <4> QED BY <4>2
    <3> QED BY <3>2, <3>3
  <2>3. a = [list |-> [m.list EXCEPT ![l] = 0],
             node |-> [m.node EXCEPT ![s].prev = 0, ![s].next = 0]]
    BY <1>6, <2>1 DEF RemoveSlabFromList
  <2> DEFINE nd == WithNext(WithPrev(m.node, s, 0), s, 0)
  <2>4. a.node = nd /\ a.list = [m.list EXCEPT ![l] = 0] /\ a = [list |-> a.list, node |-> a.node]
    BY <2>3 DEF WithNext, WithPrev
  <2>5. /\ nd \in [Slab -> Node] /\ SameObjects(m.node, nd)
        /\ \A x \in Slab \ {s} : nd[x].prev = m.node[x].prev /\ nd[x].next = m.node[x].next
    <3> DEFINE n1 == WithPrev(m.node, s, 0)
    <3>1. /\ n1 \in [Slab -> Node] /\ SameObjects(m.node, n1)
          /\ \A x \in Slab : n1[x].prev = (IF x = s THEN 0 ELSE m.node[x].prev) /\ n1[x].next = m.node[x].next
      BY <1>0, <1>1, SetPrev
    <3> HIDE DEF n1
    <3>2. /\ WithNext(n1, s, 0) \in [Slab -> Node] /\ SameObjects(n1, WithNext(n1, s, 0))
          /\ \A x \in Slab : /\ WithNext(n1, s, 0)[x].next = (IF x = s THEN 0 ELSE n1[x].next)
                             /\ WithNext(n1, s, 0)[x].prev = n1[x].prev
      <4>1. n1 \in [Slab -> Node] /\ s \in Slab /\ 0 \in Int
        BY <1>1, <3>1
      <4> QED BY <4>1, SetNext
    <3> QED BY <3>1, <3>2 DEF n1, SameObjects
  <2> HIDE DEF nd, a
  <2>6. a \in ListPair
    BY <1>0, <2>4, <2>5 DEF ListPair
  <2>7. IsRing(a.node, a.list[l], M2[l])
    BY <1>0, <1>2, <2>2, <2>4 DEF IsRing
  <2>8. ASSUME NEW k \in List, k # l
        PROVE  IsRing(a.node, a.list[k], M2[k])
    <3>1. a.list[k] = m.list[k] /\ M2[k] = M[k] /\ M[k] \subseteq Slab \ {s}
      BY <1>0, <1>2, <2>4, <2>8 DEF AreRings
    <3>2. IsRing(m.node, m.list[k], M[k])
      BY DEF AreRings
    <3>3. \A x \in M[k] : nd[x].next = m.node[x].next /\ nd[x].prev = m.node[x].prev
      BY <2>5, <3>1
    <3>4. IsRing(nd, m.list[k], M[k])
      BY <3>2, <3>3, RingLinks
    <3> QED BY <2>4, <3>1, <3>4
  <2>9. AreRings(a, M2)
    BY <1>2, <1>3, <2>6, <2>7, <2>8 DEF AreRings
  <2> QED BY <2>4, <2>5, <2>9 DEF a, M2
<1>7. CASE n # s
  <2>1. p # s
    BY <1>4, <1>7
  <2>2. a = [list |-> [m.list EXCEPT ![l] = IF @ = s THEN n ELSE @],
             node |-> [m.node EXCEPT ![n].prev = p, ![p].next = n, ![s].prev = 0, ![s].next = 0]]
    BY <1>7 DEF RemoveSlabFromList
  <2> DEFINE n1 == WithPrev(m.node, n, p)
             n2 == WithNext(n1, p, n)
             n3 == WithPrev(n2, s, 0)
             nd == WithNext(n3, s, 0)
  <2>3. a.node = nd /\ a.list = [m.list EXCEPT ![l] = IF @ = s THEN n ELSE @]
        /\ a = [list |-> a.list, node |-> a.node]
    <3> HIDE DEF a, n, p
    <3>1. [m.node EXCEPT ![n].prev = p, ![p].next = n, ![s].prev = 0, ![s].next = 0] = nd
      BY DEF WithNext, WithPrev
    <3> QED BY <2>2, <3>1
  <2>4. /\ nd \in [Slab -> Node] /\ SameObjects(m.node, nd)
        /\ \A x \in Slab \ {s} :
             /\ nd[x].prev = IF x = n THEN p ELSE m.node[x].prev
             /\ nd[x].next = IF x = p THEN n ELSE m.node[x].next
    <3>0. n \in Int /\ p \in Int /\ 0 \in Int
      BY <1>5, SlabAssumption DEF Slab
    <3>1. /\ n1 \in [Slab -> Node] /\ SameObjects(m.node, n1)
          /\ \A x \in Slab : n1[x].prev = (IF x = n THEN p ELSE m.node[x].prev) /\ n1[x].next = m.node[x].next
      <4>1. m.node \in [Slab -> Node] /\ n \in Slab /\ p \in Int
        BY <1>0, <1>5, <3>0
      <4> HIDE DEF n, p
      <4> QED BY <4>1, SetPrev
    <3> HIDE DEF n1, n, p
    <3>2. /\ n2 \in [Slab -> Node] /\ SameObjects(n1, n2)
          /\ \A x \in Slab : n2[x].next = (IF x = p THEN n ELSE n1[x].next) /\ n2[x].prev = n1[x].prev
      BY <1>5, <3>0, <3>1, SetNext
    <3> HIDE DEF n2
    <3>3. /\ n3 \in [Slab -> Node] /\ SameObjects(n2, n3)
          /\ \A x \in Slab : n3[x].prev = (IF x = s THEN 0 ELSE n2[x].prev) /\ n3[x].next = n2[x].next
      <4>1. n2 \in [Slab -> Node] /\ s \in Slab /\ 0 \in Int
        BY <1>1, <3>2
      <4> QED BY <4>1, SetPrev
    <3> HIDE DEF n3
    <3>4. /\ nd \in [Slab -> Node] /\ SameObjects(n3, nd)
          /\ \A x \in Slab : nd[x].next = (IF x = s THEN 0 ELSE n3[x].next) /\ nd[x].prev = n3[x].prev
      BY <1>1, <3>0, <3>3, SetNext
    <3> HIDE DEF nd
    <3>5. SameObjects(m.node, nd)
      BY <3>1, <3>2, <3>3, <3>4 DEF SameObjects
    <3> QED BY <3>1, <3>2, <3>3, <3>4, <3>5
  <2> HIDE DEF nd, a, n1, n2, n3
  <2>5. a.list[l] = (IF h = s THEN n ELSE h) /\ \A k \in List : k # l => a.list[k] = m.list[k]
    BY <1>0, <2>3
  <2>6. a \in ListPair
    <3>1. a.list \in [List -> Slab \cup {0}]
      BY <1>0, <1>5, <2>3
    <3> QED BY <2>3, <2>4, <3>1 DEF ListPair
  <2>7. IsRing(nd, IF h = s THEN n ELSE h, M[l] \ {s})
    <3>1. \A x \in M[l] \ {s} :
            /\ nd[x].prev = IF x = m.node[s].next THEN m.node[s].prev ELSE m.node[x].prev
            /\ nd[x].next = IF x = m.node[s].prev THEN m.node[s].next ELSE m.node[x].next
      BY <1>0, <2>4
    <3> QED BY <1>4, <1>7, <3>1, RingRemove
  <2>8. ASSUME NEW k \in List, k # l
        PROVE  IsRing(a.node, a.list[k], M2[k])
    <3>1. M2[k] = M[k] /\ M[k] \subseteq Slab \ {n, s, p}
      BY <1>0, <1>2, <1>4, <2>8 DEF AreRings
    <3>2. IsRing(m.node, m.list[k], M[k])
      BY DEF AreRings
    <3>3. \A x \in M[k] : nd[x].next = m.node[x].next /\ nd[x].prev = m.node[x].prev
      BY <2>4, <3>1
    <3>4. IsRing(nd, m.list[k], M[k])
      BY <3>2, <3>3, RingLinks
    <3> QED BY <2>3, <2>5, <2>8, <3>1, <3>4
  <2>9. IsRing(a.node, a.list[l], M2[l])
    BY <1>2, <2>3, <2>5, <2>7
  <2>10. AreRings(a, M2)
    BY <1>2, <1>3, <2>6, <2>8, <2>9 DEF AreRings
  <2> QED BY <2>3, <2>4, <2>10 DEF a, M2
<1> QED BY <1>6, <1>7

(* Moving a slab from one list to the tail of another. *)
LEMMA MoveRings ==
  ASSUME NEW m, NEW M, AreRings(m, M), NEW from \in List, NEW to \in List, from # to,
         NEW s \in M[from]
  PROVE  /\ AreRings(Move(m, s, from, to), [M EXCEPT ![from] = @ \ {s}, ![to] = @ \cup {s}])
         /\ SameObjects(m.node, Move(m, s, from, to).node)
<1> DEFINE r == RemoveSlabFromList(m, from, s)
           M2 == [M EXCEPT ![from] = @ \ {s}]
<1>0. M \in [List -> SUBSET Slab] /\ s \in Slab
  BY DEF AreRings
<1>1. AreRings(r, M2) /\ SameObjects(m.node, r.node)
  BY RemoveRings
<1>2. \A k \in List : s \notin M2[k]
  BY <1>0 DEF AreRings
<1> HIDE DEF r, M2
<1>3. /\ AreRings(AddSlabToTail(r, to, s), [M2 EXCEPT ![to] = @ \cup {s}])
      /\ SameObjects(r.node, AddSlabToTail(r, to, s).node)
  BY <1>0, <1>1, <1>2, AddRings
<1>4. [M2 EXCEPT ![to] = @ \cup {s}] = [M EXCEPT ![from] = @ \ {s}, ![to] = @ \cup {s}]
  BY <1>0 DEF M2
<1>5. Move(m, s, from, to) = AddSlabToTail(r, to, s)
  BY DEF Move, r
<1>6. SameObjects(m.node, AddSlabToTail(r, to, s).node)
  BY <1>1, <1>3 DEF SameObjects
<1> QED BY <1>3, <1>4, <1>5, <1>6

-----------------------------------------------------------------------------
(*****************************************************************************)
(* The free chain of a slab.                                                 *)
(*****************************************************************************)

(* alloc_slab chains the objects of a new slab. *)
LEMMA FreshSlab ==
  ASSUME NEW s \in Slab, NEW U, ObjectsOf(s) \cap U = {}
  PROVE  NodeExact(NewSlab(s), s, FreshChain(s), U)
<1> DEFINE P == ObjsPerSlab
           F == ObjectsOf(s) \ U
           b == s * P
           f == [i \in 1 .. P + 1 |-> IF i = P + 1 THEN 0 ELSE b - i + 1]
<1>0. P \in Nat /\ P > 0 /\ s \in Nat /\ s >= 1
  BY SlabAssumption DEF Slab
<1>1. b \in Int /\ (s - 1) * P = b - P
  BY <1>0
<1>2. F = ObjectsOf(s) /\ ObjectsOf(s) = b - P + 1 .. b
  BY <1>1 DEF ObjectsOf
<1>3. \A o \in ObjectsOf(s) : o \in Obj
  BY ObjectOfSlab
<1>4. \A o \in ObjectsOf(s) : FreshChain(s)[o] = IF o - 1 \in ObjectsOf(s) THEN o - 1 ELSE 0
  BY <1>3 DEF FreshChain
<1> HIDE DEF b
<1>5. \A i \in 1 .. P : f[i] = b - i + 1 /\ f[i] \in F
  BY <1>0, <1>1, <1>2
<1>6. f \in [1 .. P + 1 -> F \cup {0}]
  <2>1. \A i \in 1 .. P + 1 : i \in 1 .. P \/ i = P + 1
    BY <1>0
  <2> QED BY <1>5, <2>1
<1>7. ASSUME NEW i \in 1 .. P
      PROVE  FreshChain(s)[f[i]] = f[i + 1]
  <2>1. f[i] = b - i + 1 /\ f[i] \in ObjectsOf(s)
    BY <1>2, <1>5
  <2>2. CASE i = P
    BY <1>0, <1>1, <1>2, <1>4, <2>1, <2>2
  <2>3. CASE i # P
    <3>1. i + 1 \in 1 .. P
      BY <1>0, <2>3
    <3> HIDE DEF f
    <3>2. f[i + 1] = b - (i + 1) + 1 /\ f[i + 1] \in ObjectsOf(s)
      BY <1>2, <1>5, <3>1
    <3>3. f[i + 1] = f[i] - 1
      BY <1>0, <1>1, <2>1, <3>2
    <3> QED BY <1>4, <2>1, <3>2, <3>3
  <2> QED BY <2>2, <2>3
<1>8. \A i, j \in 1 .. P : f[i] = f[j] => i = j
  BY <1>0, <1>1, <1>5
<1>9. ASSUME NEW o \in F
      PROVE  \E i \in 1 .. P : f[i] = o
  <2>1. b - o + 1 \in 1 .. P
    BY <1>0, <1>1, <1>2, <1>9
  <2>2. f[b - o + 1] = b - (b - o + 1) + 1
    BY <1>5, <2>1
  <2>3. o \in Int
    BY <1>1, <1>2, <1>9
  <2>4. f[b - o + 1] = o
    BY <1>1, <2>2, <2>3
  <2> HIDE DEF f
  <2> QED BY <2>1, <2>4
<1>10. f[1] = b /\ f[P + 1] = 0
  BY <1>0, <1>1, <1>5
<1> HIDE DEF f
<1>11. IsChain(f, P, b, FreshChain(s), F, 0)
  BY <1>5, <1>6, <1>7, <1>8, <1>9, <1>10 DEF IsChain
<1>12. NewSlab(s).ok /\ NewSlab(s).avail = P /\ NewSlab(s).free = b
  BY DEF NewSlab, b
<1> QED BY <1>0, <1>11, <1>12 DEF NodeExact

-----------------------------------------------------------------------------
(*****************************************************************************)
(* alloc and free on the lists and the chains.                               *)
(*****************************************************************************)

(* What a slab's node says of its objects. *)
LEMMA NodeFacts ==
  ASSUME NEW s \in Slab, NEW nd, NEW chain, NEW U, NodeExact(nd, s, chain, U)
  PROVE  /\ nd.avail \in 0 .. ObjsPerSlab /\ nd.avail = Cardinality(ObjectsOf(s) \ U)
         /\ nd.avail = 0 <=> ObjectsOf(s) \subseteq U
         /\ nd.avail = ObjsPerSlab <=> ObjectsOf(s) \cap U = {}
         /\ nd.avail > 0 => nd.free \in ObjectsOf(s) \ U
<1> DEFINE F == ObjectsOf(s) \ U
<1>0. nd.avail \in 0 .. ObjsPerSlab /\ nd.avail \in Nat
  BY SlabAssumption DEF NodeExact
<1>1. PICK f : IsChain(f, nd.avail, nd.free, chain, F, 0)
  BY DEF NodeExact
<1>2. IsFiniteSet(F) /\ Cardinality(F) = nd.avail
  BY <1>0, <1>1, ChainSize
<1>3. IsFiniteSet(ObjectsOf(s)) /\ Cardinality(ObjectsOf(s)) = ObjsPerSlab
  BY SlabSize
<1>4. nd.avail = 0 <=> F = {}
  BY <1>2, FS_EmptySet
<1>5. nd.avail = ObjsPerSlab <=> F = ObjectsOf(s)
  <2>1. F \in SUBSET ObjectsOf(s)
    OBVIOUS
  <2>2. Cardinality(ObjectsOf(s)) = Cardinality(F) => ObjectsOf(s) = F
    BY <1>3, <2>1, FS_Subset
  <2> QED BY <1>2, <1>3, <2>2
<1>6. nd.avail > 0 => nd.free \in F
  BY <1>0, <1>1 DEF IsChain
<1> QED BY <1>0, <1>2, <1>4, <1>5, <1>6

(* The list of a slab with a objects available. *)
LevelOf(a) == IF a = ObjsPerSlab THEN "unused" ELSE IF a = 0 THEN "empty" ELSE "in_use"
OnLists(nd, X) == [l \in List |-> {x \in X : LevelOf(nd[x].avail) = l}]

(* The slabs X are on the lists they belong on, and their chains are exact. *)
SlabsExact(m, X, chain, U) ==
  /\ X \in SUBSET Slab
  /\ AreRings(m, OnLists(m.node, X))
  /\ \A x \in X : NodeExact(m.node[x], x, chain, U)

(* The available objects of one node change. *)
WithObjects(nd, y, a, v) == [nd EXCEPT ![y].avail = a, ![y].free = v]

(* Setting avail and free of a slab node leaves its links and the other     *)
(* nodes alone.                                                             *)
LEMMA SetObjects ==
  ASSUME NEW nd \in [Slab -> Node], NEW y \in Slab, NEW a \in Int, NEW v \in Int
  PROVE  /\ WithObjects(nd, y, a, v) \in [Slab -> Node]
         /\ \A x \in Slab :
              /\ WithObjects(nd, y, a, v)[x].next = nd[x].next
              /\ WithObjects(nd, y, a, v)[x].prev = nd[x].prev
              /\ WithObjects(nd, y, a, v)[x].ok = nd[x].ok
              /\ WithObjects(nd, y, a, v)[x].avail = IF x = y THEN a ELSE nd[x].avail
              /\ WithObjects(nd, y, a, v)[x].free = IF x = y THEN v ELSE nd[x].free
BY DEF Node, WithObjects

(* The rings do not depend on the objects. *)
LEMMA RingsObjects ==
  ASSUME NEW m, NEW M, AreRings(m, M), NEW nd \in [Slab -> Node],
         \A x \in Slab : nd[x].next = m.node[x].next /\ nd[x].prev = m.node[x].prev
  PROVE  AreRings([list |-> m.list, node |-> nd], M)
<1> DEFINE r == [list |-> m.list, node |-> nd]
<1>1. r \in ListPair /\ r.list = m.list /\ r.node = nd /\ M \in [List -> SUBSET Slab]
  BY DEF AreRings, ListPair
<1>2. ASSUME NEW l \in List
      PROVE  IsRing(nd, m.list[l], M[l])
  <2>1. IsRing(m.node, m.list[l], M[l]) /\ \A x \in M[l] : nd[x].next = m.node[x].next /\ nd[x].prev = m.node[x].prev
    BY <1>1 DEF AreRings
  <2> QED BY <2>1, RingLinks
<1> HIDE DEF r
<1>3. AreRings(r, M)
  BY <1>1, <1>2 DEF AreRings
<1> QED BY <1>3 DEF r

(* A node that keeps its objects keeps its chain. *)
LEMMA NodeLinks ==
  ASSUME NEW s, NEW nd1, NEW nd2, NEW c, NEW d, NEW U, NEW V, NodeExact(nd1, s, c, U),
         nd2.avail = nd1.avail, nd2.free = nd1.free, nd2.ok = nd1.ok,
         ObjectsOf(s) \ V = ObjectsOf(s) \ U, \A o \in ObjectsOf(s) \ U : d[o] = c[o]
  PROVE  NodeExact(nd2, s, d, V)
<1>1. PICK f : IsChain(f, nd1.avail, nd1.free, c, ObjectsOf(s) \ U, 0)
  BY DEF NodeExact
<1>2. nd1.avail \in Nat
  BY SlabAssumption DEF NodeExact
<1>3. IsChain(f, nd1.avail, nd1.free, d, ObjectsOf(s) \ U, 0)
  BY <1>1, <1>2, ChainLinks
<1> QED BY <1>3 DEF NodeExact

(* Rings of the right slabs are the lists. *)
LEMMA ListsExact ==
  ASSUME NEW m, NEW M, AreRings(m, M), NEW X \in SUBSET Slab, NEW chain, NEW U,
         \A x \in X : NodeExact(m.node[x], x, chain, U),
         \A l \in List : M[l] = {x \in X : LevelOf(m.node[x].avail) = l}
  PROVE  SlabsExact(m, X, chain, U)
<1>1. M \in [List -> SUBSET Slab]
  BY DEF AreRings
<1>2. M = OnLists(m.node, X)
  BY <1>1 DEF OnLists
<1> QED BY <1>2 DEF SlabsExact

(* alloc takes the first free object of slab s, the first of the in-use     *)
(* list: the object is no client's, the other chains are left alone, and    *)
(* the slab ends on the list it belongs on, also when it came from the      *)
(* unused list and holds a single object.                                   *)
LEMMA TakeKeeps ==
  ASSUME NEW m, NEW M, AreRings(m, M), NEW X \in SUBSET Slab, NEW chain, NEW U,
         \A x \in X : NodeExact(m.node[x], x, chain, U),
         NEW s \in X, m.node[s].avail > 0,
         \A l \in List : M[l] = {x \in X \ {s} : LevelOf(m.node[x].avail) = l}
                                  \cup (IF l = "in_use" THEN {s} ELSE {}),
         chain[m.node[s].free] \in Int,
         NEW d, \A o \in Obj : o # m.node[s].free => d[o] = chain[o]
  PROVE  /\ m.node[s].free \in ObjectsOf(s) \ U
         /\ SlabsExact(Take(m, s, chain), X, d, U \cup {m.node[s].free})
<1> DEFINE o == m.node[s].free
           a == m.node[s].avail
           nd == WithObjects(m.node, s, a - 1, chain[o])
           m2 == [list |-> m.list, node |-> nd]
           V == U \cup {o}
<1>0. m.node \in [Slab -> Node] /\ s \in Slab /\ M \in [List -> SUBSET Slab]
      /\ m = [list |-> m.list, node |-> m.node]
  BY DEF AreRings, ListPair
<1>1. NodeExact(m.node[s], s, chain, U)
  OBVIOUS
<1>2. a \in 1 .. ObjsPerSlab /\ o \in ObjectsOf(s) \ U
  <2> DEFINE n == m.node[s]
  <2>1. NodeExact(n, s, chain, U) /\ n.avail > 0
    BY <1>1
  <2> HIDE DEF n
  <2>2. n.avail \in 0 .. ObjsPerSlab /\ n.free \in ObjectsOf(s) \ U
    BY <1>0, <2>1, NodeFacts
  <2>3. n.avail \in 1 .. ObjsPerSlab
    BY <2>1, <2>2, SlabAssumption
  <2> QED BY <2>2, <2>3 DEF n
<1>3. o \in Obj /\ SlabOf(o) = s
  BY <1>0, <1>2, ObjectOfSlab
<1>4. /\ nd \in [Slab -> Node]
      /\ \A x \in Slab :
           /\ nd[x].next = m.node[x].next /\ nd[x].prev = m.node[x].prev /\ nd[x].ok = m.node[x].ok
           /\ nd[x].avail = IF x = s THEN a - 1 ELSE m.node[x].avail
           /\ nd[x].free = IF x = s THEN chain[o] ELSE m.node[x].free
  <2>1. m.node \in [Slab -> Node] /\ s \in Slab /\ a - 1 \in Int /\ chain[o] \in Int
    BY <1>0, <1>2
  <2> DEFINE b == a - 1
             v == chain[o]
  <2> HIDE DEF a, o
  <2>2. b \in Int /\ v \in Int
    BY <2>1
  <2> HIDE DEF b, v
  <2>3. /\ WithObjects(m.node, s, b, v) \in [Slab -> Node]
        /\ \A x \in Slab :
             /\ WithObjects(m.node, s, b, v)[x].next = m.node[x].next
             /\ WithObjects(m.node, s, b, v)[x].prev = m.node[x].prev
             /\ WithObjects(m.node, s, b, v)[x].ok = m.node[x].ok
             /\ WithObjects(m.node, s, b, v)[x].avail = IF x = s THEN b ELSE m.node[x].avail
             /\ WithObjects(m.node, s, b, v)[x].free = IF x = s THEN v ELSE m.node[x].free
    BY <2>1, <2>2, SetObjects
  <2> QED BY <2>3 DEF b, v
<1>5. Take(m, s, chain) = IF a - 1 = 0 THEN Move(m2, s, "in_use", "empty") ELSE m2
  <2> DEFINE w == [m EXCEPT !.node = [@ EXCEPT ![s].avail = a - 1, ![s].free = chain[o]]]
  <2>1. w = m2
    BY <1>0 DEF WithObjects
  <2>2. m2.node[s].avail = a - 1
    BY <1>0, <1>4
  <2>3. Take(m, s, chain) = IF w.node[s].avail = 0 THEN Move(w, s, "in_use", "empty") ELSE w
    BY Zenon DEF Take
  <2> HIDE DEF m2, w
  <2> QED BY <2>1, <2>2, <2>3
<1> HIDE DEF nd
<1>6. ASSUME NEW x \in X
      PROVE  NodeExact(nd[x], x, d, V)
  <2>1. x \in Slab /\ NodeExact(m.node[x], x, chain, U) /\ \A y \in ObjectsOf(x) : y \in Obj /\ SlabOf(y) = x
    BY ObjectOfSlab
  <2>2. CASE x # s
    <3>1. nd[x].avail = m.node[x].avail /\ nd[x].free = m.node[x].free /\ nd[x].ok = m.node[x].ok
      BY <1>4, <2>1, <2>2
    <3>2. ObjectsOf(x) \ V = ObjectsOf(x) \ U /\ \A y \in ObjectsOf(x) \ U : d[y] = chain[y]
      BY <1>3, <2>1, <2>2
    <3> HIDE DEF V
    <3> QED BY <2>1, <3>1, <3>2, NodeLinks
  <2>3. CASE x = s
    <3>1. PICK f : IsChain(f, a, o, chain, ObjectsOf(s) \ U, 0)
      BY <1>1 DEF NodeExact
    <3>2. a \in Nat /\ a > 0 /\ \A y \in ObjectsOf(s) \ U : y # o => d[y] = chain[y]
      BY <1>2, <2>1, <2>3, SlabAssumption
    <3> DEFINE F == ObjectsOf(s) \ U
    <3> HIDE DEF a, o, F
    <3>3. \E g : IsChain(g, a - 1, chain[o], d, F \ {o}, 0)
      BY <3>1, <3>2, ChainTake DEF F
    <3>4. F \ {o} = ObjectsOf(s) \ V
      BY DEF F
    <3>5. nd[s].avail = a - 1 /\ nd[s].free = chain[o] /\ nd[s].ok
      BY <1>0, <1>1, <1>4 DEF NodeExact, a, o
    <3>6. a - 1 \in 0 .. ObjsPerSlab
      BY <1>2, SlabAssumption
    <3> HIDE DEF V
    <3> QED BY <2>3, <3>3, <3>4, <3>5, <3>6 DEF NodeExact
  <2> QED BY <2>2, <2>3
<1>7. AreRings(m2, M) /\ m2.node = nd
  BY <1>4, RingsObjects
<1>8. CASE a - 1 = 0
  <2> DEFINE r == Move(m2, s, "in_use", "empty")
             M2 == [M EXCEPT !["in_use"] = @ \ {s}, !["empty"] = @ \cup {s}]
  <2>1. s \in M["in_use"] /\ "in_use" \in List /\ "empty" \in List
    BY DEF List
  <2> HIDE DEF m2
  <2>2. AreRings(r, M2) /\ SameObjects(nd, r.node)
    BY <1>7, <2>1, MoveRings
  <2>3. \A x \in X : r.node[x].avail = nd[x].avail /\ r.node[x].free = nd[x].free /\ r.node[x].ok = nd[x].ok
    BY <2>2 DEF SameObjects
  <2> HIDE DEF r
  <2>4. ASSUME NEW x \in X
        PROVE  NodeExact(r.node[x], x, d, V)
    BY <1>6, <2>3, NodeLinks
  <2>5. ASSUME NEW l \in List
        PROVE  M2[l] = {x \in X : LevelOf(r.node[x].avail) = l}
    <3>1. \A x \in X : LevelOf(r.node[x].avail) = IF x = s THEN "empty" ELSE LevelOf(m.node[x].avail)
      <4>1. \A x \in X : r.node[x].avail = IF x = s THEN 0 ELSE m.node[x].avail
        BY <1>4, <1>8, <2>3
      <4>2. LevelOf(0) = "empty"
        BY SlabAssumption DEF LevelOf
      <4> QED BY <4>1, <4>2
    <3>2. s \notin {x \in X \ {s} : LevelOf(m.node[x].avail) = l}
      OBVIOUS
    <3>3. M2[l] = IF l = "in_use" THEN M[l] \ {s} ELSE IF l = "empty" THEN M[l] \cup {s} ELSE M[l]
      BY <1>0, <2>1
    <3> HIDE DEF M2
    <3> QED BY <3>1, <3>3
  <2> HIDE DEF M2, V
  <2>6. SlabsExact(r, X, d, V)
    BY <2>2, <2>4, <2>5, ListsExact
  <2>7. Take(m, s, chain) = r
    BY <1>5, <1>8 DEF r
  <2> QED BY <1>2, <2>6, <2>7 DEF V
<1>9. CASE a - 1 # 0
  <2>1. ASSUME NEW l \in List
        PROVE  M[l] = {x \in X : LevelOf(nd[x].avail) = l}
    <3>1. LevelOf(nd[s].avail) = "in_use"
      <4>1. nd[s].avail = a - 1
        BY <1>0, <1>4
      <4> HIDE DEF a
      <4>2. a - 1 # 0 /\ a - 1 # ObjsPerSlab
        BY <1>2, <1>9, SlabAssumption
      <4> QED BY <4>1, <4>2 DEF LevelOf
    <3>2. \A x \in X \ {s} : nd[x].avail = m.node[x].avail
      BY <1>4
    <3> QED BY <3>1, <3>2
  <2> HIDE DEF m2, V
  <2>2. SlabsExact(m2, X, d, V)
    BY <1>6, <1>7, <2>1, ListsExact
  <2>3. Take(m, s, chain) = m2
    BY <1>5, <1>9
  <2> QED BY <1>2, <2>2, <2>3 DEF V
<1> QED BY <1>8, <1>9

(* free puts object o before the chain of its slab s; the slab leaves the   *)
(* empty list with its first object and goes to the unused list with its    *)
(* last.                                                                    *)
LEMMA FreeKeeps ==
  ASSUME TypeOK, SlabsExact(Lists, mine, next, used), NEW o \in used, SlabOf(o) \in mine,
         NEW d, d[o] = node[SlabOf(o)].free, \A y \in Obj : y # o => d[y] = next[y]
  PROVE  /\ node[SlabOf(o)].ok /\ node[SlabOf(o)].avail < ObjsPerSlab
         /\ SlabsExact(FreeLists(SlabOf(o), o), mine, d, used \ {o})
<1> DEFINE s == SlabOf(o)
           a == node[s].avail
           X == mine
           M == OnLists(node, X)
           U == used
           V == used \ {o}
           m1 == IF node[s].avail = 0 THEN Move(Lists, s, "empty", "in_use") ELSE Lists
<1>0. /\ node \in [Slab -> Node] /\ o \in Obj /\ o \in Int /\ X \subseteq Slab /\ s \in Slab /\ s \in X
      /\ Lists.node = node /\ Lists.list = list /\ Lists = [list |-> list, node |-> node]
      /\ o \in ObjectsOf(s)
  BY SlabOfObject, SlabAssumption DEF TypeOK, Lists, Obj
<1>1. AreRings(Lists, M) /\ \A x \in X : NodeExact(node[x], x, next, U)
  BY <1>0 DEF SlabsExact
<1>2. a \in 0 .. ObjsPerSlab - 1 /\ node[s].ok /\ a \in Int
  <2> DEFINE n == node[s]
  <2>1. NodeExact(n, s, next, U)
    BY <1>0, <1>1
  <2> HIDE DEF n
  <2>2. n.avail \in 0 .. ObjsPerSlab /\ (n.avail = ObjsPerSlab <=> ObjectsOf(s) \cap U = {}) /\ n.ok
    BY <1>0, <2>1, NodeFacts DEF NodeExact
  <2>3. n.avail # ObjsPerSlab
    BY <1>0, <2>2
  <2> QED BY <2>2, <2>3, SlabAssumption DEF n
<1>3. \A l \in List : M[l] = {x \in X : LevelOf(node[x].avail) = l}
  BY DEF OnLists
<1>4. /\ "in_use" \in List /\ "empty" \in List /\ "unused" \in List
      /\ LevelOf(a) = IF a = 0 THEN "empty" ELSE "in_use"
  BY <1>2, SlabAssumption DEF List, LevelOf
<1> HIDE DEF M, s
<1>5. PICK M1 : /\ AreRings(m1, M1) /\ SameObjects(node, m1.node) /\ m1.node \in [Slab -> Node]
                /\ m1 = [list |-> m1.list, node |-> m1.node]
                /\ \A l \in List : M1[l] = {x \in X \ {s} : LevelOf(node[x].avail) = l}
                                             \cup (IF l = "in_use" THEN {s} ELSE {})
  <2>1. CASE a = 0
    <3> DEFINE M1 == [M EXCEPT !["empty"] = @ \ {s}, !["in_use"] = @ \cup {s}]
    <3>1. s \in M["empty"]
      BY <1>0, <1>3, <1>4, <2>1
    <3>2. m1 = Move(Lists, s, "empty", "in_use")
      BY <2>1
    <3>3. AreRings(m1, M1) /\ SameObjects(node, m1.node)
      <4>1. AreRings(Move(Lists, s, "empty", "in_use"), M1) /\ SameObjects(Lists.node, Move(Lists, s, "empty", "in_use").node)
        BY <1>1, <1>4, <3>1, MoveRings
      <4> QED BY <1>0, <3>2, <4>1
    <3> HIDE DEF m1
    <3>4. \A l \in List : M1[l] = {x \in X \ {s} : LevelOf(node[x].avail) = l}
                                    \cup (IF l = "in_use" THEN {s} ELSE {})
      <4>1. M \in [List -> SUBSET Slab]
        BY <1>1 DEF AreRings
      <4>2. \A l \in List : M1[l] = IF l = "empty" THEN M[l] \ {s} ELSE IF l = "in_use" THEN M[l] \cup {s} ELSE M[l]
        BY <1>4, <4>1
      <4>3. LevelOf(node[s].avail) = "empty"
        BY <1>4, <2>1
      <4> HIDE DEF M1
      <4> QED BY <1>3, <4>2, <4>3
    <3>5. m1.node \in [Slab -> Node] /\ m1 = [list |-> m1.list, node |-> m1.node]
      BY <3>3 DEF AreRings, ListPair
    <3> HIDE DEF M1
    <3> QED BY <3>3, <3>4, <3>5
  <2>2. CASE a # 0
    <3>1. m1 = Lists
      BY <2>2
    <3>2. SameObjects(node, node)
      BY DEF SameObjects
    <3>3. LevelOf(node[s].avail) = "in_use"
      BY <1>4, <2>2
    <3>4. \A l \in List : M[l] = {x \in X \ {s} : LevelOf(node[x].avail) = l}
                                    \cup (IF l = "in_use" THEN {s} ELSE {})
      BY <1>0, <1>3, <3>3
    <3> QED BY <1>0, <1>1, <3>1, <3>2, <3>4
  <2> QED BY <2>1, <2>2
<1> DEFINE nd == WithObjects(m1.node, s, a + 1, o)
           m2 == [list |-> m1.list, node |-> nd]
           w == [m1 EXCEPT !.node = [@ EXCEPT ![s].avail = a + 1, ![s].free = o]]
<1>6. FreeLists(s, o) = IF w.node[s].avail = ObjsPerSlab THEN Move(w, s, "in_use", "unused") ELSE w
  BY Zenon DEF FreeLists
<1> HIDE DEF m1
<1>7. /\ nd \in [Slab -> Node]
      /\ \A x \in Slab :
           /\ nd[x].next = m1.node[x].next /\ nd[x].prev = m1.node[x].prev /\ nd[x].ok = m1.node[x].ok
           /\ nd[x].avail = IF x = s THEN a + 1 ELSE m1.node[x].avail
           /\ nd[x].free = IF x = s THEN o ELSE m1.node[x].free
  <2> DEFINE b == a + 1
             n0 == m1.node
  <2>1. b \in Int /\ n0 \in [Slab -> Node] /\ s \in Slab /\ o \in Int
    BY <1>0, <1>2, <1>5
  <2> HIDE DEF b, n0
  <2>2. /\ WithObjects(n0, s, b, o) \in [Slab -> Node]
        /\ \A x \in Slab :
             /\ WithObjects(n0, s, b, o)[x].next = n0[x].next
             /\ WithObjects(n0, s, b, o)[x].prev = n0[x].prev
             /\ WithObjects(n0, s, b, o)[x].ok = n0[x].ok
             /\ WithObjects(n0, s, b, o)[x].avail = IF x = s THEN b ELSE n0[x].avail
             /\ WithObjects(n0, s, b, o)[x].free = IF x = s THEN o ELSE n0[x].free
    BY <2>1, SetObjects
  <2> QED BY <2>2 DEF b, n0
<1>8. w = m2
  BY <1>5 DEF WithObjects
<1> HIDE DEF nd, w
<1>9. \A x \in X : /\ nd[x].ok = node[x].ok
                   /\ nd[x].avail = IF x = s THEN a + 1 ELSE node[x].avail
                   /\ nd[x].free = IF x = s THEN o ELSE node[x].free
  BY <1>0, <1>5, <1>7 DEF SameObjects
<1>10. ASSUME NEW x \in X
       PROVE  NodeExact(nd[x], x, d, V)
  <2>1. x \in Slab /\ NodeExact(node[x], x, next, U) /\ \A y \in ObjectsOf(x) : y \in Obj /\ SlabOf(y) = x
    BY <1>0, <1>1, ObjectOfSlab
  <2>2. CASE x # s
    <3>1. nd[x].avail = node[x].avail /\ nd[x].free = node[x].free /\ nd[x].ok = node[x].ok
      BY <1>9, <2>2
    <3>2. ObjectsOf(x) \ V = ObjectsOf(x) \ U /\ \A y \in ObjectsOf(x) \ U : d[y] = next[y]
      BY <2>1, <2>2 DEF s
    <3> HIDE DEF V
    <3> QED BY <2>1, <3>1, <3>2, NodeLinks
  <2>3. CASE x = s
    <3> DEFINE F == ObjectsOf(s) \ U
    <3>1. PICK f : IsChain(f, a, node[s].free, next, F, 0)
      BY <2>1, <2>3 DEF NodeExact
    <3>2. a \in Nat /\ d[o] = node[s].free /\ o \notin F /\ \A y \in F : d[y] = next[y]
      BY <1>2, <2>1, <2>3, SlabAssumption DEF s
    <3>3. F \cup {o} = ObjectsOf(s) \ V
      BY <1>0
    <3> HIDE DEF a, F, V
    <3>4. \E g : IsChain(g, a + 1, o, d, F \cup {o}, 0)
      BY <3>1, <3>2, ChainPut
    <3>5. nd[s].avail = a + 1 /\ nd[s].free = o /\ nd[s].ok
      BY <1>0, <1>2, <1>9 DEF a
    <3>6. a + 1 \in 0 .. ObjsPerSlab
      BY <1>2, SlabAssumption
    <3> QED BY <2>3, <3>3, <3>4, <3>5, <3>6 DEF NodeExact
  <2> QED BY <2>2, <2>3
<1>11. AreRings(m2, M1) /\ m2.node = nd
  BY <1>5, <1>7, RingsObjects
<1>12. m2.node[s].avail = a + 1
  BY <1>0, <1>9, <1>11
<1>13. CASE a + 1 = ObjsPerSlab
  <2> DEFINE r == Move(m2, s, "in_use", "unused")
             M2 == [M1 EXCEPT !["in_use"] = @ \ {s}, !["unused"] = @ \cup {s}]
  <2>1. s \in M1["in_use"]
    BY <1>4, <1>5
  <2> HIDE DEF m2
  <2>2. AreRings(r, M2) /\ SameObjects(nd, r.node)
    BY <1>4, <1>11, <2>1, MoveRings
  <2>3. \A x \in X : r.node[x].avail = nd[x].avail /\ r.node[x].free = nd[x].free /\ r.node[x].ok = nd[x].ok
    BY <1>0, <2>2 DEF SameObjects
  <2> HIDE DEF r
  <2>4. ASSUME NEW x \in X
        PROVE  NodeExact(r.node[x], x, d, V)
    BY <1>10, <2>3, NodeLinks
  <2>5. ASSUME NEW l \in List
        PROVE  M2[l] = {x \in X : LevelOf(r.node[x].avail) = l}
    <3>1. \A x \in X : LevelOf(r.node[x].avail) = IF x = s THEN "unused" ELSE LevelOf(node[x].avail)
      <4>1. \A x \in X : r.node[x].avail = IF x = s THEN ObjsPerSlab ELSE node[x].avail
        BY <1>9, <1>13, <2>3
      <4>2. LevelOf(ObjsPerSlab) = "unused"
        BY DEF LevelOf
      <4> QED BY <4>1, <4>2
    <3>2. M1 \in [List -> SUBSET Slab]
      BY <1>5 DEF AreRings
    <3>3. M2[l] = IF l = "in_use" THEN M1[l] \ {s} ELSE IF l = "unused" THEN M1[l] \cup {s} ELSE M1[l]
      BY <1>4, <3>2
    <3> HIDE DEF M2
    <3> QED BY <1>0, <1>5, <3>1, <3>3
  <2> HIDE DEF M2, V
  <2>6. X \in SUBSET Slab
    BY <1>0
  <2>7. SlabsExact(r, X, d, V)
    BY <2>2, <2>4, <2>5, <2>6, ListsExact
  <2>8. FreeLists(s, o) = r
    BY <1>6, <1>8, <1>12, <1>13 DEF r
  <2>9. a < ObjsPerSlab
    BY <1>2, SlabAssumption
  <2> QED BY <1>2, <2>7, <2>8, <2>9 DEF V, s
<1>14. CASE a + 1 # ObjsPerSlab
  <2>1. ASSUME NEW l \in List
        PROVE  M1[l] = {x \in X : LevelOf(nd[x].avail) = l}
    <3>1. LevelOf(nd[s].avail) = "in_use"
      <4>1. nd[s].avail = a + 1
        BY <1>0, <1>9
      <4>2. a + 1 # 0 /\ a + 1 # ObjsPerSlab
        BY <1>2, <1>14, SlabAssumption
      <4> QED BY <4>1, <4>2 DEF LevelOf
    <3>2. \A x \in X \ {s} : nd[x].avail = node[x].avail
      BY <1>9
    <3> QED BY <1>0, <1>5, <3>1, <3>2
  <2> HIDE DEF m2, V
  <2>2. X \in SUBSET Slab
    BY <1>0
  <2>3. SlabsExact(m2, X, d, V)
    BY <1>10, <1>11, <2>1, <2>2, ListsExact
  <2>4. FreeLists(s, o) = m2
    BY <1>6, <1>8, <1>12, <1>14
  <2>5. a < ObjsPerSlab
    BY <1>2, SlabAssumption
  <2> QED BY <1>2, <2>3, <2>4, <2>5 DEF V, s
<1> QED BY <1>13, <1>14

-----------------------------------------------------------------------------
(*****************************************************************************)
(* The steps keep the invariant.                                             *)
(*****************************************************************************)

(* The objects of the slabs X that no client has. *)
Avail(X, U) == {o \in Obj : SlabOf(o) \in X} \ U

(* The sets the statistics count are finite. *)
LEMMA Finite ==
  /\ IsFiniteSet(Slab) /\ IsFiniteSet(Obj)
  /\ \A X \in SUBSET Slab : IsFiniteSet(X)
  /\ \A U \in SUBSET Obj : IsFiniteSet(U)
  /\ \A X, U : IsFiniteSet(Avail(X, U))
<1>1. IsFiniteSet(Slab)
  <2>1. 1 \in Int /\ NumSlabs \in Int
    BY SlabAssumption
  <2> QED BY <2>1, FS_Interval DEF Slab
<1>2. IsFiniteSet(Obj)
  <2>1. 1 \in Int /\ NumSlabs * ObjsPerSlab \in Int
    BY SlabAssumption
  <2> QED BY <2>1, FS_Interval DEF Obj
<1>3. \A X \in SUBSET Slab : IsFiniteSet(X)
  BY <1>1, FS_Subset
<1>4. \A U \in SUBSET Obj : IsFiniteSet(U)
  BY <1>2, FS_Subset
<1>5. \A X, U : Avail(X, U) \in SUBSET Obj
  BY DEF Avail
<1> QED BY <1>1, <1>2, <1>3, <1>4, <1>5

(* Between calls the invariant says that the lists and the chains are exact. *)
LEMMA IdleExact ==
  ASSUME IInv, ~walk.on
  PROVE  SlabsExact(Lists, mine, next, used)
<1>1. ~Begun /\ Intact = mine
  BY DEF Begun, Intact
<1>2. Members = OnLists(node, mine)
  BY <1>1 DEF Members, OnLists, ListOf, LevelOf
<1>3. Lists.node = node /\ Lists.list = list
  BY DEF Lists
<1>4. Lists \in ListPair /\ Members \in [List -> SUBSET Slab] /\ mine \in SUBSET Slab
  BY <1>1 DEF IInv, TypeOK, Lists, ListPair, Members
<1>5. \A l \in List : IsRing(node, list[l], Members[l])
  BY <1>1 DEF IInv
<1>6. \A l, k \in List : l # k => Members[l] \cap Members[k] = {}
  BY DEF Members
<1>7. AreRings(Lists, Members)
  BY <1>3, <1>4, <1>5, <1>6 DEF AreRings
<1>8. \A s \in mine : NodeExact(node[s], s, next, used)
  BY <1>1 DEF IInv
<1> QED BY <1>2, <1>3, <1>4, <1>7, <1>8 DEF SlabsExact

(* And that is the invariant after a call. *)
LEMMA IdleInvariant ==
  ASSUME TypeOK', walk'.on = FALSE, SlabsOwned', \A o \in used' : next'[o] = Poison,
         SlabsExact([list |-> list', node |-> node'], mine', next', used'),
         Counted', AssertionsHold'
  PROVE  IInv'
<1> DEFINE m == [list |-> list', node |-> node']
<1>1. ~Begun' /\ Intact' = mine'
  BY DEF Begun, Intact
<1>2. Members' = OnLists(node', mine')
  BY <1>1 DEF Members, OnLists, ListOf, LevelOf
<1>3. m.node = node' /\ m.list = list'
  OBVIOUS
<1> HIDE DEF m
<1>4. AreRings(m, OnLists(node', mine')) /\ \A x \in mine' : NodeExact(node'[x], x, next', used')
  BY <1>3 DEF SlabsExact, m
<1>5. \A l \in List : IsRing(node', list'[l], Members'[l])
  BY <1>2, <1>3, <1>4 DEF AreRings
<1> QED BY <1>1, <1>4, <1>5 DEF IInv

(* The lists m are exact for the slabs X, the manager's after the call, of  *)
(* which the first in-use one has an object available; `new` counts the     *)
(* slabs allocated for the call.                                            *)
Ready(m, M, X, chain, new) ==
  /\ X \in SUBSET Slab /\ new \in {0, 1} /\ AreRings(m, M)
  /\ \A x \in X : NodeExact(m.node[x], x, chain, used)
  /\ m.list["in_use"] \in X /\ m.node[m.list["in_use"]].avail > 0
  /\ \A l \in List : M[l] = {x \in X \ {m.list["in_use"]} : LevelOf(m.node[x].avail) = l}
                            \cup (IF l = "in_use" THEN {m.list["in_use"]} ELSE {})
  /\ chain \in [Obj -> Obj \cup {0, Poison}] /\ \A o \in used : chain[o] = Poison
  /\ mine \subseteq X /\ mine' = X /\ pages' \in SUBSET Slab /\ X \cap pages' = {}
  /\ slabs_allocated + new = Cardinality(X)
  /\ objects_available + new * ObjsPerSlab = Cardinality(Avail(X, used))

(* A client gets an object that no client has. *)
Gives == \E o \in Obj \ used : used' = used \cup {o} /\ objects_allocated' = objects_allocated + 1

(* alloc, once the slab to take from is the first of the in-use list of m:  *)
(* it fails no assertion, keeps the invariant, and hands out an object that *)
(* no client has.                                                           *)
LEMMA TakeObjectInvariant ==
  ASSUME IInv, Idle, NEW m, NEW M, NEW X, NEW chain, NEW new, Ready(m, M, X, chain, new),
         TakeObject(m, chain, new)
  PROVE  IInv' /\ Gives
<1> USE DEF Ready
<1> DEFINE s == m.list["in_use"]
           o == m.node[s].free
           r == Take(m, s, chain)
           d == [chain EXCEPT ![o] = Poison]
           V == used \cup {o}
<1>0. TypeOK /\ SlabsOwned /\ Counted /\ AssertionsHold /\ walk.on = FALSE /\ panic = "none"
  BY DEF IInv, Idle, TypeOK
<1>1. s \in Slab /\ NodeExact(m.node[s], s, chain, used) /\ m.node[s].ok
  BY DEF NodeExact
<1>2. o \in ObjectsOf(s) \ used
  <2> DEFINE n == m.node[s]
  <2>1. NodeExact(n, s, chain, used) /\ n.avail > 0
    BY <1>1
  <2> HIDE DEF n
  <2>2. n.free \in ObjectsOf(s) \ used
    BY <1>1, <2>1, NodeFacts
  <2> QED BY <2>2 DEF n
<1>3. o \in Obj /\ SlabOf(o) = s /\ o # 0 /\ o \notin used
  <2>1. o \in Obj /\ SlabOf(o) = s
    BY <1>1, <1>2, ObjectOfSlab
  <2> QED BY <1>2, <2>1, SlabAssumption DEF Obj
<1>4. /\ list' = r.list /\ node' = r.node /\ next' = d /\ used' = V
      /\ slabs_allocated' = slabs_allocated + new /\ objects_allocated' = objects_allocated + 1
      /\ objects_available' = objects_available + new * ObjsPerSlab - 1
      /\ walk' = walk /\ panic' = panic
  BY <1>1, <1>3 DEF TakeObject
<1>5. SlabsExact(r, X, d, V)
  <2>1. chain[o] \in Int
    BY <1>3, SlabAssumption DEF Obj, Poison
  <2>2. \A y \in Obj : y # o => d[y] = chain[y]
    OBVIOUS
  <2> HIDE DEF d
  <2>3. /\ s \in X /\ m.node[s].avail > 0
        /\ \A l \in List : M[l] = {x \in X \ {s} : LevelOf(m.node[x].avail) = l}
                                 \cup (IF l = "in_use" THEN {s} ELSE {})
    OBVIOUS
  <2>4. chain[m.node[s].free] \in Int /\ \A y \in Obj : y # m.node[s].free => d[y] = chain[y]
    BY <2>1, <2>2
  <2> HIDE DEF s
  <2>5. SlabsExact(Take(m, s, chain), X, d, used \cup {m.node[s].free})
    BY <2>3, <2>4, TakeKeeps
  <2> QED BY <2>5
<1>6. d \in [Obj -> Obj \cup {0, Poison}] /\ \A y \in V : d[y] = Poison
  BY <1>0, <1>3 DEF TypeOK
<1> HIDE DEF d, r
<1>7. r \in ListPair /\ r = [list |-> list', node |-> node']
  BY <1>4, <1>5 DEF SlabsExact, AreRings, ListPair
<1>8. V \in SUBSET Obj /\ used \in SUBSET Obj
  BY <1>0, <1>3 DEF TypeOK
<1>9. slabs_allocated' \in Int /\ objects_allocated' \in Int /\ objects_available' \in Int
  <2>1. new \in Int /\ new * ObjsPerSlab \in Int
    BY SlabAssumption
  <2> QED BY <1>0, <1>4, <2>1 DEF TypeOK
<1>10. TypeOK'
  BY <1>0, <1>4, <1>6, <1>7, <1>8, <1>9 DEF TypeOK, ListPair
<1>11. SlabsOwned'
  BY <1>0, <1>3, <1>4 DEF SlabsOwned
<1>12. Counted'
  <2>1. IsFiniteSet(used) /\ IsFiniteSet(Avail(X, used))
    BY <1>8, Finite
  <2>2. Cardinality(V) = Cardinality(used) + 1
    BY <1>3, <2>1, FS_AddElement
  <2>3. Avail(X, V) = Avail(X, used) \ {o} /\ o \in Avail(X, used)
    BY <1>3 DEF Avail
  <2> DEFINE A == Avail(X, used)
             k == new * ObjsPerSlab
  <2> HIDE DEF A, V, o, k
  <2>4. Cardinality(A \ {o}) = Cardinality(A) - 1
    BY <2>1, <2>3, FS_RemoveElement DEF A
  <2>5. objects_available + k = Cardinality(A) /\ objects_available' = objects_available + k - 1
    BY <1>4 DEF A, k
  <2>6. objects_available \in Int /\ k \in Int /\ Cardinality(A) \in Int
    BY <1>0, <2>1, FS_CardinalityType, SlabAssumption DEF TypeOK, A, k
  <2>7. objects_available' = Cardinality(Avail(X, V))
    BY <2>3, <2>4, <2>5, <2>6 DEF A
  <2>8. slabs_allocated' = Cardinality(mine') /\ objects_allocated' = Cardinality(used')
    BY <1>0, <1>4, <2>2 DEF Counted
  <2>9. objects_available' = Cardinality({y \in Obj : SlabOf(y) \in mine'} \ used')
    BY <1>4, <2>7 DEF Avail
  <2> QED BY <2>8, <2>9 DEF Counted
<1>13. AssertionsHold'
  BY <1>0, <1>4 DEF AssertionsHold
<1>14. SlabsExact([list |-> list', node |-> node'], mine', next', used')
  BY <1>4, <1>5, <1>7
<1>15. IInv'
  BY <1>0, <1>4, <1>6, <1>10, <1>11, <1>12, <1>13, <1>14, IdleInvariant
<1> QED BY <1>3, <1>4, <1>15 DEF Gives

(* alloc from an in-use slab. *)
LEMMA AllocInUseInvariant ==
  ASSUME IInv, AllocInUse
  PROVE  IInv' /\ Gives
<1> DEFINE M == OnLists(node, mine)
           s == list["in_use"]
<1>0. /\ TypeOK /\ SlabsOwned /\ Counted /\ Idle /\ ~walk.on /\ s # 0 /\ mine' = mine /\ pages' = pages
      /\ TakeObject(Lists, next, 0) /\ Lists.node = node /\ Lists.list = list
      /\ \A o \in used : next[o] = Poison
  BY DEF IInv, AllocInUse, Idle, Lists
<1>1. mine \in SUBSET Slab /\ AreRings(Lists, M) /\ \A x \in mine : NodeExact(Lists.node[x], x, next, used)
  BY <1>0, IdleExact DEF SlabsExact
<1>2. \A l \in List : M[l] = {x \in mine : LevelOf(node[x].avail) = l}
  BY DEF OnLists
<1> HIDE DEF M
<1>3. s \in M["in_use"]
  BY <1>0, <1>1 DEF AreRings, IsRing, List
<1>4. s \in mine /\ LevelOf(node[s].avail) = "in_use"
  BY <1>2, <1>3 DEF List
<1>5. node[s].avail > 0
  <2>1. node[s].avail \in 0 .. ObjsPerSlab
    BY <1>0, <1>1, <1>4 DEF NodeExact
  <2>2. node[s].avail # 0
    BY <1>4, SlabAssumption DEF LevelOf
  <2> QED BY <2>1, <2>2, SlabAssumption
<1>6. \A l \in List : M[l] = {x \in mine \ {Lists.list["in_use"]} : LevelOf(Lists.node[x].avail) = l}
                               \cup (IF l = "in_use" THEN {Lists.list["in_use"]} ELSE {})
  <2>1. \A l \in List : M[l] = {x \in mine \ {s} : LevelOf(node[x].avail) = l} \cup (IF l = "in_use" THEN {s} ELSE {})
    BY <1>2, <1>4
  <2> QED BY <1>0, <2>1
<1>7. next \in [Obj -> Obj \cup {0, Poison}] /\ pages' \in SUBSET Slab /\ mine \cap pages' = {}
  BY <1>0 DEF TypeOK, SlabsOwned
<1>8. slabs_allocated + 0 = Cardinality(mine) /\ objects_available + 0 * ObjsPerSlab = Cardinality(Avail(mine, used))
  BY <1>0, SlabAssumption DEF Counted, Avail, TypeOK
<1>9. Lists.list["in_use"] \in mine /\ Lists.node[Lists.list["in_use"]].avail > 0
  BY <1>0, <1>4, <1>5
<1> DEFINE m == Lists
           i == 0
<1>10. i \in {0, 1} /\ TakeObject(m, next, i) /\ slabs_allocated + i = Cardinality(mine)
       /\ objects_available + i * ObjsPerSlab = Cardinality(Avail(mine, used))
  BY <1>0, <1>8
<1> HIDE DEF m, i
<1>11. Ready(m, M, mine, next, i)
  BY <1>0, <1>1, <1>6, <1>7, <1>9, <1>10 DEF Ready, m
<1> QED BY <1>0, <1>10, <1>11, TakeObjectInvariant

(* alloc from the first unused slab: it becomes the in-use list. *)
LEMMA AllocUnusedInvariant ==
  ASSUME IInv, AllocUnused
  PROVE  IInv' /\ Gives
<1> DEFINE M == OnLists(node, mine)
           s == list["unused"]
           m == Move(Lists, s, "unused", "in_use")
           M2 == [M EXCEPT !["unused"] = @ \ {s}, !["in_use"] = @ \cup {s}]
           i == 0
<1>0. /\ TypeOK /\ SlabsOwned /\ Counted /\ Idle /\ ~walk.on /\ s # 0 /\ mine' = mine /\ pages' = pages
      /\ list["in_use"] = 0 /\ TakeObject(m, next, i) /\ Lists.node = node /\ Lists.list = list
      /\ \A o \in used : next[o] = Poison
  BY DEF IInv, AllocUnused, Idle, Lists
<1>1. mine \in SUBSET Slab /\ AreRings(Lists, M) /\ \A x \in mine : NodeExact(node[x], x, next, used)
  BY <1>0, IdleExact DEF SlabsExact
<1>2. \A l \in List : M[l] = {x \in mine : LevelOf(node[x].avail) = l}
  BY DEF OnLists
<1> HIDE DEF M
<1>3. /\ s \in M["unused"] /\ M["in_use"] = {} /\ M \in [List -> SUBSET Slab]
      /\ "unused" \in List /\ "in_use" \in List
  BY <1>0, <1>1, SlabAssumption DEF AreRings, IsRing, List, Slab
<1>4. s \in mine /\ LevelOf(node[s].avail) = "unused" /\ node[s].avail = ObjsPerSlab /\ s \in Slab
  BY <1>1, <1>2, <1>3 DEF LevelOf
<1>5. AreRings(m, M2) /\ SameObjects(node, m.node)
  <2>1. AreRings(Move(Lists, s, "unused", "in_use"), M2)
        /\ SameObjects(Lists.node, Move(Lists, s, "unused", "in_use").node)
    <3> HIDE DEF s
    <3> QED BY <1>1, <1>3, MoveRings
  <2> QED BY <1>0, <2>1
<1>6. \A l \in List : M2[l] = IF l = "in_use" THEN {s} ELSE IF l = "unused" THEN M[l] \ {s} ELSE M[l]
  BY <1>3
<1> HIDE DEF m, M2
<1>7. m.list["in_use"] = s
  <2>1. IsRing(m.node, m.list["in_use"], {s})
    BY <1>3, <1>5, <1>6 DEF AreRings
  <2> QED BY <2>1 DEF IsRing
<1>8. \A x \in mine : m.node[x].avail = node[x].avail /\ m.node[x].free = node[x].free /\ m.node[x].ok = node[x].ok
  BY <1>1, <1>5 DEF SameObjects
<1>9. \A x \in mine : NodeExact(m.node[x], x, next, used)
  BY <1>1, <1>8, NodeLinks
<1>10. \A l \in List : M2[l] = {x \in mine \ {m.list["in_use"]} : LevelOf(m.node[x].avail) = l}
                                \cup (IF l = "in_use" THEN {m.list["in_use"]} ELSE {})
  <2>1. \A l \in List : M2[l] = {x \in mine \ {s} : LevelOf(m.node[x].avail) = l} \cup (IF l = "in_use" THEN {s} ELSE {})
    <3> SUFFICES ASSUME NEW l \in List
                 PROVE  M2[l] = {x \in mine \ {s} : LevelOf(m.node[x].avail) = l} \cup (IF l = "in_use" THEN {s} ELSE {})
      OBVIOUS
    <3>1. {x \in mine \ {s} : LevelOf(m.node[x].avail) = l} = M[l] \ {s}
      BY <1>2, <1>8
    <3>2. l # "unused" => s \notin M[l]
      BY <1>2, <1>4
    <3> HIDE DEF s
    <3> QED BY <1>3, <1>6, <3>1, <3>2
  <2> QED BY <1>7, <2>1
<1>11. next \in [Obj -> Obj \cup {0, Poison}] /\ pages' \in SUBSET Slab /\ mine \cap pages' = {}
  BY <1>0 DEF TypeOK, SlabsOwned
<1>12. slabs_allocated + i = Cardinality(mine) /\ objects_available + i * ObjsPerSlab = Cardinality(Avail(mine, used))
  BY <1>0, SlabAssumption DEF Counted, Avail, TypeOK
<1>13. m.list["in_use"] \in mine /\ m.node[m.list["in_use"]].avail > 0
  BY <1>4, <1>7, <1>8, SlabAssumption
<1>14. i \in {0, 1}
  OBVIOUS
<1> HIDE DEF i, s
<1>15. Ready(m, M2, mine, next, i)
  BY <1>0, <1>1, <1>5, <1>9, <1>10, <1>11, <1>12, <1>13, <1>14 DEF Ready
<1> QED BY <1>0, <1>15, TakeObjectInvariant

(* alloc from a new slab: its objects are no client's, and its chain leaves *)
(* those of the other slabs alone.                                          *)
LEMMA AllocNewSlabInvariant ==
  ASSUME IInv, NEW s \in Slab, AllocNewSlab(s)
  PROVE  IInv' /\ Gives
<1> DEFINE M == OnLists(node, mine)
           nd == [node EXCEPT ![s] = NewSlab(s)]
           m0 == [list |-> list, node |-> nd]
           w == [Lists EXCEPT !.node = [@ EXCEPT ![s] = NewSlab(s)]]
           m == AddSlabToTail(m0, "in_use", s)
           M2 == [M EXCEPT !["in_use"] = @ \cup {s}]
           c == FreshChain(s)
           i == 1
           X == mine \cup {s}
<1>0. /\ TypeOK /\ SlabsOwned /\ Counted /\ Idle /\ ~walk.on /\ mine' = X /\ pages' = pages \ {s}
      /\ list["in_use"] = 0 /\ s \in pages /\ TakeObject(AddSlabToTail(w, "in_use", s), c, i)
      /\ Lists = [list |-> list, node |-> node]
      /\ \A o \in used : next[o] = Poison
  BY DEF IInv, AllocNewSlab, Idle, Lists
<1>1. mine \in SUBSET Slab /\ AreRings(Lists, M) /\ \A x \in mine : NodeExact(node[x], x, next, used)
  BY <1>0, IdleExact DEF SlabsExact
<1>2. \A l \in List : M[l] = {x \in mine : LevelOf(node[x].avail) = l}
  BY DEF OnLists
<1> HIDE DEF M
<1>3. s \notin mine /\ X \in SUBSET Slab
  BY <1>0, <1>1 DEF SlabsOwned
<1>4. w = m0
  BY <1>0
<1>5. /\ nd \in [Slab -> Node] /\ nd[s] = NewSlab(s) /\ nd[s].avail = ObjsPerSlab
      /\ \A x \in mine : nd[x] = node[x]
  <2>1. NewSlab(s) \in Node /\ NewSlab(s).avail = ObjsPerSlab
    BY SlabAssumption DEF NewSlab, Node, Slab
  <2>2. node \in [Slab -> Node]
    BY <1>0 DEF TypeOK
  <2> QED BY <1>1, <1>3, <2>1, <2>2
<1> HIDE DEF nd, w
<1>6. AreRings(m0, M)
  <2>1. m0 \in ListPair /\ M \in [List -> SUBSET Slab] /\ m0.node = nd /\ m0.list = list
    BY <1>0, <1>1, <1>5 DEF AreRings, ListPair, TypeOK
  <2>2. ASSUME NEW l \in List
        PROVE  IsRing(nd, list[l], M[l])
    <3>1. IsRing(node, list[l], M[l])
      BY <1>0, <1>1 DEF AreRings
    <3>2. \A x \in M[l] : nd[x].next = node[x].next /\ nd[x].prev = node[x].prev
      BY <1>2, <1>5
    <3> QED BY <3>1, <3>2, RingLinks
  <2>3. \A l, k \in List : l # k => M[l] \cap M[k] = {}
    BY <1>1 DEF AreRings
  <2> HIDE DEF m0
  <2> QED BY <2>1, <2>2, <2>3 DEF AreRings
<1>7. /\ M["in_use"] = {} /\ M \in [List -> SUBSET Slab] /\ "in_use" \in List
      /\ \A l \in List : s \notin M[l]
  BY <1>0, <1>1, <1>2, <1>3, SlabAssumption DEF AreRings, IsRing, List, Slab
<1>8. AreRings(m, M2) /\ SameObjects(nd, m.node)
  <2>1. m0.node = nd
    OBVIOUS
  <2> HIDE DEF m0
  <2> QED BY <1>6, <1>7, <2>1, AddRings
<1>9. \A l \in List : M2[l] = IF l = "in_use" THEN {s} ELSE M[l]
  BY <1>7
<1>10. TakeObject(m, c, i)
  BY <1>0, <1>4
<1> HIDE DEF m, M2, m0
<1>11. m.list["in_use"] = s
  <2>1. IsRing(m.node, m.list["in_use"], {s})
    BY <1>7, <1>8, <1>9 DEF AreRings
  <2> QED BY <2>1 DEF IsRing
<1>12. \A x \in X : m.node[x].avail = nd[x].avail /\ m.node[x].free = nd[x].free /\ m.node[x].ok = nd[x].ok
  BY <1>1, <1>8 DEF SameObjects
<1>13. ObjectsOf(s) \cap used = {}
  BY <1>0, <1>3, ObjectOfSlab DEF SlabsOwned
<1>14. \A o \in Obj : SlabOf(o) # s => c[o] = next[o]
  BY ObjectOfSlab DEF FreshChain
<1>15. c \in [Obj -> Obj \cup {0, Poison}]
  <2>1. \A o \in ObjectsOf(s) : o \in Obj
    BY ObjectOfSlab
  <2> QED BY <1>0, <2>1 DEF FreshChain, TypeOK
<1>16. NodeExact(NewSlab(s), s, c, used)
  BY <1>13, FreshSlab
<1> HIDE DEF c
<1>17. ASSUME NEW x \in X
       PROVE  NodeExact(m.node[x], x, c, used)
  <2>1. CASE x = s
    <3>1. NodeExact(nd[x], x, c, used)
      BY <1>5, <1>16, <2>1
    <3> QED BY <1>12, <3>1, NodeLinks
  <2>2. CASE x # s
    <3>1. NodeExact(node[x], x, next, used) /\ nd[x] = node[x] /\ x \in Slab
      BY <1>1, <1>5, <2>2
    <3>2. \A o \in ObjectsOf(x) \ used : c[o] = next[o]
      BY <1>14, <2>2, <3>1, ObjectOfSlab
    <3>3. m.node[x].avail = node[x].avail /\ m.node[x].free = node[x].free /\ m.node[x].ok = node[x].ok
      BY <1>12, <3>1
    <3> QED BY <3>1, <3>2, <3>3, NodeLinks
  <2> QED BY <2>1, <2>2
<1>18. ASSUME NEW l \in List
       PROVE  M2[l] = {x \in X \ {s} : LevelOf(m.node[x].avail) = l} \cup (IF l = "in_use" THEN {s} ELSE {})
  <2>1. {x \in X \ {s} : LevelOf(m.node[x].avail) = l} = M[l]
    BY <1>2, <1>3, <1>5, <1>12
  <2> QED BY <1>7, <1>9, <2>1
<1>19. pages' \in SUBSET Slab /\ X \cap pages' = {} /\ mine \subseteq X
  BY <1>0 DEF TypeOK, SlabsOwned
<1>20. slabs_allocated + i = Cardinality(X)
  <2>1. IsFiniteSet(mine)
    BY <1>1, Finite
  <2>2. Cardinality(X) = Cardinality(mine) + 1
    BY <1>3, <2>1, FS_AddElement
  <2> QED BY <1>0, <2>2 DEF Counted
<1>21. objects_available + i * ObjsPerSlab = Cardinality(Avail(X, used))
  <2> DEFINE A == Avail(mine, used)
             S == ObjectsOf(s)
  <2>1. Avail(X, used) = A \cup S
    BY <1>13, SlabOfObject, ObjectOfSlab DEF Avail
  <2>2. A \cap S = {}
    BY <1>3, ObjectOfSlab DEF Avail
  <2>3. IsFiniteSet(A) /\ IsFiniteSet(S) /\ Cardinality(S) = ObjsPerSlab
    BY Finite, SlabSize
  <2>4. objects_available = Cardinality(A)
    BY <1>0 DEF Counted, Avail
  <2> HIDE DEF A, S
  <2>5. Cardinality(A \cup S) = Cardinality(A) + Cardinality(S) - Cardinality(A \cap S)
        /\ Cardinality(A) \in Nat
    BY <2>3, FS_Union, FS_CardinalityType
  <2>6. Cardinality(A \cap S) = 0
    BY <2>2, FS_EmptySet
  <2>7. i * ObjsPerSlab = ObjsPerSlab /\ ObjsPerSlab \in Nat
    BY SlabAssumption
  <2> HIDE DEF X, i
  <2>8. Cardinality(A \cup S) = Cardinality(A) + ObjsPerSlab
    BY <2>3, <2>5, <2>6, <2>7
  <2> QED BY <2>1, <2>4, <2>7, <2>8
<1>22. m.list["in_use"] \in X /\ m.node[m.list["in_use"]].avail > 0
  BY <1>5, <1>11, <1>12, SlabAssumption
<1>23. \A o \in used : c[o] = Poison
  BY <1>0, <1>3, <1>14 DEF SlabsOwned, TypeOK
<1>24. i \in {0, 1} /\ mine' = X /\ X \in SUBSET Slab /\ AreRings(m, M2)
  BY <1>0, <1>3, <1>8
<1> HIDE DEF i, X
<1>25. Ready(m, M2, X, c, i)
  BY <1>11, <1>15, <1>17, <1>18, <1>19, <1>20, <1>21, <1>22, <1>23, <1>24 DEF Ready
<1> QED BY <1>0, <1>10, <1>25, TakeObjectInvariant

(* free of an object a client has fails no assertion and keeps the          *)
(* invariant.                                                               *)
LEMMA FreeInvariant ==
  ASSUME IInv, NEW o \in Obj, Free(o)
  PROVE  IInv' /\ o \in used /\ used' = used \ {o} /\ objects_allocated' = objects_allocated - 1
<1> DEFINE s == SlabOf(o)
           r == FreeLists(s, o)
           d == [next EXCEPT ![o] = node[s].free]
           V == used \ {o}
<1>0. TypeOK /\ SlabsOwned /\ Counted /\ AssertionsHold /\ walk.on = FALSE /\ panic = "none" /\ o \in used
      /\ s \in mine /\ \A y \in used : next[y] = Poison
  BY DEF IInv, Free, Idle, TypeOK, SlabsOwned
<1>1. SlabsExact(Lists, mine, next, used)
  BY <1>0, IdleExact
<1>2. next \in [Obj -> Obj \cup {0, Poison}] /\ d[o] = node[SlabOf(o)].free /\ \A y \in Obj : y # o => d[y] = next[y]
  BY <1>0 DEF TypeOK
<1>3. s \in Slab /\ NodeExact(node[s], s, next, used)
  BY <1>0, <1>1 DEF SlabsExact, Lists
<1>4. node[s].free \in Obj \cup {0}
  <2>1. PICK f : IsChain(f, node[s].avail, node[s].free, next, ObjectsOf(s) \ used, 0)
    BY <1>3 DEF NodeExact
  <2>2. node[s].avail + 1 >= 1 /\ node[s].avail + 1 \in Int
    BY <1>3, SlabAssumption DEF NodeExact
  <2>3. f \in [1 .. node[s].avail + 1 -> (ObjectsOf(s) \ used) \cup {0}] /\ f[1] = node[s].free
    BY <2>1 DEF IsChain
  <2>4. 1 \in 1 .. node[s].avail + 1
    BY <2>2
  <2>5. node[s].free \in (ObjectsOf(s) \ used) \cup {0}
    BY <2>3, <2>4
  <2> QED BY <1>3, <2>5, ObjectOfSlab
<1>5. d \in [Obj -> Obj \cup {0, Poison}]
  BY <1>2, <1>4
<1>6. ASSUME NEW y \in V
      PROVE  d[y] = Poison
  BY <1>0, <1>2 DEF TypeOK
<1> HIDE DEF d
<1>7. node[s].ok /\ node[s].avail < ObjsPerSlab /\ SlabsExact(r, mine, d, V)
  BY <1>0, <1>1, <1>2, FreeKeeps
<1>8. /\ list' = r.list /\ node' = r.node /\ next' = d /\ used' = V
      /\ slabs_allocated' = slabs_allocated /\ objects_allocated' = objects_allocated - 1
      /\ objects_available' = objects_available + 1
      /\ walk' = walk /\ panic' = panic /\ pages' = pages /\ mine' = mine
  BY <1>0, <1>7 DEF Free, d
<1> HIDE DEF r
<1>9. r \in ListPair /\ r = [list |-> list', node |-> node']
  BY <1>7, <1>8 DEF SlabsExact, AreRings, ListPair
<1>10. V \in SUBSET Obj /\ used \in SUBSET Obj /\ mine \in SUBSET Slab
  BY <1>0 DEF TypeOK
<1>11. TypeOK'
  BY <1>0, <1>5, <1>8, <1>9, <1>10 DEF TypeOK, ListPair
<1>12. SlabsOwned'
  BY <1>0, <1>8 DEF SlabsOwned
<1>13. Counted'
  <2> DEFINE A == Avail(mine, used)
  <2>1. IsFiniteSet(used) /\ IsFiniteSet(A) /\ o \notin A /\ Avail(mine, V) = A \cup {o}
    BY <1>0, <1>10, Finite DEF Avail
  <2>2. objects_available = Cardinality(A) /\ objects_allocated = Cardinality(used) /\ slabs_allocated = Cardinality(mine)
    BY <1>0 DEF Counted, Avail
  <2>3. Cardinality(Avail(mine, V)) = Cardinality(Avail(mine, used)) + 1
    <3> HIDE DEF A
    <3>1. Cardinality(A \cup {o}) = Cardinality(A) + 1
      BY <2>1, FS_AddElement
    <3> QED BY <2>1, <3>1 DEF A
  <2>4. Cardinality(V) = Cardinality(used) - 1
    BY <1>0, <2>1, FS_RemoveElement
  <2> HIDE DEF A, V
  <2>5. objects_available' = Cardinality(Avail(mine, V))
    BY <1>8, <2>2, <2>3 DEF A
  <2>6. objects_available' = Cardinality({y \in Obj : SlabOf(y) \in mine'} \ used')
    BY <1>8, <2>5 DEF Avail
  <2> QED BY <1>8, <2>2, <2>4, <2>6 DEF Counted
<1>14. AssertionsHold'
  BY <1>0, <1>8 DEF AssertionsHold
<1>15. SlabsExact([list |-> list', node |-> node'], mine', next', used')
  BY <1>7, <1>8, <1>9
<1>16. walk'.on = FALSE /\ \A y \in used' : next'[y] = Poison
  BY <1>0, <1>6, <1>8
<1> HIDE DEF V
<1>17. IInv'
  BY <1>11, <1>12, <1>13, <1>14, <1>15, <1>16, IdleInvariant
<1> QED BY <1>0, <1>8, <1>17 DEF V

(* A step that only stops the kernel, or leaves everything alone. *)
LEMMA StopInvariant ==
  ASSUME IInv, AssertionsHold', UNCHANGED <<list, node, next, stats, walk, pages, mine, used>>
  PROVE  IInv'
<1>1. /\ TypeOK' /\ SlabsOwned' /\ Counted' /\ (\A o \in used : next[o] = Poison)'
      /\ Begun' = Begun /\ Intact' = Intact
  BY DEF IInv, TypeOK, SlabsOwned, Counted, Begun, Intact, stats
<1>2. Members' = Members
  BY <1>1 DEF Members, ListOf
<1>3. Remaining' = Remaining
  BY <1>2 DEF Remaining
<1>4. Begun => WalkExact'
  BY <1>2, <1>3 DEF IInv, WalkExact
<1> QED BY <1>1, <1>2, <1>4 DEF IInv

(* free_unused begins. *)
LEMMA FreeUnusedInvariant ==
  ASSUME IInv, FreeUnused
  PROVE  IInv'
<1>1. /\ ~Begun /\ ~Begun' /\ Intact = mine /\ Intact' = mine' /\ AssertionsHold'
      /\ UNCHANGED <<list, node, next, stats, pages, mine, used>>
  BY DEF IInv, FreeUnused, Begun, Intact, Idle, AssertionsHold
<1>2. TypeOK' /\ SlabsOwned' /\ Counted' /\ (\A o \in used : next[o] = Poison)'
  BY <1>1 DEF IInv, TypeOK, SlabsOwned, Counted, stats, FreeUnused, List
<1>3. Members' = Members
  BY <1>1 DEF Members, ListOf
<1> QED BY <1>1, <1>2, <1>3 DEF IInv

(* The slab a turn of free_unused gives back is an unused slab of the       *)
(* manager, and the node it poisons is not that of another one.             *)
LEMMA TurnFacts ==
  ASSUME IInv, walk.on, walk.at # 0, node[walk.at].ok
  PROVE  /\ walk.at \in Slab
         /\ node[walk.at].next \in Remaining /\ node[walk.at].next \in mine
         /\ ObjectsOf(node[walk.at].next) \cap used = {}
         /\ walk.at \in Intact => walk.at \in Members["unused"]
         /\ list["unused"] \in mine /\ ObjectsOf(list["unused"]) \cap used = {}
<1> DEFINE h == list["unused"]
           s == node[walk.at].next
           U == Members["unused"]
<1>0. /\ TypeOK /\ walk.at \in Slab /\ "unused" \in List /\ Intact \in SUBSET Slab /\ Intact \in SUBSET mine
      /\ \A x \in Intact : NodeExact(node[x], x, next, used)
  BY DEF IInv, TypeOK, List, Intact
<1>1. U = {x \in Intact : node[x].avail = ObjsPerSlab}
  BY SlabAssumption DEF Members, ListOf, List
<1>2. \A x \in U : x \in mine /\ ObjectsOf(x) \cap used = {}
  <2> SUFFICES ASSUME NEW x \in U PROVE x \in mine /\ ObjectsOf(x) \cap used = {}
    OBVIOUS
  <2> DEFINE n == node[x]
  <2>1. NodeExact(n, x, next, used) /\ n.avail = ObjsPerSlab /\ x \in Slab /\ x \in mine
    BY <1>0, <1>1
  <2> HIDE DEF n
  <2> QED BY <2>1, NodeFacts
<1> HIDE DEF U
<1>3. CASE Begun
  <2>1. WalkExact
    BY <1>3 DEF IInv
  <2>2. s \in Remaining /\ walk.at \notin mine /\ h \in mine /\ ObjectsOf(h) \cap used = {}
    BY <2>1 DEF WalkExact
  <2>3. s \in mine /\ ObjectsOf(s) \cap used = {}
    BY <1>2, <2>2 DEF Remaining, U
  <2> QED BY <1>0, <2>2, <2>3
<1>4. CASE ~Begun
  <2>1. walk.at = h /\ IsRing(node, h, U)
    BY <1>0, <1>4 DEF IInv, Begun, U
  <2>2. h \in U /\ s \in U
    BY <2>1 DEF IsRing
  <2> QED BY <1>0, <1>2, <2>1, <2>2 DEF Remaining, U
<1> QED BY <1>3, <1>4

(* What a turn of free_unused does to the slabs other than the two it is    *)
(* at, whichever turn it is.                                                *)
LEMMA TurnKeeps ==
  ASSUME IInv, FreeUnusedSlab, walk.at # 0, node[walk.at].ok
  PROVE  /\ TypeOK' /\ SlabsOwned' /\ Counted' /\ AssertionsHold' /\ (\A o \in used : next[o] = Poison)'
         /\ Intact' = Intact \ {node[walk.at].next, walk.at}
         /\ \A x \in Intact' : node'[x] = node[x] /\ NodeExact(node'[x], x, next', used')
         /\ Members'["unused"] = Members["unused"] \ {node[walk.at].next, walk.at}
         /\ \A l \in List : l # "unused" => IsRing(node', list'[l], Members'[l])
<1> DEFINE h == list["unused"]
           a == walk.at
           s == node[a].next
           last == s = h
           U == Members["unused"]
<1>0. /\ TypeOK /\ SlabsOwned /\ Counted /\ AssertionsHold /\ a \in Slab /\ s \in mine /\ s \in Slab /\ s \in Remaining
      /\ ObjectsOf(s) \cap used = {} /\ (a \in Intact => a \in U) /\ walk.on
      /\ \A o \in used : next[o] = Poison
      /\ "unused" \in List /\ h \in Slab /\ h \in mine
      /\ \A x \in Intact : NodeExact(node[x], x, next, used)
  BY TurnFacts DEF IInv, FreeUnusedSlab, TypeOK, List
<1>1. /\ node' = [node EXCEPT ![a] = BadNode] /\ pages' = pages \cup {s} /\ mine' = mine \ {s}
      /\ slabs_allocated' = slabs_allocated - 1 /\ objects_available' = objects_available - ObjsPerSlab
      /\ objects_allocated' = objects_allocated
      /\ walk' = (IF last THEN NotWalking ELSE [on |-> TRUE, at |-> s])
      /\ list' = (IF last THEN [list EXCEPT !["unused"] = 0] ELSE list)
      /\ next' = next /\ panic' = panic /\ used' = used
  BY DEF FreeUnusedSlab, DropSlab
<1>2. BadNode \in Node
  BY DEF BadNode, Node, Poison
<1>3. TypeOK'
  <2>1. list' \in [List -> Slab \cup {0}] /\ walk' \in [on : BOOLEAN, at : Slab \cup {0}]
    BY <1>0, <1>1 DEF TypeOK, NotWalking
  <2>2. slabs_allocated' \in Int /\ objects_allocated' \in Int /\ objects_available' \in Int
    BY <1>0, <1>1, SlabAssumption DEF TypeOK
  <2>3. node' \in [Slab -> Node] /\ pages' \in SUBSET Slab /\ mine' \in SUBSET Slab
    BY <1>0, <1>1, <1>2 DEF TypeOK
  <2> QED BY <1>0, <1>1, <2>1, <2>2, <2>3 DEF TypeOK
<1>4. SlabsOwned'
  <2>1. \A o \in used : SlabOf(o) # s
    BY <1>0, SlabOfObject DEF TypeOK
  <2> QED BY <1>0, <1>1, <2>1 DEF SlabsOwned
<1>5. Counted'
  <2> DEFINE A == Avail(mine, used)
             S == ObjectsOf(s)
  <2>1. Avail(mine \ {s}, used) = A \ S
    BY <1>0, SlabOfObject, ObjectOfSlab DEF Avail
  <2>2. A \cap S = S
    BY <1>0, ObjectOfSlab DEF Avail
  <2>3. IsFiniteSet(A) /\ Cardinality(S) = ObjsPerSlab /\ IsFiniteSet(mine)
    BY <1>0, Finite, SlabSize DEF TypeOK
  <2>4. objects_available = Cardinality(A) /\ slabs_allocated = Cardinality(mine) /\ objects_allocated = Cardinality(used)
    BY <1>0 DEF Counted, Avail
  <2> HIDE DEF A, S, s
  <2>5. Cardinality(A \ S) = Cardinality(A) - Cardinality(A \cap S)
    BY <2>3, FS_Difference
  <2>6. Cardinality(mine \ {s}) = Cardinality(mine) - 1
    BY <1>0, <2>3, FS_RemoveElement
  <2>7. Cardinality(Avail(mine \ {s}, used)) = objects_available'
    BY <1>1, <2>1, <2>2, <2>3, <2>4, <2>5
  <2>8. objects_available' = Cardinality({o \in Obj : SlabOf(o) \in mine'} \ used')
    BY <1>1, <2>7 DEF Avail
  <2>9. slabs_allocated' = Cardinality(mine') /\ objects_allocated' = Cardinality(used')
    BY <1>1, <2>4, <2>6
  <2> QED BY <2>8, <2>9 DEF Counted
<1>6. AssertionsHold' /\ (\A o \in used : next[o] = Poison)'
  BY <1>0, <1>1 DEF AssertionsHold
<1>7. Begun' <=> ~last
  BY <1>0, <1>1, SlabAssumption DEF Begun, NotWalking, Slab
<1>8. Intact' = Intact \ {s, a}
  <2>1. CASE Begun
    <3>1. a \notin mine /\ Intact = mine \ {h}
      BY <2>1 DEF IInv, WalkExact, Intact
    <3>2. Intact' = IF last THEN mine \ {s} ELSE (mine \ {s}) \ {h}
      BY <1>1, <1>7 DEF Intact
    <3> QED BY <3>1, <3>2
  <2>2. CASE ~Begun
    <3>1. a = h /\ Intact = mine
      BY <1>0, <2>2 DEF Begun, Intact
    <3>2. Intact' = IF last THEN mine \ {s} ELSE (mine \ {s}) \ {h}
      BY <1>1, <1>7 DEF Intact
    <3> QED BY <3>1, <3>2
  <2> QED BY <2>1, <2>2
<1>9. Intact \in SUBSET Slab /\ \A x \in Intact' : x \in Intact /\ node'[x] = node[x]
  <2>1. Intact \in SUBSET Slab
    BY <1>0 DEF TypeOK, Intact
  <2>2. \A x \in Slab : x # a => node'[x] = node[x]
    BY <1>0, <1>1 DEF TypeOK
  <2> QED BY <1>8, <2>1, <2>2
<1>10. \A x \in Intact' : NodeExact(node'[x], x, next', used')
  BY <1>0, <1>1, <1>9
<1>11. \A l \in List : Members[l] = {x \in Intact : LevelOf(node[x].avail) = l}
                       /\ Members'[l] = {x \in Intact' : LevelOf(node'[x].avail) = l}
  BY DEF Members, ListOf, LevelOf
<1>12. s \in Intact => s \in U
  BY <1>0 DEF Remaining, Members, Intact, IInv, IsRing, Begun
<1>13. ASSUME NEW l \in List
       PROVE  Members'[l] = Members[l] \ {s, a}
  BY <1>8, <1>9, <1>11
<1>14. ASSUME NEW l \in List, l # "unused"
       PROVE  IsRing(node', list'[l], Members'[l])
  <2>1. s \notin Members[l] /\ a \notin Members[l]
    BY <1>0, <1>11, <1>12, <1>14
  <2>2. Members'[l] = Members[l]
    BY <1>13, <2>1
  <2>3. IsRing(node, list[l], Members[l])
    BY <1>14 DEF IInv
  <2>4. \A x \in Members[l] : node'[x] = node[x]
    BY <1>9, <1>11, <2>2
  <2>5. list'[l] = list[l]
    BY <1>0, <1>1, <1>14 DEF TypeOK
  <2> QED BY <2>2, <2>3, <2>4, <2>5, RingLinks
<1> HIDE DEF U
<1> QED BY <1>0, <1>3, <1>4, <1>5, <1>6, <1>8, <1>9, <1>10, <1>13, <1>14 DEF U

(* A turn of free_unused keeps the invariant: the walk still meets every    *)
(* slab it has to give back, the first one last.                            *)
LEMMA FreeUnusedSlabInvariant ==
  ASSUME IInv, FreeUnusedSlab
  PROVE  IInv'
<1> DEFINE h == list["unused"]
           a == walk.at
           s == node[a].next
           U == Members["unused"]
<1>1. CASE a = 0 \/ ~node[a].ok
  <2>1. AssertionsHold' /\ UNCHANGED <<list, node, next, stats, walk, pages, mine, used>>
    BY <1>1 DEF FreeUnusedSlab, Panic, AssertionsHold
  <2> QED BY <2>1, StopInvariant
<1>2. CASE a # 0 /\ node[a].ok
  <2>0. /\ a \in Slab /\ s \in Remaining /\ s \in mine /\ h \in mine /\ ObjectsOf(h) \cap used = {}
        /\ "unused" \in List /\ a \in Slab /\ mine \in SUBSET Slab /\ s \in Slab /\ walk.on
    BY <1>2, TurnFacts DEF FreeUnusedSlab, List, IInv, TypeOK
  <2>1. /\ TypeOK' /\ SlabsOwned' /\ Counted' /\ AssertionsHold' /\ (\A o \in used : next[o] = Poison)'
        /\ Intact' = Intact \ {s, a}
        /\ \A x \in Intact' : node'[x] = node[x] /\ NodeExact(node'[x], x, next', used')
        /\ Members'["unused"] = U \ {s, a}
        /\ \A l \in List : l # "unused" => IsRing(node', list'[l], Members'[l])
    BY <1>2, TurnKeeps
  <2>2. /\ node' = [node EXCEPT ![a] = BadNode] /\ mine' = mine \ {s} /\ used' = used
        /\ walk' = (IF s = h THEN NotWalking ELSE [on |-> TRUE, at |-> s])
        /\ list' = (IF s = h THEN [list EXCEPT !["unused"] = 0] ELSE list)
    BY <1>2 DEF FreeUnusedSlab
  <2>3. \A x \in Slab : x # a => node'[x] = node[x]
    BY <2>0, <2>2 DEF IInv, TypeOK
  <2>4. Remaining = {h} \cup U /\ U \in SUBSET mine
    BY DEF Remaining, Members, Intact, List
  <2>5. ~Begun => a = h /\ IsRing(node, h, U) /\ h \in U
    <3> SUFFICES ASSUME ~Begun PROVE a = h /\ IsRing(node, h, U) /\ h \in U
      OBVIOUS
    <3>1. a = h /\ IsRing(node, h, U)
      BY <2>0 DEF IInv, Begun
    <3> QED BY <1>2, <3>1 DEF IsRing
  <2>6. ASSUME Begun
        PROVE  /\ WalkExact /\ a \notin mine /\ h \notin U
               /\ \A x \in U : node[x].next \in Remaining
               /\ \A x, y \in U \cup {a} : node[x].next = node[y].next => x = y
               /\ \A T \in SUBSET Remaining :
                    s \in T /\ (\A x \in T \ {h} : node[x].next \in T) => T = Remaining
    <3>1. WalkExact
      BY <2>6 DEF IInv
    <3>2. h \notin U
      BY <2>6 DEF Members, Intact, List
    <3> QED BY <1>2, <3>1, <3>2 DEF WalkExact
  <2> HIDE DEF U
  <2>7. CASE s = h
    <3>1. U \ {s, a} = {}
      <4>1. CASE Begun
        <5> DEFINE T == {h}
        <5>1. T \in SUBSET Remaining /\ s \in T /\ (\A x \in T \ {h} : node[x].next \in T)
          BY <2>4, <2>7
        <5> HIDE DEF T
        <5>2. T = Remaining
          BY <2>6, <4>1, <5>1
        <5> QED BY <2>4, <2>7, <5>2 DEF T
      <4>2. CASE ~Begun
        <5>1. {h} \in SUBSET U /\ h \in {h} /\ \A x \in {h} : node[x].next \in {h}
          BY <2>5, <2>7, <4>2
        <5>2. {h} = U
          BY <2>5, <4>2, <5>1 DEF IsRing
        <5> QED BY <2>7, <5>2
      <4> QED BY <4>1, <4>2
    <3>2. list'["unused"] = 0 /\ ~Begun'
      BY <2>0, <2>2, <2>7 DEF Begun, NotWalking, IInv, TypeOK
    <3>3. IsRing(node', list'["unused"], Members'["unused"])
      <4>1. IsRing(node', 0, {})
        BY DEF IsRing
      <4>2. Members'["unused"] = {}
        BY <2>1, <3>1
      <4> QED BY <3>2, <4>1, <4>2
    <3> QED BY <2>1, <3>2, <3>3 DEF IInv
  <2>8. CASE s # h
    <3>0. walk'.on /\ walk'.at = s /\ list' = list /\ Begun' /\ list'["unused"] = h
      BY <2>2, <2>8 DEF Begun
    <3> DEFINE U2 == U \ {s, a}
               R2 == {h} \cup U2
    <3>1. Members'["unused"] = U2 /\ Remaining' = R2
      BY <2>1, <3>0 DEF Remaining
    <3>2. /\ s \in U /\ s # a /\ a \notin U2 /\ R2 = Remaining \ {s}
          /\ \A x \in U2 \cup {s} : x \in U /\ node'[x] = node[x]
      <4>1. s \in U
        BY <2>0, <2>4, <2>8
      <4>2. CASE Begun
        <5>1. a \notin U
          BY <2>4, <2>6, <4>2
        <5> QED BY <2>0, <2>3, <2>4, <2>8, <4>1, <5>1
      <4>3. CASE ~Begun
        BY <2>0, <2>3, <2>4, <2>5, <2>8, <4>1, <4>3
      <4> QED BY <4>2, <4>3
    <3>3. \A x \in U2 \cup {s} : node[x].next \in R2
      <4>1. CASE Begun
        BY <2>0, <2>4, <2>6, <3>2, <4>1
      <4>2. CASE ~Begun
        BY <2>0, <2>4, <2>5, <2>8, <3>2, <4>2 DEF IsRing
      <4> QED BY <4>1, <4>2
    <3>4. \A x, y \in U2 \cup {s} : node[x].next = node[y].next => x = y
      <4>1. CASE Begun
        BY <2>6, <3>2, <4>1
      <4>2. CASE ~Begun
        BY <2>5, <3>2, <4>2 DEF IsRing
      <4> QED BY <4>1, <4>2
    <3>5. node[s].ok
      <4>1. s \in Intact
        BY <3>2 DEF U, Members, List
      <4> QED BY <4>1 DEF IInv, NodeExact
    <3>6. ASSUME NEW T \in SUBSET R2, node[s].next \in T, \A x \in T \ {h} : node[x].next \in T
          PROVE  T = R2
      <4>1. CASE Begun
        <5> DEFINE T2 == T \cup {s}
        <5>1. T2 \in SUBSET Remaining /\ s \in T2 /\ \A x \in T2 \ {h} : node[x].next \in T2
          BY <2>0, <3>2, <3>6
        <5> HIDE DEF T2
        <5>2. T2 = Remaining
          BY <2>6, <4>1, <5>1
        <5> QED BY <3>2, <3>6, <5>2 DEF T2
      <4>2. CASE ~Begun
        <5> DEFINE T2 == T \cup {s, h}
                   p == node[h].prev
        <5>1. a = h /\ IsRing(node, h, U) /\ h \in U /\ p \in U /\ node[p].next = h
          BY <2>5, <4>2 DEF IsRing
        <5>2. T2 \in SUBSET U /\ h \in T2 /\ \A x \in T2 : node[x].next \in T2
          BY <2>4, <3>2, <3>6, <5>1
        <5> HIDE DEF T2
        <5>3. T2 = U
          BY <5>1, <5>2 DEF IsRing
        <5>4. p # h
          BY <2>8, <5>1
        <5>5. h \in T
          BY <3>6, <5>1, <5>3, <5>4 DEF T2
        <5>6. T \cup {s} = U
          BY <5>3, <5>5 DEF T2
        <5> QED BY <3>2, <3>6, <2>4, <5>1, <5>6
      <4> QED BY <4>1, <4>2
    <3>7. s \in Slab \ mine' /\ h \in mine' /\ ObjectsOf(h) \cap used' = {} /\ ~node'[h].ok
      <4>1. CASE Begun
        <5>1. node'[h] = node[h]
          BY <2>0, <2>3, <2>6, <4>1
        <5>2. ~node[h].ok
          BY <2>6, <4>1 DEF WalkExact
        <5> QED BY <2>0, <2>2, <2>8, <5>1, <5>2
      <4>2. CASE ~Begun
        <5>1. node'[h] = BadNode
          BY <2>0, <2>2, <2>5, <4>2 DEF IInv, TypeOK
        <5> QED BY <2>0, <2>2, <2>8, <5>1 DEF BadNode
      <4> QED BY <4>1, <4>2
    <3> HIDE DEF U2, R2, h, s
    <3>8. WalkExact'
      <4>1. \A x \in Members'["unused"] : node'[x].next \in Remaining'
        BY <3>1, <3>2, <3>3
      <4>2. node'[walk'.at].next \in Remaining'
        BY <3>0, <3>1, <3>2, <3>3
      <4>3. \A x, y \in Members'["unused"] \cup {walk'.at} : node'[x].next = node'[y].next => x = y
        BY <3>0, <3>1, <3>2, <3>4
      <4>4. ASSUME NEW T \in SUBSET Remaining', node'[walk'.at].next \in T,
                   \A x \in T \ {list'["unused"]} : node'[x].next \in T
            PROVE  T = Remaining'
        <5>1. T \in SUBSET R2 /\ node[s].next \in T
          BY <3>0, <3>1, <3>2, <4>4
        <5>2. \A x \in T \ {h} : node[x].next \in T
          BY <3>0, <3>2, <4>4, <5>1 DEF R2
        <5> QED BY <3>1, <3>6, <5>1, <5>2
      <4> QED BY <3>0, <3>7, <4>1, <4>2, <4>3, <4>4 DEF WalkExact
    <3> QED BY <2>1, <3>0, <3>8 DEF IInv
  <2> QED BY <2>7, <2>8
<1> QED BY <1>1, <1>2

(* Another client of the page allocator takes pages the manager does not    *)
(* own: it may overwrite the node free_unused is at, and no other.          *)
LEMMA OtherAllocInvariant ==
  ASSUME IInv, NEW s \in Slab, OtherAlloc(s)
  PROVE  IInv'
<1>0. /\ TypeOK /\ SlabsOwned /\ Counted /\ AssertionsHold /\ s \notin mine /\ mine \in SUBSET Slab
      /\ node' = [node EXCEPT ![s] = BadNode] /\ pages' = pages \ {s}
      /\ UNCHANGED <<list, next, stats, walk, panic, mine, used>>
  BY DEF IInv, OtherAlloc, SlabsOwned, TypeOK
<1>1. /\ Intact \in SUBSET mine /\ Intact' = Intact /\ Begun' = Begun
      /\ node[s] \in Node /\ node'[s] = BadNode /\ \A x \in Slab : x # s => node'[x] = node[x]
  BY <1>0 DEF Intact, Begun, TypeOK
<1>2. \A x \in mine : node'[x] = node[x]
  BY <1>0, <1>1
<1>3. TypeOK'
  <2>1. BadNode \in Node
    BY DEF BadNode, Node, Poison
  <2> QED BY <1>0, <2>1 DEF TypeOK, stats
<1>4. SlabsOwned' /\ Counted' /\ AssertionsHold' /\ (\A o \in used : next[o] = Poison)'
  BY <1>0 DEF SlabsOwned, Counted, AssertionsHold, IInv, stats
<1>5. Members' = Members /\ \A l \in List : Members[l] \in SUBSET mine
  BY <1>1, <1>2 DEF Members, ListOf
<1>6. (\A x \in Intact : NodeExact(node[x], x, next, used))'
  BY <1>0, <1>1, <1>2 DEF IInv
<1>7. ASSUME NEW l \in List, l = "unused" => ~Begun
      PROVE  IsRing(node', list'[l], Members'[l])
  <2>1. IsRing(node, list[l], Members[l]) /\ \A x \in Members[l] : node'[x] = node[x]
    BY <1>2, <1>5, <1>7 DEF IInv
  <2> QED BY <1>0, <1>5, <2>1, RingLinks
<1>8. ASSUME Begun
      PROVE  WalkExact'
  <2>1. WalkExact /\ Remaining' = Remaining /\ Remaining \in SUBSET mine /\ "unused" \in List
    BY <1>0, <1>5, <1>8 DEF IInv, Remaining, WalkExact, List
  <2>2. /\ walk'.at \in Slab \ mine' /\ list'["unused"] \in mine' /\ ObjectsOf(list'["unused"]) \cap used' = {}
        /\ ~node'[list'["unused"]].ok
        /\ \A x \in Members'["unused"] : node'[x].next \in Remaining'
    BY <1>0, <1>2, <1>5, <2>1 DEF WalkExact
  <2>3. CASE walk.at = s
    <3>1. ~node'[walk'.at].ok
      BY <1>0, <1>1, <2>3 DEF BadNode
    <3> QED BY <2>2, <3>1 DEF WalkExact
  <2>4. CASE walk.at # s
    <3>1. /\ walk' = walk /\ list' = list /\ node'[walk.at] = node[walk.at]
          /\ \A x \in Members["unused"] \cup {walk.at} : node'[x] = node[x]
      BY <1>0, <1>1, <1>2, <1>5, <2>1, <2>4 DEF WalkExact
    <3>2. ASSUME node[walk.at].ok
          PROVE  /\ node'[walk'.at].next \in Remaining'
                 /\ \A x, y \in Members'["unused"] \cup {walk'.at} : node'[x].next = node'[y].next => x = y
      BY <1>5, <2>1, <3>1, <3>2 DEF WalkExact
    <3>3. ASSUME node[walk.at].ok, NEW T \in SUBSET Remaining', node'[walk'.at].next \in T,
                 \A x \in T \ {list'["unused"]} : node'[x].next \in T
          PROVE  T = Remaining'
      <4>1. T \in SUBSET Remaining /\ node[walk.at].next \in T /\ \A x \in T \ {list["unused"]} : node[x].next \in T
        BY <1>2, <2>1, <3>1, <3>3
      <4> QED BY <2>1, <3>3, <4>1 DEF WalkExact
    <3>4. node'[walk'.at].ok = node[walk.at].ok
      BY <3>1
    <3> QED BY <2>2, <3>2, <3>3, <3>4 DEF WalkExact
  <2> QED BY <2>3, <2>4
<1> QED BY <1>1, <1>3, <1>4, <1>6, <1>7, <1>8 DEF IInv

(* Another client gives its pages back. *)
LEMMA OtherFreeInvariant ==
  ASSUME IInv, NEW s \in Slab, OtherFree(s)
  PROVE  IInv'
<1>1. /\ TypeOK' /\ SlabsOwned' /\ Counted' /\ AssertionsHold' /\ (\A o \in used : next[o] = Poison)'
      /\ Begun' = Begun /\ Intact' = Intact /\ UNCHANGED <<list, node, next, walk, mine, used>>
  BY DEF IInv, OtherFree, TypeOK, SlabsOwned, Counted, AssertionsHold, Begun, Intact, stats
<1>2. Members' = Members
  BY <1>1 DEF Members, ListOf
<1>3. Remaining' = Remaining
  BY <1>1, <1>2 DEF Remaining
<1>4. Begun => WalkExact'
  BY <1>1, <1>2, <1>3 DEF IInv, WalkExact
<1> QED BY <1>1, <1>2, <1>4 DEF IInv

(* The manager starts with no slab. *)
LEMMA InitInvariant == Init => IInv
<1> SUFFICES ASSUME Init PROVE IInv
  OBVIOUS
<1>1. TypeOK
  BY DEF Init, TypeOK, BadNode, Node, Poison, NotWalking
<1>2. ~Begun /\ Intact = {} /\ mine = {} /\ used = {}
  BY DEF Init, Begun, Intact, NotWalking
<1>3. \A l \in List : list[l] = 0 /\ Members[l] = {}
  BY <1>2 DEF Init, Members
<1>4. \A l \in List : IsRing(node, list[l], Members[l])
  <2>1. IsRing(node, 0, {})
    BY DEF IsRing
  <2> QED BY <1>3, <2>1
<1>5. Counted
  <2>1. {o \in Obj : SlabOf(o) \in mine} \ used = {}
    BY <1>2
  <2> QED BY <1>2, <2>1, FS_EmptySet DEF Counted, Init
<1> QED BY <1>1, <1>2, <1>4, <1>5 DEF IInv, Init, SlabsOwned, AssertionsHold

(* The three ways a step changes what clients have, or leaves it alone. *)
LEMMA StepInvariant ==
  ASSUME IInv, [Next]_vars
  PROVE  /\ IInv'
         /\ \/ Gives
            \/ \E o \in used : used' = used \ {o} /\ objects_allocated' = objects_allocated - 1
            \/ used' = used /\ objects_allocated' = objects_allocated
<1> DEFINE Takes == \E o \in used : used' = used \ {o} /\ objects_allocated' = objects_allocated - 1
           Same == used' = used /\ objects_allocated' = objects_allocated
<1>1. CASE AllocInUse
  BY <1>1, AllocInUseInvariant
<1>2. CASE AllocUnused
  BY <1>2, AllocUnusedInvariant
<1>3. CASE AllocNone \/ Halt \/ UNCHANGED vars
  <2>1. AssertionsHold' /\ UNCHANGED <<list, node, next, stats, walk, pages, mine, used>> /\ Same
    BY <1>3 DEF AllocNone, Halt, vars, AssertionsHold, IInv, stats
  <2> QED BY <2>1, StopInvariant
<1>4. ASSUME NEW o \in Obj, Free(o)
      PROVE  IInv' /\ Takes
  BY <1>4, FreeInvariant
<1>5. CASE FreeUnused
  <2>1. Same
    BY <1>5 DEF FreeUnused, stats
  <2> QED BY <1>5, <2>1, FreeUnusedInvariant
<1>6. CASE FreeUnusedSlab
  <2>1. Same
    BY <1>6 DEF FreeUnusedSlab, Panic, stats, DropSlab
  <2> QED BY <1>6, <2>1, FreeUnusedSlabInvariant
<1>7. ASSUME NEW s \in Slab, AllocNewSlab(s)
      PROVE  IInv' /\ Gives
  BY <1>7, AllocNewSlabInvariant
<1>8. ASSUME NEW s \in Slab, OtherAlloc(s)
      PROVE  IInv' /\ Same
  <2>1. Same
    BY <1>8 DEF OtherAlloc, stats
  <2> QED BY <1>8, <2>1, OtherAllocInvariant
<1>9. ASSUME NEW s \in Slab, OtherFree(s)
      PROVE  IInv' /\ Same
  <2>1. Same
    BY <1>9 DEF OtherFree, stats
  <2> QED BY <1>9, <2>1, OtherFreeInvariant
<1> QED BY <1>1, <1>2, <1>3, <1>4, <1>5, <1>6, <1>7, <1>8, <1>9 DEF Next

-----------------------------------------------------------------------------
(*****************************************************************************)
(* Theorems.                                                                 *)
(*****************************************************************************)

(* The inductive invariant holds in every state. *)
THEOREM SlabInvariant == Spec => []IInv
<1>1. IInv /\ [Next]_vars => IInv'
  BY StepInvariant
<1> QED BY InitInvariant, <1>1, PTL DEF Spec

(* A slab block is the manager's or the page allocator's, never both, and   *)
(* no object of a client lies in pages that were given back, also while     *)
(* free_unused runs.                                                        *)
THEOREM SlabsAreOwned == Spec => []SlabsOwned
<1>1. IInv => SlabsOwned
  BY DEF IInv
<1> QED BY <1>1, SlabInvariant, PTL

(* alloc and free never fail the assertions of the free list, the number of *)
(* available objects and the poison, whatever the clients' order of calls.  *)
THEOREM AssertionsAlwaysHold == Spec => []AssertionsHold
<1>1. IInv => AssertionsHold
  BY DEF IInv
<1> QED BY <1>1, SlabInvariant, PTL

(* Between calls the statistics are exact. *)
THEOREM StatisticsExact == Spec => []StatsExact
<1>1. IInv => StatsExact
  BY DEF IInv, Counted, StatsExact
<1> QED BY <1>1, SlabInvariant, PTL

(* The manager implements the object pool: a successful alloc gives an      *)
(* object that no client has, a free takes one back, and no other step      *)
(* changes what the clients have.                                           *)
THEOREM RefinesObjectPool == Spec => ImplementsObjectPool
<1>1. Init => Pool!Init
  BY DEF Init, Pool!Init
<1>2. IInv /\ [Next]_vars => [Pool!Next]_<<used, objects_allocated>>
  BY StepInvariant DEF Gives, Pool!Next, Pool!Alloc, Pool!Free
<1> QED BY <1>1, <1>2, SlabInvariant, PTL DEF Spec, ImplementsObjectPool, Pool!Spec

(* Between calls, when no slab is unused, every slab of the manager holds   *)
(* an object of a client.                                                   *)
LEMMA NoneUnused ==
  IInv /\ ~Begun /\ list["unused"] = 0 => mine = {SlabOf(o) : o \in used}
<1> SUFFICES ASSUME IInv, ~Begun, list["unused"] = 0 PROVE mine = {SlabOf(o) : o \in used}
  OBVIOUS
<1>1. /\ Intact = mine /\ mine \in SUBSET Slab /\ \A o \in used : SlabOf(o) \in mine
      /\ \A s \in mine : NodeExact(node[s], s, next, used)
  BY DEF IInv, Intact, TypeOK, SlabsOwned
<1>2. Members["unused"] = {}
  <2>1. IsRing(node, 0, Members["unused"]) /\ 0 \notin Members["unused"]
    BY <1>1, SlabAssumption DEF IInv, List, Members, Slab
  <2> QED BY <2>1 DEF IsRing
<1>3. ASSUME NEW s \in mine
      PROVE  \E o \in used : SlabOf(o) = s
  <2> DEFINE n == node[s]
  <2>1. s \in Slab /\ NodeExact(n, s, next, used)
    BY <1>1
  <2>2. n.avail # ObjsPerSlab
    BY <1>1, <1>2 DEF Members, ListOf, List
  <2> HIDE DEF n
  <2>3. ObjectsOf(s) \cap used # {}
    BY <2>1, <2>2, NodeFacts
  <2> QED BY <2>1, <2>3, ObjectOfSlab
<1> QED BY <1>1, <1>3

(* When free_unused returns, or fails because there is nothing to free, the *)
(* manager keeps exactly the slabs with an object in use: the walk of the   *)
(* ring, with a node poisoned behind it, never loses an unused slab.        *)
THEOREM FreeUnusedFreesAll == Spec => FreesAllUnused
<1>0. 0 \notin Slab
  BY SlabAssumption DEF Slab
<1>1. ASSUME IInv, IInv', [Next]_vars,
             (IInv /\ ~Begun /\ list["unused"] = 0 => mine = {SlabOf(o) : o \in used})'
      PROVE  [(walk.on /\ (~walk'.on \/ panic' = "null node")) => mine' = {SlabOf(o) : o \in used}]_vars
  <2> SUFFICES ASSUME walk.on, ~walk'.on \/ panic' = "null node", vars' # vars
               PROVE  mine' = {SlabOf(o) : o \in used}
    OBVIOUS
  <2>1. FreeUnusedSlab
    BY <1>1 DEF Next, AllocInUse, AllocUnused, AllocNone, AllocNewSlab, Free, FreeUnused, Idle, OtherAlloc,
                OtherFree, Halt
  <2>2. CASE walk.at = 0
    <3>1. ~Begun
      <4>1. Begun => WalkExact
        BY <1>1 DEF IInv
      <4> QED BY <1>0, <2>2, <4>1 DEF WalkExact
    <3>2. list["unused"] = 0 /\ mine' = mine
      BY <2>1, <2>2, <3>1 DEF Begun, FreeUnusedSlab, Panic
    <3> QED BY <1>1, <3>1, <3>2, NoneUnused
  <2>3. CASE walk.at # 0
    <3>1. /\ node[walk.at].ok /\ node[walk.at].next = list["unused"] /\ used' = used
          /\ walk' = NotWalking /\ list' = [list EXCEPT !["unused"] = 0]
      <4>1. CASE ~node[walk.at].ok
        <5>1. panic' = "checksum" /\ walk' = walk
          BY <2>1, <2>3, <4>1 DEF FreeUnusedSlab, Panic
        <5> QED BY <5>1
      <4>2. CASE node[walk.at].ok
        <5>1. /\ walk' = (IF node[walk.at].next = list["unused"] THEN NotWalking
                          ELSE [on |-> TRUE, at |-> node[walk.at].next])
              /\ list' = (IF node[walk.at].next = list["unused"] THEN [list EXCEPT !["unused"] = 0] ELSE list)
              /\ panic' = panic /\ panic = "none" /\ used' = used
          BY <2>1, <2>3, <4>2 DEF FreeUnusedSlab
        <5>2. node[walk.at].next = list["unused"]
          BY <5>1
        <5> QED BY <4>2, <5>1, <5>2
      <4> QED BY <4>1, <4>2
    <3>2. ~Begun' /\ list'["unused"] = 0
      BY <1>1, <3>1 DEF Begun, NotWalking, IInv, TypeOK, List
    <3> QED BY <1>1, <3>1, <3>2
  <2> QED BY <2>2, <2>3
<1> QED BY <1>1, NoneUnused, SlabInvariant, PTL DEF Spec, FreesAllUnused

(* The objects a walk of the free chain of slab s meets. *)
LEMMA ChainIs ==
  ASSUME NEW s, NEW n \in Nat, NEW f \in [0 .. n -> Int], f[0] = node[s].free,
         \A k \in 1 .. n : f[k] = IF f[k - 1] \in Obj THEN next[f[k - 1]] ELSE 0
  PROVE  Chain(s, n) = f[n]
<1> DEFINE at == CHOOSE g : g = [k \in 0 .. n |-> IF k = 0 THEN node[s].free
                                                 ELSE IF g[k - 1] \in Obj THEN next[g[k - 1]] ELSE 0]
           S == {k \in Nat : k \in 0 .. n => at[k] = f[k]}
<1>1. Chain(s, n) = at[n]
  BY DEF Chain
<1>2. f = [k \in 0 .. n |-> IF k = 0 THEN node[s].free ELSE IF f[k - 1] \in Obj THEN next[f[k - 1]] ELSE 0]
  OBVIOUS
<1>3. at = [k \in 0 .. n |-> IF k = 0 THEN node[s].free ELSE IF at[k - 1] \in Obj THEN next[at[k - 1]] ELSE 0]
  BY <1>2
<1> HIDE DEF at
<1>4. 0 \in S
  BY <1>3
<1>5. \A k \in Nat : k \in S => k + 1 \in S
  BY <1>3
<1> HIDE DEF S
<1>6. n \in S
  BY <1>4, <1>5, NatSetInduction
<1> QED BY <1>1, <1>6 DEF S

(* The free chain of every slab of the manager holds each of the slab's     *)
(* objects that no client has, once, and ends after them, also while        *)
(* free_unused is between two slabs.                                        *)
THEOREM ChainsExact == Spec => []FreeChainsExact
<1>1. ASSUME IInv, NEW s \in mine, node[s].ok
      PROVE  /\ {Chain(s, i) : i \in 0 .. node[s].avail - 1} = ObjectsOf(s) \ used
             /\ node[s].avail = Cardinality(ObjectsOf(s) \ used)
             /\ Chain(s, node[s].avail) = 0
  <2>1. s \in Slab /\ s \in Intact
    BY <1>1 DEF IInv, TypeOK, Intact, WalkExact
  <2>2. NodeExact(node[s], s, next, used)
    BY <1>1, <2>1 DEF IInv
  <2> DEFINE a == node[s].avail
             F == ObjectsOf(s) \ used
             first == node[s].free
  <2>3. a \in Nat /\ a = Cardinality(F)
    <3> DEFINE nd == node[s]
    <3>1. NodeExact(nd, s, next, used)
      BY <2>2
    <3> HIDE DEF nd
    <3>2. nd.avail \in 0 .. ObjsPerSlab /\ nd.avail = Cardinality(ObjectsOf(s) \ used)
      BY <2>1, <3>1, NodeFacts
    <3> QED BY <3>2, SlabAssumption DEF nd
  <2>4. PICK f : IsChain(f, a, first, next, F, 0)
    BY <2>2 DEF NodeExact
  <2>5. F \subseteq Obj /\ 0 \notin Obj /\ \A x \in Obj : x \in Int
    BY <2>1, ObjectOfSlab, SlabAssumption DEF Obj
  <2> HIDE DEF a, F, first
  <2>6. ASSUME NEW n \in 0 .. a
        PROVE  Chain(s, n) = f[n + 1]
    <3> DEFINE g == [k \in 0 .. n |-> f[k + 1]]
    <3>1. n \in Nat /\ f \in [1 .. a + 1 -> F \cup {0}] /\ f[1] = first
          /\ \A i \in 1 .. a : f[i] \in F /\ next[f[i]] = f[i + 1]
      BY <2>3, <2>4 DEF IsChain
    <3>2. g \in [0 .. n -> Int] /\ g[0] = node[s].free /\ g[n] = f[n + 1]
      BY <2>3, <2>5, <3>1 DEF first
    <3>3. \A k \in 1 .. n : g[k] = IF g[k - 1] \in Obj THEN next[g[k - 1]] ELSE 0
      BY <2>3, <2>5, <3>1
    <3> HIDE DEF g
    <3> QED BY <3>1, <3>2, <3>3, ChainIs
  <2>7. Chain(s, a) = 0
    BY <2>3, <2>4, <2>6 DEF IsChain
  <2>8. {Chain(s, i) : i \in 0 .. a - 1} = F
    <3>1. \A i \in 0 .. a - 1 : Chain(s, i) = f[i + 1] /\ f[i + 1] \in F
      BY <2>3, <2>4, <2>6 DEF IsChain
    <3>2. ASSUME NEW x \in F
          PROVE  \E i \in 0 .. a - 1 : Chain(s, i) = x
      <4>1. PICK j \in 1 .. a : f[j] = x
        BY <2>4 DEF IsChain
      <4>2. j - 1 \in 0 .. a - 1 /\ f[(j - 1) + 1] = x
        BY <2>3, <4>1
      <4> QED BY <3>1, <4>2
    <3> QED BY <3>1, <3>2
  <2> QED BY <2>3, <2>7, <2>8 DEF a, F
<1>2. IInv => FreeChainsExact
  BY <1>1 DEF FreeChainsExact
<1> QED BY <1>2, SlabInvariant, PTL

(* Walking a ring from its head for NumSlabs steps meets all of it: the     *)
(* walk repeats a slab, and from there on it meets nothing new.             *)
LEMMA RingWalk ==
  ASSUME NEW nd, NEW h, NEW S \in SUBSET Slab, h \in S, IsRing(nd, h, S)
  PROVE  \E f \in [0 .. NumSlabs -> S] :
           /\ f[0] = h /\ \A k \in 1 .. NumSlabs : f[k] = nd[f[k - 1]].next
           /\ {f[i] : i \in 0 .. NumSlabs} = S
<1> DEFINE N == NumSlabs
           Is(f, n) == f \in [0 .. n -> S] /\ f[0] = h /\ \A k \in 1 .. n : f[k] = nd[f[k - 1]].next
           P == {n \in Nat : \E f : Is(f, n)}
<1>0. N \in Nat /\ N > 0 /\ \A x \in S : nd[x].next \in S
  BY SlabAssumption DEF IsRing
<1>1. 0 \in P
  <2> DEFINE f == [k \in 0 .. 0 |-> h]
  <2>1. Is(f, 0)
    OBVIOUS
  <2> QED BY <2>1
<1>2. ASSUME NEW n \in Nat, n \in P
      PROVE  n + 1 \in P
  <2>1. PICK f : Is(f, n)
    BY <1>2
  <2> DEFINE g == [k \in 0 .. n + 1 |-> IF k <= n THEN f[k] ELSE nd[f[n]].next]
  <2>2. f[n] \in S
    BY <2>1
  <2>3. g \in [0 .. n + 1 -> S] /\ g[0] = h
    BY <1>0, <2>1, <2>2
  <2>4. \A k \in 1 .. n + 1 : g[k] = nd[g[k - 1]].next
    <3> SUFFICES ASSUME NEW k \in 1 .. n + 1 PROVE g[k] = nd[g[k - 1]].next
      OBVIOUS
    <3>1. CASE k = n + 1
      BY <3>1
    <3>2. CASE k # n + 1
      <4>1. k \in 1 .. n /\ g[k] = f[k] /\ g[k - 1] = f[k - 1]
        BY <3>2
      <4> QED BY <2>1, <4>1
    <3> QED BY <3>1, <3>2
  <2> HIDE DEF g
  <2>5. Is(g, n + 1)
    BY <2>3, <2>4
  <2> QED BY <2>5
<1> HIDE DEF P
<1>3. N \in P
  BY <1>0, <1>1, <1>2, NatSetInduction
<1>4. PICK f : Is(f, N)
  BY <1>3 DEF P
<1>5. PICK i \in 0 .. N, j \in 0 .. N : i < j /\ f[i] = f[j]
  <2>1. IsFiniteSet(S) /\ Cardinality(S) <= N /\ Cardinality(S) \in Nat
    <3>1. IsFiniteSet(Slab) /\ Cardinality(Slab) = N
      <4>1. 1 \in Int /\ N \in Int
        BY <1>0
      <4>2. IsFiniteSet(1 .. N) /\ Cardinality(1 .. N) = IF 1 > N THEN 0 ELSE N - 1 + 1
        BY <4>1, FS_Interval
      <4> QED BY <1>0, <4>2 DEF Slab
    <3> QED BY <3>1, FS_Subset, FS_CardinalityType
  <2>2. IsFiniteSet(0 .. N) /\ Cardinality(0 .. N) = N + 1
    <3>1. 0 \in Int /\ N \in Int
      BY <1>0
    <3>2. IsFiniteSet(0 .. N) /\ Cardinality(0 .. N) = IF 0 > N THEN 0 ELSE N - 0 + 1
      BY <3>1, FS_Interval
    <3> QED BY <1>0, <3>2
  <2> DEFINE D == 0 .. N
  <2>3. f \in [D -> S] /\ IsFiniteSet(D) /\ Cardinality(S) < Cardinality(D)
    BY <1>0, <1>4, <2>1, <2>2
  <2> HIDE DEF D
  <2>4. \E x, y \in D : x # y /\ f[x] = f[y]
    BY <2>1, <2>3, FS_PigeonHole
  <2> QED BY <1>0, <2>4 DEF D
<1> DEFINE Q == {k \in Nat : j + k <= N => f[i + k] = f[j + k]}
           T == {f[k] : k \in 0 .. N}
<1>6. 0 \in Q
  BY <1>5
<1>7. ASSUME NEW k \in Nat, k \in Q
      PROVE  k + 1 \in Q
  <2> SUFFICES ASSUME j + (k + 1) <= N PROVE f[i + (k + 1)] = f[j + (k + 1)]
    OBVIOUS
  <2>1. f[i + k] = f[j + k]
    BY <1>0, <1>5, <1>7
  <2>2. i + (k + 1) \in 1 .. N /\ j + (k + 1) \in 1 .. N
    BY <1>0, <1>5
  <2>3. (i + (k + 1)) - 1 = i + k /\ (j + (k + 1)) - 1 = j + k
    BY <1>5
  <2>4. f[i + (k + 1)] = nd[f[i + k]].next /\ f[j + (k + 1)] = nd[f[j + k]].next
    BY <1>4, <2>2, <2>3
  <2> QED BY <2>1, <2>4
<1> HIDE DEF Q
<1>8. f[i + (N - j)] = f[N]
  <2>1. N - j \in Nat /\ j + (N - j) = N
    BY <1>0, <1>5
  <2>2. N - j \in Q
    BY <1>6, <1>7, <2>1, NatSetInduction
  <2> QED BY <2>1, <2>2 DEF Q
<1>9. ASSUME NEW x \in T
      PROVE  nd[x].next \in T
  <2>1. PICK k \in 0 .. N : x = f[k]
    OBVIOUS
  <2>2. CASE k < N
    <3>1. k + 1 \in 1 .. N /\ k + 1 \in 0 .. N /\ (k + 1) - 1 = k
      BY <1>0, <2>1, <2>2
    <3>2. f[k + 1] = nd[f[k]].next
      BY <1>4, <3>1
    <3> QED BY <2>1, <3>1, <3>2
  <2>3. CASE k = N
    <3> DEFINE q == i + (N - j)
    <3>1. q + 1 \in 1 .. N /\ q + 1 \in 0 .. N /\ (q + 1) - 1 = q
      BY <1>0, <1>5
    <3> HIDE DEF q
    <3>2. f[q + 1] = nd[f[q]].next
      BY <1>4, <3>1
    <3>3. f[q] = f[N]
      BY <1>8 DEF q
    <3> QED BY <2>1, <2>3, <3>1, <3>2, <3>3
  <2> QED BY <1>0, <2>1, <2>2, <2>3
<1>10. T \in SUBSET S /\ h \in T
  BY <1>0, <1>4
<1> HIDE DEF T
<1>11. T = S
  BY <1>9, <1>10 DEF IsRing
<1> QED BY <1>4, <1>11 DEF T

(* The slabs the walk of list l meets are those of its ring. *)
LEMMA RingIs ==
  ASSUME NEW l \in List, NEW S \in SUBSET Slab, IsRing(node, list[l], S)
  PROVE  Ring(l) = S
<1> DEFINE N == NumSlabs
           h == list[l]
<1>0. N \in Nat /\ 0 \notin Slab
  BY SlabAssumption DEF Slab
<1>1. CASE S = {}
  <2>1. list[l] = 0
    BY <1>1 DEF IsRing
  <2> QED BY <1>1, <2>1 DEF Ring
<1>2. CASE S # {}
  <2>1. h \in S /\ h # 0
    BY <1>0, <1>2 DEF IsRing
  <2>2. PICK f \in [0 .. N -> S] :
          /\ f[0] = h /\ \A k \in 1 .. N : f[k] = node[f[k - 1]].next
          /\ {f[i] : i \in 0 .. N} = S
    <3> HIDE DEF h
    <3>1. IsRing(node, h, S)
      BY DEF h
    <3> QED BY <2>1, <3>1, RingWalk
  <2> DEFINE at == CHOOSE g : g = [i \in 0 .. N |-> IF i = 0 THEN list[l]
                                                   ELSE IF g[i - 1] \in Slab THEN node[g[i - 1]].next ELSE 0]
             Q == {k \in Nat : k \in 0 .. N => at[k] = f[k]}
  <2>3. Ring(l) = {at[i] : i \in 0 .. N}
    BY <2>1 DEF Ring
  <2>4. f = [i \in 0 .. N |-> IF i = 0 THEN list[l] ELSE IF f[i - 1] \in Slab THEN node[f[i - 1]].next ELSE 0]
    BY <1>0, <2>2
  <2>5. at = [i \in 0 .. N |-> IF i = 0 THEN list[l] ELSE IF at[i - 1] \in Slab THEN node[at[i - 1]].next ELSE 0]
    BY <2>4
  <2> HIDE DEF at
  <2>6. 0 \in Q
    BY <1>0, <2>2, <2>5
  <2>7. \A k \in Nat : k \in Q => k + 1 \in Q
    BY <1>0, <2>4, <2>5
  <2> HIDE DEF Q
  <2>8. \A k \in Nat : k \in Q
    BY <2>6, <2>7, NatSetInduction
  <2>9. \A k \in 0 .. N : at[k] = f[k]
    BY <1>0, <2>8 DEF Q
  <2> QED BY <2>2, <2>3, <2>9
<1> QED BY <1>1, <1>2

(* Between calls the walk of each list from its head meets exactly the      *)
(* slabs that belong on it, and every link forward is matched by one back.  *)
THEOREM ListsAreExact == Spec => []SlabsOnTheirList
<1>1. ASSUME IInv, ~walk.on
      PROVE  /\ \A l \in List : Ring(l) = {s \in mine : ListOf(s) = l}
             /\ \A s \in mine :
                  /\ node[s].next \in mine /\ node[node[s].next].prev = s
                  /\ node[s].prev \in mine /\ node[node[s].prev].next = s
  <2>1. /\ ~Begun /\ Intact = mine /\ mine \in SUBSET Slab
        /\ \A l \in List : Members[l] = {s \in mine : ListOf(s) = l}
    BY <1>1 DEF Begun, Intact, Members, IInv, TypeOK
  <2>2. \A l \in List : IsRing(node, list[l], Members[l])
    BY <1>1, <2>1 DEF IInv
  <2>3. \A l \in List : Ring(l) = Members[l]
    BY <2>1, <2>2, RingIs
  <2>4. ASSUME NEW s \in mine
        PROVE  /\ node[s].next \in mine /\ node[node[s].next].prev = s
               /\ node[s].prev \in mine /\ node[node[s].prev].next = s
    <3>1. ListOf(s) \in List
      BY DEF ListOf, List
    <3>2. PICK l \in List : s \in Members[l]
      BY <2>1, <3>1
    <3>3. Members[l] \subseteq mine
      BY <2>1
    <3> QED BY <2>2, <3>2, <3>3 DEF IsRing
  <2> QED BY <2>1, <2>3, <2>4
<1>2. IInv => SlabsOnTheirList
  BY <1>1 DEF SlabsOnTheirList
<1> QED BY <1>2, SlabInvariant, PTL

=============================================================================
