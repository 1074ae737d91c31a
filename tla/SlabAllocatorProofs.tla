-------------------------- MODULE SlabAllocatorProofs --------------------------
(*****************************************************************************)
(* Proofs about the core caches and the bundle manager of the slab           *)
(* allocator, for every number of cores, bundles and objects, every size of  *)
(* a bundle and every interleaving of the cores' lock sections.              *)
(*****************************************************************************)
EXTENDS SlabAllocator, Induction

Address == Bundle \cup {Null}
Cache == [current : Address, curr_count : 0 .. BUNDLE_SIZE,
          standby : Address, stby_count : 0 .. BUNDLE_SIZE]
Manager == [empty : Address, full : Address, next : [Bundle -> Address \cup {Poison}], stock : SUBSET Bundle]
Place == {"idle", "standby", "take", "object", "release"}

TypeOK ==
  /\ cache \in [Core -> Cache]
  /\ slots \in [Bundle -> [1 .. BUNDLE_SIZE -> Obj \cup {Null}]]
  /\ mgr \in Manager
  /\ stock \in SUBSET Obj
  /\ op \in [Core -> [at : Place, obj : Obj \cup {Null}]]
  /\ owners \in [Obj -> Nat]
  /\ aliased \in BOOLEAN

(* The links nx chain the bundles of S from h to the null address. *)
IsList(nx, h, S) == \E a \in Nat : \E f : IsChain(f, a, h, nx, S, Null)

(* E is the empty list of the manager m, F its full list, and the link of a *)
(* bundle on neither is poisoned.                                           *)
ListsOf(m, E, F) ==
  /\ m \in Manager /\ E \in SUBSET Bundle /\ F \in SUBSET Bundle
  /\ IsList(m.next, m.empty, E) /\ IsList(m.next, m.full, F)
  /\ E \cap F = {} /\ (E \cup F) \cap m.stock = {}
  /\ \A b \in Bundle \ (E \cup F) : m.next[b] = Poison

(* The bundles of a cache; no bundle is in two caches or in one of them and *)
(* in K.                                                                    *)
Has(k) == {k.current, k.standby} \ {Null}
Owned(ca, K) ==
  \A c \in Core :
    /\ ca[c].current # Null => ca[c].current # ca[c].standby
    /\ Has(ca[c]) \cap K = {}
    /\ \A d \in Core \ {c} : Has(ca[c]) \cap Has(ca[d]) = {}

(* The slots that hold an object: all those of a full bundle, and the       *)
(* counted ones of a bundle of a cache.                                     *)
Holds(k, b, i) == (k.current = b /\ i <= k.curr_count) \/ (k.standby = b /\ i <= k.stby_count)
Held(F, ca) == [b \in Bundle |-> {i \in 1 .. BUNDLE_SIZE : b \in F \/ \E c \in Core : Holds(ca[c], b, i)}]

(* Object o is in a held slot; the objects of the calls. *)
InSlot(sl, H, o) == \E b \in Bundle : \E i \in H[b] : sl[b][i] = o
InCall(oo, o) == \E c \in Core : oo[c].obj = o

(* Every object is in one place: with one client, in the slab layer, in one *)
(* call or in one held slot.                                                *)
Conserved(sl, H, ow, st, oo) ==
  /\ \A b \in Bundle : \A i \in H[b] : sl[b][i] \in Obj
  /\ \A b, d \in Bundle : \A i \in H[b], j \in H[d] : sl[b][i] = sl[d][j] => b = d /\ i = j
  /\ \A c, d \in Core : oo[c].obj = oo[d].obj /\ oo[c].obj # Null => c = d
  /\ \A o \in Obj :
       /\ ow[o] \in {0, 1}
       /\ ow[o] = 1 \/ o \in st \/ InCall(oo, o) \/ InSlot(sl, H, o)
       /\ ow[o] = 1 => o \notin st /\ ~InCall(oo, o) /\ ~InSlot(sl, H, o)
       /\ o \in st => ~InCall(oo, o) /\ ~InSlot(sl, H, o)
       /\ InCall(oo, o) => ~InSlot(sl, H, o)

(* The inductive invariant; E and F are the bundles on the manager's lists. *)
Exact(E, F) ==
  /\ ListsOf(mgr, E, F)
  /\ ~aliased => /\ Owned(cache, E \cup F \cup mgr.stock)
                 /\ Conserved(slots, Held(F, cache), owners, stock, op)

IInv ==
  /\ TypeOK
  /\ CacheIndexSafe
  /\ \A c \in Core : /\ Has(cache[c]) \cap mgr.stock = {}
                     /\ op[c].at = "release" <=> op[c].obj # Null
  /\ \E E, F : Exact(E, F)

-----------------------------------------------------------------------------
(*****************************************************************************)
(* The lists of the bundle manager.                                          *)
(*****************************************************************************)

(* One link changes. *)
SetLink(nx, b, v) == [nx EXCEPT ![b] = v]

(* Setting the link of a bundle leaves the other links alone. *)
LEMMA LinkSet ==
  ASSUME NEW nx \in [Bundle -> Address \cup {Poison}], NEW b \in Bundle, NEW v \in Address \cup {Poison}
  PROVE  /\ SetLink(nx, b, v) \in [Bundle -> Address \cup {Poison}]
         /\ \A x \in Bundle : SetLink(nx, b, v)[x] = IF x = b THEN v ELSE nx[x]
BY DEF SetLink

(* A list leaves the addresses it holds only for the null address. *)
LEMMA ListNext ==
  ASSUME NEW nx, NEW h, NEW S \in SUBSET Bundle, IsList(nx, h, S)
  PROVE  /\ h \in S \cup {Null} /\ (h = Null => S = {})
         /\ \A x \in S : nx[x] \in S \cup {Null} /\ nx[x] # Poison
<1>0. PICK a \in Nat : \E f : IsChain(f, a, h, nx, S, Null)
  BY DEF IsList
<1>1. PICK f : IsChain(f, a, h, nx, S, Null)
  BY <1>0
<1>2. /\ f \in [1 .. a + 1 -> S \cup {Null}] /\ f[1] = h
      /\ \A i \in 1 .. a : f[i] \in S /\ nx[f[i]] = f[i + 1]
      /\ \A o \in S : \E i \in 1 .. a : f[i] = o
  BY <1>1 DEF IsChain
<1>3. h \in S \cup {Null}
  BY <1>2
<1>4. h = Null => S = {}
  <2> SUFFICES ASSUME h = Null, NEW o \in S PROVE FALSE
    OBVIOUS
  <2>1. a > 0
    BY <1>2
  <2>2. f[1] \in S
    BY <1>2, <2>1
  <2> QED BY <1>2, <2>2, AddressAssumption
<1>5. \A x \in S : nx[x] \in S \cup {Null}
  BY <1>2
<1>6. Poison \notin S \cup {Null}
  BY AddressAssumption
<1> QED BY <1>3, <1>4, <1>5, <1>6

(* A list depends on the links of its own bundles only. *)
LEMMA ListLinks ==
  ASSUME NEW nx, NEW ny, NEW h, NEW S, IsList(nx, h, S), \A x \in S : ny[x] = nx[x]
  PROVE  IsList(ny, h, S)
<1>0. PICK a \in Nat : \E f : IsChain(f, a, h, nx, S, Null)
  BY DEF IsList
<1>1. PICK f : IsChain(f, a, h, nx, S, Null)
  BY <1>0
<1>2. IsChain(f, a, h, ny, S, Null)
  BY <1>1, ChainLinks
<1> QED BY <1>2 DEF IsList

(* The first bundle of a list is taken from it. *)
LEMMA ListTake ==
  ASSUME NEW nx, NEW ny, NEW h, NEW S \in SUBSET Bundle, IsList(nx, h, S), h # Null,
         \A x \in S : x # h => ny[x] = nx[x]
  PROVE  h \in S /\ IsList(ny, nx[h], S \ {h})
<1>0. PICK a \in Nat : \E f : IsChain(f, a, h, nx, S, Null)
  BY DEF IsList
<1>1. PICK f : IsChain(f, a, h, nx, S, Null)
  BY <1>0
<1>2. a > 0
  BY <1>1 DEF IsChain
<1>3. h \in S /\ \E g : IsChain(g, a - 1, nx[h], ny, S \ {h}, Null)
  BY <1>1, <1>2, ChainTake
<1>4. a - 1 \in Nat
  BY <1>2
<1> QED BY <1>3, <1>4 DEF IsList

(* A bundle is put before the first one of a list. *)
LEMMA ListPut ==
  ASSUME NEW nx, NEW ny, NEW h, NEW S \in SUBSET Bundle, IsList(nx, h, S), NEW b, b \notin S,
         ny[b] = h, \A x \in S : ny[x] = nx[x]
  PROVE  IsList(ny, b, S \cup {b})
<1>0. PICK a \in Nat : \E f : IsChain(f, a, h, nx, S, Null)
  BY DEF IsList
<1>1. PICK f : IsChain(f, a, h, nx, S, Null)
  BY <1>0
<1>2. \E g : IsChain(g, a + 1, b, ny, S \cup {b}, Null)
  BY <1>1, ChainPut
<1> QED BY <1>2 DEF IsList

(* alloc_empty_bundle takes the first empty bundle, or one the manager does *)
(* not have yet, or nothing.                                                *)
LEMMA AllocEmptyKeeps ==
  ASSUME NEW m, NEW E, NEW F, ListsOf(m, E, F), NEW r \in AllocEmptyBundle(m)
  PROVE  /\ r.m.stock \subseteq m.stock
         /\ r.b = Null => r.m = m
         /\ r.b # Null => r.b \in E \cup m.stock /\ r.b \in Bundle /\ r.b \notin r.m.stock
         /\ \E E2 : ListsOf(r.m, E2, F) /\ E2 \cup r.m.stock \subseteq (E \cup m.stock) \ {r.b}
<1>0. /\ m \in Manager /\ E \in SUBSET Bundle /\ F \in SUBSET Bundle /\ m.next \in [Bundle -> Address \cup {Poison}]
      /\ IsList(m.next, m.empty, E) /\ IsList(m.next, m.full, F) /\ E \cap F = {} /\ (E \cup F) \cap m.stock = {}
      /\ \A b \in Bundle \ (E \cup F) : m.next[b] = Poison
      /\ Poison \in Address \cup {Poison} /\ m.stock \in SUBSET Bundle
  BY DEF ListsOf, Manager
<1>1. CASE m.empty # Null
  <2> DEFINE b == m.empty
             n == SetLink(m.next, b, Poison)
             G == E \ {b}
  <2>1. r.m = [m EXCEPT !.empty = m.next[b], !.next = n] /\ r.b = b
    BY <1>1 DEF AllocEmptyBundle, SetLink
  <2>2. b \in E /\ m.next[b] \in Address
    BY <1>0, <1>1, ListNext DEF Address
  <2>3. n \in [Bundle -> Address \cup {Poison}] /\ \A x \in Bundle : n[x] = IF x = b THEN Poison ELSE m.next[x]
    BY <1>0, <2>2, LinkSet
  <2>4. /\ r.m \in Manager /\ r.m.stock = m.stock /\ r.m.full = m.full /\ r.m.next = n
        /\ r.m.empty = m.next[b]
    BY <1>0, <2>1, <2>2, <2>3 DEF Manager
  <2> HIDE DEF b, n
  <2>5. IsList(n, m.next[b], G)
    BY <1>0, <1>1, <2>3, ListTake DEF b
  <2>6. IsList(n, m.full, F)
    <3>1. \A x \in F : n[x] = m.next[x]
      BY <1>0, <2>2, <2>3
    <3> QED BY <1>0, <3>1, ListLinks
  <2> HIDE DEF G
  <2>7. ListsOf(r.m, G, F)
    BY <1>0, <2>2, <2>3, <2>4, <2>5, <2>6 DEF ListsOf, G
  <2> QED BY <1>0, <1>1, <2>1, <2>2, <2>4, <2>7 DEF G, b
<1>2. CASE m.empty = Null /\ r = [m |-> m, b |-> Null]
  <2>1. r.m = m /\ r.b = Null /\ E = {}
    BY <1>0, <1>2, ListNext
  <2>2. Null \notin m.stock
    BY <1>0, AddressAssumption
  <2> QED BY <1>0, <1>2, <2>1, <2>2
<1>3. CASE m.empty = Null /\ r # [m |-> m, b |-> Null]
  <2>1. PICK b \in m.stock : r = [m |-> [m EXCEPT !.stock = @ \ {b}, !.next = [@ EXCEPT ![b] = Poison]], b |-> b]
    BY <1>3 DEF AllocEmptyBundle
  <2> DEFINE n == SetLink(m.next, b, Poison)
  <2>2. b \in Bundle /\ b \notin E \cup F /\ E = {}
    BY <1>0, <1>3, ListNext
  <2>3. n \in [Bundle -> Address \cup {Poison}] /\ \A x \in Bundle : n[x] = IF x = b THEN Poison ELSE m.next[x]
    BY <1>0, <2>2, LinkSet
  <2>4. r.m = [m EXCEPT !.stock = m.stock \ {b}, !.next = n] /\ r.b = b
    BY <2>1 DEF SetLink
  <2>5. /\ r.m \in Manager /\ r.m.stock = m.stock \ {b} /\ r.m.full = m.full /\ r.m.empty = m.empty /\ r.m.next = n
    <3>1. m.stock \ {b} \in SUBSET Bundle
      BY <1>0
    <3> HIDE DEF n
    <3> QED BY <1>0, <2>3, <2>4, <3>1 DEF Manager
  <2> HIDE DEF n
  <2>6. IsList(n, m.empty, E) /\ IsList(n, m.full, F)
    <3>1. (\A x \in E : n[x] = m.next[x]) /\ \A x \in F : n[x] = m.next[x]
      BY <1>0, <2>2, <2>3
    <3> QED BY <1>0, <3>1, ListLinks
  <2>7. ListsOf(r.m, E, F)
    BY <1>0, <2>2, <2>3, <2>5, <2>6 DEF ListsOf
  <2>8. b # Null
    BY <2>2, AddressAssumption
  <2> QED BY <1>0, <2>2, <2>4, <2>5, <2>7, <2>8
<1> QED BY <1>1, <1>2, <1>3

(* A bundle whose link is poisoned is on no list. *)
LEMMA OnNoList ==
  ASSUME NEW m, NEW E, NEW F, ListsOf(m, E, F), NEW b \in Bundle
  PROVE  m.next[b] = Poison <=> b \notin E \cup F
<1>1. \A x \in E : m.next[x] # Poison
  BY ListNext DEF ListsOf
<1>2. \A x \in F : m.next[x] # Poison
  BY ListNext DEF ListsOf
<1> QED BY <1>1, <1>2 DEF ListsOf

(* return_bundle for an empty bundle puts it on the empty list. *)
LEMMA ReturnEmptyKeeps ==
  ASSUME NEW m, NEW E, NEW F, ListsOf(m, E, F), NEW b \in Address, CanReturn(m, b), b \notin m.stock
  PROVE  /\ ReturnEmpty(m, b).stock = m.stock /\ ReturnEmpty(m, b).full = m.full
         /\ ListsOf(ReturnEmpty(m, b), E \cup ({b} \ {Null}), F) /\ b \notin E \cup F
<1>0. /\ m \in Manager /\ E \in SUBSET Bundle /\ F \in SUBSET Bundle /\ m.next \in [Bundle -> Address \cup {Poison}]
      /\ IsList(m.next, m.empty, E) /\ IsList(m.next, m.full, F) /\ E \cap F = {} /\ (E \cup F) \cap m.stock = {}
      /\ \A x \in Bundle \ (E \cup F) : m.next[x] = Poison
      /\ m.empty \in Address /\ m.empty \in Address \cup {Poison}
  BY DEF ListsOf, Manager
<1>1. CASE b = Null
  <2>1. ReturnEmpty(m, b) = m /\ E \cup ({b} \ {Null}) = E /\ b \notin E \cup F
    BY <1>0, <1>1, AddressAssumption DEF ReturnEmpty
  <2> QED BY <2>1
<1>2. CASE b # Null
  <2> DEFINE n == SetLink(m.next, b, m.empty)
             r == ReturnEmpty(m, b)
             G == E \cup ({b} \ {Null})
  <2>1. b \in Bundle /\ b \notin E \cup F /\ G = E \cup {b}
    BY <1>2, OnNoList DEF CanReturn, Address
  <2>2. n \in [Bundle -> Address \cup {Poison}] /\ \A x \in Bundle : n[x] = IF x = b THEN m.empty ELSE m.next[x]
    BY <1>0, <2>1, LinkSet
  <2>3. r = [m EXCEPT !.next = n, !.empty = b]
    BY <1>2 DEF ReturnEmpty, SetLink
  <2> HIDE DEF n, G
  <2>4. r \in Manager /\ r.stock = m.stock /\ r.full = m.full /\ r.next = n /\ r.empty = b
    BY <1>0, <2>2, <2>3 DEF Manager
  <2> HIDE DEF r
  <2>5. IsList(n, b, G)
    <3>1. n[b] = m.empty /\ \A x \in E : n[x] = m.next[x]
      BY <1>0, <2>1, <2>2
    <3>2. IsList(n, b, E \cup {b})
      BY <1>0, <2>1, <3>1, ListPut
    <3> QED BY <2>1, <3>2
  <2>6. IsList(n, m.full, F)
    <3>1. \A x \in F : n[x] = m.next[x]
      BY <1>0, <2>1, <2>2
    <3> QED BY <1>0, <3>1, ListLinks
  <2>7. ListsOf(r, G, F)
    BY <1>0, <2>1, <2>2, <2>4, <2>5, <2>6 DEF ListsOf
  <2> QED BY <2>1, <2>4, <2>7 DEF r, G
<1> QED BY <1>1, <1>2

(* return_bundle for a full bundle puts it on the full list. *)
LEMMA ReturnFullKeeps ==
  ASSUME NEW m, NEW E, NEW F, ListsOf(m, E, F), NEW b \in Address, CanReturn(m, b), b \notin m.stock
  PROVE  /\ ReturnFull(m, b).stock = m.stock
         /\ ListsOf(ReturnFull(m, b), E, F \cup ({b} \ {Null})) /\ b \notin E \cup F
<1>0. /\ m \in Manager /\ E \in SUBSET Bundle /\ F \in SUBSET Bundle /\ m.next \in [Bundle -> Address \cup {Poison}]
      /\ IsList(m.next, m.empty, E) /\ IsList(m.next, m.full, F) /\ E \cap F = {} /\ (E \cup F) \cap m.stock = {}
      /\ \A x \in Bundle \ (E \cup F) : m.next[x] = Poison
      /\ m.full \in Address /\ m.full \in Address \cup {Poison}
  BY DEF ListsOf, Manager
<1>1. CASE b = Null
  <2>1. ReturnFull(m, b) = m /\ F \cup ({b} \ {Null}) = F /\ b \notin E \cup F
    BY <1>0, <1>1, AddressAssumption DEF ReturnFull
  <2> QED BY <2>1
<1>2. CASE b # Null
  <2> DEFINE n == SetLink(m.next, b, m.full)
             r == ReturnFull(m, b)
             G == F \cup ({b} \ {Null})
  <2>1. b \in Bundle /\ b \notin E \cup F /\ G = F \cup {b}
    BY <1>2, OnNoList DEF CanReturn, Address
  <2>2. n \in [Bundle -> Address \cup {Poison}] /\ \A x \in Bundle : n[x] = IF x = b THEN m.full ELSE m.next[x]
    BY <1>0, <2>1, LinkSet
  <2>3. r = [m EXCEPT !.next = n, !.full = b]
    BY <1>2 DEF ReturnFull, SetLink
  <2> HIDE DEF n, G
  <2>4. r \in Manager /\ r.stock = m.stock /\ r.empty = m.empty /\ r.next = n /\ r.full = b
    BY <1>0, <2>2, <2>3 DEF Manager
  <2> HIDE DEF r
  <2>5. IsList(n, b, G)
    <3>1. n[b] = m.full /\ \A x \in F : n[x] = m.next[x]
      BY <1>0, <2>1, <2>2
    <3>2. IsList(n, b, F \cup {b})
      BY <1>0, <2>1, <3>1, ListPut
    <3> QED BY <2>1, <3>2
  <2>6. IsList(n, m.empty, E)
    <3>1. \A x \in E : n[x] = m.next[x]
      BY <1>0, <2>1, <2>2
    <3> QED BY <1>0, <3>1, ListLinks
  <2>7. ListsOf(r, E, G)
    BY <1>0, <2>1, <2>2, <2>4, <2>5, <2>6 DEF ListsOf
  <2> QED BY <2>1, <2>4, <2>7 DEF r, G
<1> QED BY <1>1, <1>2

(* The first full bundle is taken from its list. *)
LEMMA TakeFullKeeps ==
  ASSUME NEW m, NEW E, NEW F, ListsOf(m, E, F), m.full # Null
  PROVE  /\ m.full \in F /\ TakeFull(m).stock = m.stock
         /\ ListsOf(TakeFull(m), E, F \ {m.full})
<1> DEFINE b == m.full
           n == SetLink(m.next, b, Poison)
           r == TakeFull(m)
           G == F \ {b}
<1>0. /\ m \in Manager /\ E \in SUBSET Bundle /\ F \in SUBSET Bundle /\ m.next \in [Bundle -> Address \cup {Poison}]
      /\ IsList(m.next, m.empty, E) /\ IsList(m.next, m.full, F) /\ E \cap F = {} /\ (E \cup F) \cap m.stock = {}
      /\ \A x \in Bundle \ (E \cup F) : m.next[x] = Poison
      /\ Poison \in Address \cup {Poison}
  BY DEF ListsOf, Manager
<1>1. b \in F /\ b \in Bundle /\ m.next[b] \in Address
  BY <1>0, ListNext DEF Address
<1>2. n \in [Bundle -> Address \cup {Poison}] /\ \A x \in Bundle : n[x] = IF x = b THEN Poison ELSE m.next[x]
  BY <1>0, <1>1, LinkSet
<1>3. r = [m EXCEPT !.full = m.next[b], !.next = n]
  BY DEF TakeFull, SetLink
<1> HIDE DEF n
<1>4. r \in Manager /\ r.stock = m.stock /\ r.empty = m.empty /\ r.next = n /\ r.full = m.next[b]
  BY <1>0, <1>1, <1>2, <1>3 DEF Manager
<1> HIDE DEF r, b, G
<1>5. IsList(n, m.next[b], G)
  BY <1>0, <1>2, ListTake DEF b, G
<1>6. IsList(n, m.empty, E)
  <2>1. \A x \in E : n[x] = m.next[x]
    BY <1>0, <1>1, <1>2
  <2> QED BY <1>0, <2>1, ListLinks
<1>7. ListsOf(r, E, G)
  BY <1>0, <1>1, <1>2, <1>4, <1>5, <1>6 DEF ListsOf, G
<1> QED BY <1>1, <1>4, <1>7 DEF r, G, b

(* A walk of a list from its head meets its bundles, and all of them within *)
(* as many steps as there are bundles.                                      *)
LEMMA ListWalk ==
  ASSUME NEW h, NEW S \in SUBSET Bundle, IsList(mgr.next, h, S)
  PROVE  ChainFrom(h) = S
<1> DEFINE N == Cardinality(Bundle)
           nx == mgr.next
<1>1. PICK a \in Nat : \E f : IsChain(f, a, h, nx, S, Null)
  BY DEF IsList
<1>2. PICK f : IsChain(f, a, h, nx, S, Null)
  BY <1>1
<1>3. N \in Nat /\ a <= N
  <2>1. Cardinality(S) = a
    BY <1>2, ChainSize
  <2> QED BY <2>1, AddressAssumption, FS_Subset, FS_CardinalityType
<1>4. /\ f \in [1 .. a + 1 -> S \cup {Null}] /\ f[1] = h /\ f[a + 1] = Null
      /\ \A i \in 1 .. a : f[i] \in S /\ nx[f[i]] = f[i + 1]
      /\ \A o \in S : \E i \in 1 .. a : f[i] = o
  BY <1>2 DEF IsChain
<1> HIDE DEF N, nx
<1> DEFINE g == [i \in 0 .. N |-> IF i <= a THEN f[i + 1] ELSE Null]
           at == CHOOSE x : x = [i \in 0 .. N |-> IF i = 0 THEN h ELSE IF x[i - 1] \in Bundle THEN nx[x[i - 1]] ELSE Null]
           Q == {k \in Nat : k \in 0 .. N => at[k] = g[k]}
<1>5. ChainFrom(h) = {at[i] : i \in 0 .. N} \cap Bundle
  BY DEF ChainFrom, N, nx
<1>6. ASSUME NEW i \in 1 .. N
      PROVE  g[i] = IF g[i - 1] \in Bundle THEN nx[g[i - 1]] ELSE Null
  <2>1. i \in 0 .. N /\ i - 1 \in 0 .. N
    BY <1>3
  <2>2. CASE i <= a
    <3>1. i \in 1 .. a /\ (i - 1) + 1 = i /\ i - 1 <= a
      BY <2>2
    <3>2. g[i] = f[i + 1] /\ g[i - 1] = f[i]
      BY <2>1, <2>2, <3>1
    <3> HIDE DEF g
    <3> QED BY <1>4, <3>1, <3>2
  <2>3. CASE i = a + 1
    <3>1. (i - 1) + 1 = a + 1 /\ i - 1 <= a /\ ~(i <= a)
      BY <2>3
    <3>2. g[i] = Null /\ g[i - 1] = f[a + 1]
      BY <2>1, <3>1
    <3> HIDE DEF g
    <3> QED BY <1>4, <3>2, AddressAssumption
  <2>4. CASE i > a + 1
    <3>1. ~(i <= a) /\ ~(i - 1 <= a)
      BY <2>4
    <3>2. g[i] = Null /\ g[i - 1] = Null
      BY <2>1, <3>1
    <3> HIDE DEF g
    <3> QED BY <3>2, AddressAssumption
  <2> QED BY <2>2, <2>3, <2>4
<1>7. g[0] = h /\ g \in [0 .. N -> S \cup {Null}]
  BY <1>3, <1>4
<1>8. {g[i] : i \in 0 .. N} \cap Bundle = S
  <2>1. \A i \in 0 .. N : g[i] \in Bundle => g[i] \in S
    BY <1>7, AddressAssumption
  <2>2. ASSUME NEW o \in S
        PROVE  \E i \in 0 .. N : g[i] = o
    <3>1. PICK j \in 1 .. a : f[j] = o
      BY <1>4
    <3>2. j - 1 \in 0 .. N /\ j - 1 <= a /\ (j - 1) + 1 = j
      BY <1>3, <3>1
    <3>3. g[j - 1] = o
      BY <3>1, <3>2
    <3> QED BY <3>2, <3>3
  <2> HIDE DEF g
  <2> QED BY <2>1, <2>2
<1> HIDE DEF g
<1>9. g = [i \in 0 .. N |-> IF i = 0 THEN h ELSE IF g[i - 1] \in Bundle THEN nx[g[i - 1]] ELSE Null]
  BY <1>3, <1>6, <1>7
<1>10. at = [i \in 0 .. N |-> IF i = 0 THEN h ELSE IF at[i - 1] \in Bundle THEN nx[at[i - 1]] ELSE Null]
  BY <1>9
<1> HIDE DEF at
<1>11. 0 \in Q
  BY <1>3, <1>7, <1>10
<1>12. \A k \in Nat : k \in Q => k + 1 \in Q
  BY <1>3, <1>9, <1>10
<1> HIDE DEF Q
<1>13. \A k \in Nat : k \in Q
  BY <1>11, <1>12, NatSetInduction
<1>14. \A k \in 0 .. N : at[k] = g[k]
  BY <1>3, <1>13 DEF Q
<1> QED BY <1>5, <1>8, <1>14

-----------------------------------------------------------------------------
(*****************************************************************************)
(* Moving a bundle and moving an object.                                     *)
(*****************************************************************************)

(* The cache of core c takes bundles G of K, which no cache has, and gives  *)
(* its bundles R away; L is what is left of K, with R.                      *)
Move(ca, cb, c, K, L, G, R) ==
  /\ c \in Core /\ Owned(ca, K) /\ \A d \in Core \ {c} : cb[d] = ca[d]
  /\ cb[c].current # Null => cb[c].current # cb[c].standby
  /\ G \subseteq K /\ Has(cb[c]) \subseteq Has(ca[c]) \cup G
  /\ R \subseteq Has(ca[c]) \ Has(cb[c]) /\ L \subseteq (K \ G) \cup R

(* After such a move every bundle still has one owner. *)
LEMMA OwnedStep ==
  ASSUME NEW ca, NEW cb, NEW c, NEW K, NEW L, NEW G, NEW R, Move(ca, cb, c, K, L, G, R)
  PROVE  Owned(cb, L)
<1>0. /\ c \in Core /\ Owned(ca, K) /\ \A d \in Core \ {c} : cb[d] = ca[d]
      /\ cb[c].current # Null => cb[c].current # cb[c].standby
      /\ G \subseteq K /\ Has(cb[c]) \subseteq Has(ca[c]) \cup G
      /\ R \subseteq Has(ca[c]) \ Has(cb[c]) /\ L \subseteq (K \ G) \cup R
  BY DEF Move
<1>1. /\ Has(ca[c]) \cap K = {}
      /\ \A d \in Core \ {c} : Has(ca[d]) \cap K = {} /\ Has(ca[d]) \cap Has(ca[c]) = {}
  BY <1>0 DEF Owned
<1> SUFFICES ASSUME NEW d \in Core
             PROVE  /\ cb[d].current # Null => cb[d].current # cb[d].standby
                    /\ Has(cb[d]) \cap L = {}
                    /\ \A e \in Core \ {d} : Has(cb[d]) \cap Has(cb[e]) = {}
  BY DEF Owned
<1>2. Has(cb[c]) \cap L = {}
  BY <1>0, <1>1
<1>3. \A e \in Core \ {c} : Has(cb[c]) \cap Has(cb[e]) = {} /\ Has(cb[e]) \cap L = {}
  BY <1>0, <1>1
<1>4. CASE d = c
  BY <1>0, <1>2, <1>3, <1>4
<1>5. CASE d # c
  <2>1. /\ ca[d].current # Null => ca[d].current # ca[d].standby
        /\ \A e \in Core \ {d} : Has(ca[d]) \cap Has(ca[e]) = {}
    BY <1>0, <1>5 DEF Owned
  <2>2. cb[d] = ca[d]
    BY <1>0, <1>5
  <2>3. ASSUME NEW e \in Core \ {d}
        PROVE  Has(cb[d]) \cap Has(cb[e]) = {}
    <3>1. CASE e = c
      BY <1>3, <1>5, <3>1
    <3>2. CASE e # c
      BY <1>0, <2>1, <2>2, <3>2
    <3> QED BY <3>1, <3>2
  <2> QED BY <1>3, <1>5, <2>1, <2>2, <2>3
<1> QED BY <1>4, <1>5

(* Nothing moves. *)
LEMMA Unmoved ==
  ASSUME NEW sl, NEW H, NEW ow, NEW st, NEW oo, Conserved(sl, H, ow, st, oo),
         NEW G, \A b \in Bundle : G[b] = H[b],
         NEW oz, \A c \in Core : oz[c].obj = oo[c].obj
  PROVE  Conserved(sl, G, ow, st, oz)
<1>1. \A o \in Obj : (InCall(oz, o) <=> InCall(oo, o)) /\ (InSlot(sl, G, o) <=> InSlot(sl, H, o))
  BY DEF InCall, InSlot
<1>2. \A b, d \in Bundle : \A i \in G[b], j \in G[d] : sl[b][i] = sl[d][j] => b = d /\ i = j
  BY DEF Conserved
<1>3. \A b \in Bundle : \A i \in G[b] : sl[b][i] \in Obj
  BY DEF Conserved
<1>4. \A c, d \in Core : oz[c].obj = oz[d].obj /\ oz[c].obj # Null => c = d
  BY DEF Conserved
<1> QED BY <1>1, <1>2, <1>3, <1>4 DEF Conserved

(* The held slots G are those of H without, or with, slot i of bundle b. *)
Less(H, G, b, i) ==
  b \in Bundle /\ i \in H[b] /\ \A x \in Bundle : G[x] = IF x = b THEN H[b] \ {i} ELSE H[x]
More(H, G, b, i) ==
  b \in Bundle /\ i \notin H[b] /\ \A x \in Bundle : G[x] = IF x = b THEN H[b] \cup {i} ELSE H[x]

(* The owners of z become n more; the objects of the calls stay; slot i of  *)
(* bundle b is set to z and no held slot changes.                           *)
OwnersOf(ow, ov, z, n) == \A o \in Obj : ov[o] = IF o = z THEN ow[o] + n ELSE ow[o]
SameCalls(oo, oz) == \A c \in Core : oz[c].obj = oo[c].obj
Stored(sl, sm, H, b, i, z) == sm[b][i] = z /\ \A x \in Bundle : \A j \in H[x] : sm[x][j] = sl[x][j]

(* An object goes from a slot to a client. *)
LEMMA SlotToClient ==
  ASSUME NEW sl, NEW H, NEW ow, NEW st, NEW oo, Conserved(sl, H, ow, st, oo),
         NEW b, NEW i, NEW G, Less(H, G, b, i), NEW oz, SameCalls(oo, oz),
         NEW ov, OwnersOf(ow, ov, sl[b][i], 1)
  PROVE  Conserved(sl, G, ov, st, oz)
<1> USE DEF Less, SameCalls, OwnersOf
<1> DEFINE z == sl[b][i]
<1>0. z \in Obj /\ InSlot(sl, H, z)
  BY DEF Conserved, InSlot
<1>1. \A o \in Obj : InCall(oz, o) <=> InCall(oo, o)
  BY DEF InCall
<1>2. \A o \in Obj : InSlot(sl, G, o) <=> InSlot(sl, H, o) /\ o # z
  <2> SUFFICES ASSUME NEW o \in Obj PROVE InSlot(sl, G, o) <=> InSlot(sl, H, o) /\ o # z
    OBVIOUS
  <2>1. ASSUME InSlot(sl, G, o) PROVE InSlot(sl, H, o) /\ o # z
    <3>0. PICK x \in Bundle : \E j \in G[x] : sl[x][j] = o
      BY <2>1 DEF InSlot
    <3>1. PICK j \in G[x] : sl[x][j] = o
      BY <3>0
    <3>2. j \in H[x] /\ (x = b => j # i)
      BY <3>1
    <3>3. sl[x][j] # sl[b][i]
      BY <3>2 DEF Conserved
    <3> QED BY <3>1, <3>2, <3>3 DEF InSlot
  <2>2. ASSUME InSlot(sl, H, o), o # z PROVE InSlot(sl, G, o)
    <3>0. PICK x \in Bundle : \E j \in H[x] : sl[x][j] = o
      BY <2>2 DEF InSlot
    <3>1. PICK j \in H[x] : sl[x][j] = o
      BY <3>0
    <3>2. j \in G[x]
      BY <2>2, <3>1
    <3> QED BY <3>1, <3>2 DEF InSlot
  <2> QED BY <2>1, <2>2
<1>3. \A x, y \in Bundle : \A j \in G[x], k \in G[y] : sl[x][j] = sl[y][k] => x = y /\ j = k
  <2>1. \A x \in Bundle : G[x] \subseteq H[x]
    OBVIOUS
  <2> QED BY <2>1 DEF Conserved
<1>4. \A x \in Bundle : \A j \in G[x] : sl[x][j] \in Obj
  BY DEF Conserved
<1>5. \A c, d \in Core : oz[c].obj = oz[d].obj /\ oz[c].obj # Null => c = d
  BY DEF Conserved
<1>6. ow[z] = 0 /\ z \notin st /\ ~InCall(oo, z)
  BY <1>0 DEF Conserved
<1>7. ov[z] = 1 /\ \A o \in Obj : o # z => ov[o] = ow[o]
  BY <1>0, <1>6
<1> HIDE DEF z
<1>8. ASSUME NEW o \in Obj
      PROVE  /\ ov[o] \in {0, 1}
             /\ ov[o] = 1 \/ o \in st \/ InCall(oz, o) \/ InSlot(sl, G, o)
             /\ ov[o] = 1 => o \notin st /\ ~InCall(oz, o) /\ ~InSlot(sl, G, o)
             /\ o \in st => ~InCall(oz, o) /\ ~InSlot(sl, G, o)
             /\ InCall(oz, o) => ~InSlot(sl, G, o)
  <2>1. CASE o = z
    BY <1>1, <1>2, <1>6, <1>7, <2>1
  <2>2. CASE o # z
    BY <1>1, <1>2, <1>7, <2>2 DEF Conserved
  <2> QED BY <2>1, <2>2
<1> QED BY <1>3, <1>4, <1>5, <1>8 DEF Conserved

(* An object goes from a client to a slot that held none. *)
LEMMA ClientToSlot ==
  ASSUME NEW sl, NEW H, NEW ow, NEW st, NEW oo, Conserved(sl, H, ow, st, oo),
         NEW b, NEW i, NEW G, More(H, G, b, i), NEW z \in Obj, ow[z] > 0,
         NEW sm, Stored(sl, sm, H, b, i, z), NEW ov, OwnersOf(ow, ov, z, -1)
  PROVE  Conserved(sm, G, ov, st, oo)
<1> USE DEF More, Stored, OwnersOf
<1>1. ow[z] = 1 /\ z \notin st /\ ~InCall(oo, z) /\ ~InSlot(sl, H, z)
  BY DEF Conserved
<1>2. \A o \in Obj : InSlot(sm, G, o) <=> InSlot(sl, H, o) \/ o = z
  <2> SUFFICES ASSUME NEW o \in Obj PROVE InSlot(sm, G, o) <=> InSlot(sl, H, o) \/ o = z
    OBVIOUS
  <2>1. ASSUME InSlot(sm, G, o), o # z PROVE InSlot(sl, H, o)
    <3>0. PICK x \in Bundle : \E j \in G[x] : sm[x][j] = o
      BY <2>1 DEF InSlot
    <3>1. PICK j \in G[x] : sm[x][j] = o
      BY <3>0
    <3>2. j \in H[x]
      BY <2>1, <3>1
    <3> QED BY <3>1, <3>2 DEF InSlot
  <2>2. ASSUME InSlot(sl, H, o) PROVE InSlot(sm, G, o)
    <3>0. PICK x \in Bundle : \E j \in H[x] : sl[x][j] = o
      BY <2>2 DEF InSlot
    <3>1. PICK j \in H[x] : sl[x][j] = o
      BY <3>0
    <3>2. j \in G[x] /\ sm[x][j] = o
      BY <3>1
    <3> QED BY <3>2 DEF InSlot
  <2>3. InSlot(sm, G, z)
    <3>1. i \in G[b] /\ sm[b][i] = z
      OBVIOUS
    <3> QED BY <3>1 DEF InSlot
  <2> QED BY <2>1, <2>2, <2>3
<1>3. ASSUME NEW x \in Bundle, NEW y \in Bundle, NEW j \in G[x], NEW k \in G[y], sm[x][j] = sm[y][k]
      PROVE  x = y /\ j = k
  <2>1. \A u \in Bundle : \A v \in H[u] : sm[u][v] # z
    BY <1>1 DEF InSlot
  <2>2. (j \in H[x] \/ (x = b /\ j = i)) /\ (k \in H[y] \/ (y = b /\ k = i))
    BY <1>3
  <2>3. CASE j \in H[x] /\ k \in H[y]
    <3>1. sl[x][j] = sl[y][k]
      BY <1>3, <2>3
    <3> QED BY <2>3, <3>1 DEF Conserved
  <2>4. CASE (x = b /\ j = i) \/ (y = b /\ k = i)
    BY <1>3, <2>1, <2>2, <2>4
  <2> QED BY <2>2, <2>3, <2>4
<1>4. \A x \in Bundle : \A j \in G[x] : sm[x][j] \in Obj
  BY DEF Conserved
<1>5. \A c, d \in Core : oo[c].obj = oo[d].obj /\ oo[c].obj # Null => c = d
  BY DEF Conserved
<1>6. ov[z] = 0 /\ \A o \in Obj : o # z => ov[o] = ow[o]
  BY <1>1
<1>7. ASSUME NEW o \in Obj
      PROVE  /\ ov[o] \in {0, 1}
             /\ ov[o] = 1 \/ o \in st \/ InCall(oo, o) \/ InSlot(sm, G, o)
             /\ ov[o] = 1 => o \notin st /\ ~InCall(oo, o) /\ ~InSlot(sm, G, o)
             /\ o \in st => ~InCall(oo, o) /\ ~InSlot(sm, G, o)
             /\ InCall(oo, o) => ~InSlot(sm, G, o)
  <2>1. CASE o = z
    BY <1>1, <1>2, <1>6, <2>1
  <2>2. CASE o # z
    BY <1>2, <1>6, <2>2 DEF Conserved
  <2> QED BY <2>1, <2>2
<1> QED BY <1>3, <1>4, <1>5, <1>7 DEF Conserved

(* An object goes from the slab layer to a client. *)
LEMMA StockToClient ==
  ASSUME NEW sl, NEW H, NEW ow, NEW st, NEW oo, Conserved(sl, H, ow, st, oo),
         NEW z \in st, z \in Obj, NEW oz, \A c \in Core : oz[c].obj = oo[c].obj,
         NEW ov, \A o \in Obj : ov[o] = IF o = z THEN ow[o] + 1 ELSE ow[o]
  PROVE  Conserved(sl, H, ov, st \ {z}, oz)
<1>1. \A o \in Obj : InCall(oz, o) <=> InCall(oo, o)
  BY DEF InCall
<1>2. ow[z] = 0 /\ ~InCall(oo, z) /\ ~InSlot(sl, H, z)
  BY DEF Conserved
<1>3. ov[z] = 1 /\ \A o \in Obj : o # z => ov[o] = ow[o]
  BY <1>2
<1>4. \A c, d \in Core : oz[c].obj = oz[d].obj /\ oz[c].obj # Null => c = d
  BY DEF Conserved
<1>5. ASSUME NEW o \in Obj
      PROVE  /\ ov[o] \in {0, 1}
             /\ ov[o] = 1 \/ o \in st \ {z} \/ InCall(oz, o) \/ InSlot(sl, H, o)
             /\ ov[o] = 1 => o \notin st \ {z} /\ ~InCall(oz, o) /\ ~InSlot(sl, H, o)
             /\ o \in st \ {z} => ~InCall(oz, o) /\ ~InSlot(sl, H, o)
             /\ InCall(oz, o) => ~InSlot(sl, H, o)
  <2>1. CASE o = z
    BY <1>1, <1>2, <1>3, <2>1
  <2>2. CASE o # z
    BY <1>1, <1>3, <2>2 DEF Conserved
  <2> QED BY <2>1, <2>2
<1> QED BY <1>4, <1>5 DEF Conserved

(* Core c begins a call with object z. *)
Calls(oo, oz, c, z) ==
  c \in Core /\ oo[c].obj = Null /\ oz[c].obj = z /\ \A d \in Core \ {c} : oz[d].obj = oo[d].obj

(* An object goes from a client to the call that frees it. *)
LEMMA ClientToCall ==
  ASSUME NEW sl, NEW H, NEW ow, NEW st, NEW oo, Conserved(sl, H, ow, st, oo),
         NEW z \in Obj, ow[z] > 0, NEW c, NEW oz, Calls(oo, oz, c, z), NEW ov, OwnersOf(ow, ov, z, -1)
  PROVE  Conserved(sl, H, ov, st, oz)
<1> USE DEF Calls, OwnersOf
<1>0. \A o \in Obj : o # Null
  BY AddressAssumption
<1>1. ow[z] = 1 /\ z \notin st /\ ~InCall(oo, z) /\ ~InSlot(sl, H, z)
  BY DEF Conserved
<1>2. \A o \in Obj : InCall(oz, o) <=> InCall(oo, o) \/ o = z
  BY <1>0 DEF InCall
<1>3. ov[z] = 0 /\ \A o \in Obj : o # z => ov[o] = ow[o]
  BY <1>1
<1>4. ASSUME NEW d \in Core, NEW e \in Core, oz[d].obj = oz[e].obj, oz[d].obj # Null
      PROVE  d = e
  <2>1. \A x \in Core : oo[x].obj # z
    BY <1>1 DEF InCall
  <2>2. CASE d # c /\ e # c
    BY <1>4, <2>2 DEF Conserved
  <2>3. CASE d = c \/ e = c
    BY <1>4, <2>1, <2>3
  <2> QED BY <2>2, <2>3
<1>5. ASSUME NEW o \in Obj
      PROVE  /\ ov[o] \in {0, 1}
             /\ ov[o] = 1 \/ o \in st \/ InCall(oz, o) \/ InSlot(sl, H, o)
             /\ ov[o] = 1 => o \notin st /\ ~InCall(oz, o) /\ ~InSlot(sl, H, o)
             /\ o \in st => ~InCall(oz, o) /\ ~InSlot(sl, H, o)
             /\ InCall(oz, o) => ~InSlot(sl, H, o)
  <2>1. CASE o = z
    BY <1>1, <1>2, <1>3, <2>1
  <2>2. CASE o # z
    BY <1>2, <1>3, <2>2 DEF Conserved
  <2> QED BY <2>1, <2>2
<1> QED BY <1>4, <1>5 DEF Conserved

(* An object goes from a call to the slab layer. *)
LEMMA CallToStock ==
  ASSUME NEW sl, NEW H, NEW ow, NEW st, NEW oo, Conserved(sl, H, ow, st, oo),
         NEW c \in Core, oo[c].obj \in Obj,
         NEW oz, oz[c].obj = Null, \A d \in Core \ {c} : oz[d].obj = oo[d].obj
  PROVE  Conserved(sl, H, ow, st \cup {oo[c].obj}, oz)
<1> DEFINE z == oo[c].obj
<1>0. \A o \in Obj : o # Null
  BY AddressAssumption
<1>1. ow[z] # 1 /\ z \notin st /\ InCall(oo, z) /\ ~InSlot(sl, H, z) /\ ow[z] \in {0, 1}
  BY DEF Conserved, InCall
<1>2. \A d \in Core \ {c} : oo[d].obj # z
  BY <1>0 DEF Conserved
<1>3. \A o \in Obj : InCall(oz, o) <=> InCall(oo, o) /\ o # z
  BY <1>0, <1>2 DEF InCall
<1>4. ASSUME NEW d \in Core, NEW e \in Core, oz[d].obj = oz[e].obj, oz[d].obj # Null
      PROVE  d = e
  BY <1>4 DEF Conserved
<1>5. ASSUME NEW o \in Obj
      PROVE  /\ ow[o] \in {0, 1}
             /\ ow[o] = 1 \/ o \in st \cup {z} \/ InCall(oz, o) \/ InSlot(sl, H, o)
             /\ ow[o] = 1 => o \notin st \cup {z} /\ ~InCall(oz, o) /\ ~InSlot(sl, H, o)
             /\ o \in st \cup {z} => ~InCall(oz, o) /\ ~InSlot(sl, H, o)
             /\ InCall(oz, o) => ~InSlot(sl, H, o)
  <2> HIDE DEF z
  <2>1. CASE o = z
    BY <1>1, <1>3, <2>1
  <2>2. CASE o # z
    BY <1>3, <2>2 DEF Conserved
  <2> QED BY <2>1, <2>2
<1> HIDE DEF z
<1>6. Conserved(sl, H, ow, st \cup {z}, oz)
  BY <1>4, <1>5 DEF Conserved
<1> QED BY <1>6 DEF z

-----------------------------------------------------------------------------
(*****************************************************************************)
(* The steps keep the invariant.                                             *)
(*****************************************************************************)

(* The indexes of one cache are safe. *)
SafeCache(k) ==
  /\ k.curr_count \in 0 .. BUNDLE_SIZE /\ k.stby_count \in 0 .. BUNDLE_SIZE
  /\ k.curr_count > 0 => k.current # Null
  /\ k.stby_count > 0 => k.standby # Null

(* What the invariant says after a step. *)
LEMMA Establish ==
  ASSUME TypeOK', \A c \in Core : SafeCache(cache'[c]),
         \A c \in Core : Has(cache'[c]) \cap mgr'.stock = {} /\ (op'[c].at = "release" <=> op'[c].obj # Null),
         NEW E, NEW F, ListsOf(mgr', E, F),
         ~aliased' => /\ Owned(cache', E \cup F \cup mgr'.stock)
                      /\ Conserved(slots', Held(F, cache'), owners', stock', op')
  PROVE  IInv'
<1>1. CacheIndexSafe'
  BY DEF CacheIndexSafe, SafeCache
<1>2. Exact(E, F)'
  BY DEF Exact
<1> QED BY <1>1, <1>2 DEF IInv

(* Everything the invariant speaks of stays as it was. *)
LEMMA StopInvariant ==
  ASSUME IInv, UNCHANGED <<cache, slots, mgr, stock, op, owners, aliased>>
  PROVE  IInv'
<1>1. PICK E, F : Exact(E, F)
  BY DEF IInv
<1>2. Exact(E, F)'
  BY <1>1 DEF Exact
<1> QED BY <1>2 DEF IInv, TypeOK, CacheIndexSafe

(* A step of a call that frees nothing keeps the objects of the calls. *)
LEMMA GotoKeeps ==
  ASSUME IInv, NEW c \in Core, NEW from \in Place \ {"release"}, NEW to \in Place \ {"release"}, At(c, from), Goto(c, to)
  PROVE  /\ op' \in [Core -> [at : Place, obj : Obj \cup {Null}]]
         /\ \A d \in Core : op'[d].obj = op[d].obj /\ (op'[d].at = "release" <=> op'[d].obj # Null)
<1>1. op \in [Core -> [at : Place, obj : Obj \cup {Null}]] /\ \A d \in Core : op[d].at = "release" <=> op[d].obj # Null
  BY DEF IInv, TypeOK
<1>2. op[c].at = from /\ op' = [op EXCEPT ![c].at = to]
  BY DEF At, Goto
<1>3. op[c].obj = Null
  BY <1>1, <1>2
<1>4. op'[c].at = to /\ op'[c].obj = op[c].obj /\ \A d \in Core \ {c} : op'[d] = op[d]
  BY <1>1, <1>2
<1> QED BY <1>1, <1>2, <1>3, <1>4

(* A step that changes the place of a call only. *)
LEMMA GotoInvariant ==
  ASSUME IInv, op' \in [Core -> [at : Place, obj : Obj \cup {Null}]],
         \A d \in Core : op'[d].obj = op[d].obj /\ (op'[d].at = "release" <=> op'[d].obj # Null),
         UNCHANGED <<cache, slots, mgr, stock, owners, aliased>>
  PROVE  IInv'
<1>1. PICK E, F : Exact(E, F)
  BY DEF IInv
<1>2. TypeOK' /\ (\A d \in Core : SafeCache(cache'[d])) /\ \A d \in Core : Has(cache'[d]) \cap mgr'.stock = {}
  BY DEF IInv, TypeOK, CacheIndexSafe, SafeCache
<1>3. ASSUME ~aliased'
      PROVE  Conserved(slots', Held(F, cache'), owners', stock', op')
  <2>1. Conserved(slots, Held(F, cache), owners, stock, op)
    BY <1>1, <1>3 DEF Exact
  <2> QED BY <2>1, Unmoved
<1>4. ListsOf(mgr', E, F) /\ (~aliased' => Owned(cache', E \cup F \cup mgr'.stock))
  BY <1>1 DEF Exact
<1> QED BY <1>2, <1>3, <1>4, Establish

(* A cache gets an empty bundle for the place where it has none. *)
LEMMA GetBundle ==
  ASSUME IInv, NEW c \in Core, NEW r \in AllocEmptyBundle(mgr), mgr' = r.m,
         NEW k \in Cache, cache' = [cache EXCEPT ![c] = k], SafeCache(k),
         \/ k.current = r.b /\ k.standby = cache[c].standby
         \/ k.current = cache[c].current /\ k.standby = r.b,
         \A b \in Bundle : \A i \in 1 .. BUNDLE_SIZE : Holds(k, b, i) <=> Holds(cache[c], b, i),
         op' \in [Core -> [at : Place, obj : Obj \cup {Null}]],
         \A d \in Core : op'[d].obj = op[d].obj /\ (op'[d].at = "release" <=> op'[d].obj # Null),
         UNCHANGED <<slots, stock, owners, aliased>>
  PROVE  IInv'
<1>1. PICK E, F : Exact(E, F)
  BY DEF IInv
<1>2. ListsOf(mgr, E, F) /\ TypeOK /\ CacheIndexSafe /\ cache \in [Core -> Cache]
  BY <1>1 DEF Exact, IInv, TypeOK
<1>3. /\ r.m.stock \subseteq mgr.stock
      /\ r.b # Null => r.b \in E \cup mgr.stock /\ r.b \in Bundle /\ r.b \notin r.m.stock
  BY <1>2, AllocEmptyKeeps
<1>4. PICK E2 : ListsOf(r.m, E2, F) /\ E2 \cup r.m.stock \subseteq (E \cup mgr.stock) \ {r.b}
  BY <1>2, AllocEmptyKeeps
<1>5. cache'[c] = k /\ \A d \in Core \ {c} : cache'[d] = cache[d]
  BY <1>2
<1>6. TypeOK'
  BY <1>2, <1>4 DEF TypeOK, ListsOf
<1>7. ASSUME NEW d \in Core
      PROVE  SafeCache(cache'[d]) /\ Has(cache'[d]) \cap mgr'.stock = {}
  <2>1. SafeCache(cache[d]) /\ Has(cache[d]) \cap mgr.stock = {}
    BY DEF IInv, CacheIndexSafe, SafeCache
  <2>2. CASE d # c
    BY <1>3, <1>5, <2>1, <2>2
  <2>3. CASE d = c
    <3>1. \A x \in Has(k) : x \in Has(cache[c]) \/ (x = r.b /\ x # Null)
      BY DEF Has
    <3>2. Has(k) \cap r.m.stock = {}
      BY <1>3, <2>1, <2>3, <3>1
    <3> QED BY <1>5, <2>3, <3>2
  <2> QED BY <2>2, <2>3
<1>8. ASSUME ~aliased'
      PROVE  Owned(cache', E2 \cup F \cup mgr'.stock)
  <2> DEFINE K == E \cup F \cup mgr.stock
             L == E2 \cup F \cup mgr'.stock
             G == {r.b} \ {Null}
  <2>1. Owned(cache, K) /\ E \cap F = {} /\ (E \cup F) \cap mgr.stock = {}
    BY <1>1, <1>8 DEF Exact, ListsOf
  <2>2. G \in SUBSET K /\ L \subseteq K \ G
    BY <1>3, <1>4, <2>1
  <2>3. Has(k) \subseteq Has(cache[c]) \cup G
    BY DEF Has
  <2>4. k.current # Null => k.current # k.standby
    <3>1. Has(cache[c]) \cap K = {} /\ (cache[c].current # Null => cache[c].current # cache[c].standby)
      BY <2>1 DEF Owned
    <3>2. r.b # Null => r.b \notin Has(cache[c])
      BY <2>2, <3>1
    <3>3. \A x \in {cache[c].current, cache[c].standby} : x # Null => x \in Has(cache[c])
      BY DEF Has
    <3>4. CASE k.current = r.b /\ k.standby = cache[c].standby
      BY <3>2, <3>3, <3>4
    <3>5. CASE k.current = cache[c].current /\ k.standby = r.b
      BY <3>2, <3>3, <3>5
    <3> QED BY <3>4, <3>5
  <2>5. Move(cache, cache', c, K, L, G, {})
    <3>1. \A d \in Core \ {c} : cache'[d] = cache[d]
      BY <1>5
    <3>2. Has(cache'[c]) \subseteq Has(cache[c]) \cup G /\ (cache'[c].current # Null => cache'[c].current # cache'[c].standby)
      BY <1>5, <2>3, <2>4
    <3> HIDE DEF K, L, G
    <3> QED BY <2>1, <2>2, <3>1, <3>2 DEF Move
  <2> HIDE DEF K, L, G
  <2>6. Owned(cache', L)
    BY <2>5, OwnedStep
  <2> QED BY <2>6 DEF L
<1>9. ASSUME ~aliased'
      PROVE  Conserved(slots', Held(F, cache'), owners', stock', op')
  <2>1. Conserved(slots, Held(F, cache), owners, stock, op)
    BY <1>1, <1>9 DEF Exact
  <2>2. \A b \in Bundle : Held(F, cache')[b] = Held(F, cache)[b]
    <3>1. \A b \in Bundle : \A i \in 1 .. BUNDLE_SIZE : \A d \in Core : Holds(cache'[d], b, i) <=> Holds(cache[d], b, i)
      BY <1>5
    <3> QED BY <3>1 DEF Held
  <2> DEFINE H == Held(F, cache)
             J == Held(F, cache')
  <2> HIDE DEF H, J
  <2>3. Conserved(slots, H, owners, stock, op) /\ \A b \in Bundle : J[b] = H[b]
    BY <2>1, <2>2 DEF H, J
  <2>4. Conserved(slots, J, owners, stock, op')
    BY <2>3, Unmoved
  <2> QED BY <2>4 DEF J
<1> QED BY <1>4, <1>6, <1>7, <1>8, <1>9, Establish

(* alloc gets a current bundle. *)
LEMMA AllocCurrentInvariant ==
  ASSUME IInv, NEW c \in Core, AllocCurrent(c)
  PROVE  IInv'
<1>1. /\ At(c, "idle") /\ Goto(c, "standby") /\ "idle" \in Place \ {"release"} /\ "standby" \in Place \ {"release"}
      /\ UNCHANGED <<slots, stock, owners, panic, aliased>>
  BY DEF AllocCurrent, Place
<1>2. /\ op' \in [Core -> [at : Place, obj : Obj \cup {Null}]]
      /\ \A d \in Core : op'[d].obj = op[d].obj /\ (op'[d].at = "release" <=> op'[d].obj # Null)
  BY <1>1, GotoKeeps
<1>3. PICK E, F : Exact(E, F)
  BY DEF IInv
<1>4. CASE cache[c].current # Null
  <2>1. UNCHANGED <<mgr, cache>>
    BY <1>4 DEF AllocCurrent
  <2> QED BY <1>1, <1>2, <2>1, GotoInvariant
<1>5. CASE cache[c].current = Null
  <2>1. PICK r \in AllocEmptyBundle(mgr) : mgr' = r.m /\ cache' = [cache EXCEPT ![c].current = r.b]
    BY <1>5 DEF AllocCurrent
  <2> DEFINE k == [cache[c] EXCEPT !.current = r.b]
  <2>2. cache \in [Core -> Cache] /\ cache[c] \in Cache /\ cache[c].curr_count = 0
    BY <1>5, BundleAssumption DEF IInv, TypeOK, CacheIndexSafe
  <2>3. r.b \in Address
    BY <1>3, AllocEmptyKeeps DEF Exact, Address
  <2>4. /\ k \in Cache /\ k.current = r.b /\ k.standby = cache[c].standby /\ k.curr_count = 0
        /\ k.stby_count = cache[c].stby_count /\ cache' = [cache EXCEPT ![c] = k]
    BY <2>1, <2>2, <2>3 DEF Cache
  <2> HIDE DEF k
  <2>5. SafeCache(k)
    BY <2>4, BundleAssumption DEF SafeCache, IInv, CacheIndexSafe
  <2>6. \A b \in Bundle : \A i \in 1 .. BUNDLE_SIZE : Holds(k, b, i) <=> Holds(cache[c], b, i)
    BY <2>2, <2>4, BundleAssumption DEF Holds
  <2> QED BY <1>1, <1>2, <2>1, <2>4, <2>5, <2>6, GetBundle
<1> QED BY <1>4, <1>5

(* alloc gets a standby bundle. *)
LEMMA AllocStandbyInvariant ==
  ASSUME IInv, NEW c \in Core, AllocStandby(c)
  PROVE  IInv'
<1>1. /\ At(c, "standby") /\ Goto(c, "take") /\ "take" \in Place \ {"release"} /\ "standby" \in Place \ {"release"}
      /\ UNCHANGED <<slots, stock, owners, panic, aliased>>
  BY DEF AllocStandby, Place
<1>2. /\ op' \in [Core -> [at : Place, obj : Obj \cup {Null}]]
      /\ \A d \in Core : op'[d].obj = op[d].obj /\ (op'[d].at = "release" <=> op'[d].obj # Null)
  BY <1>1, GotoKeeps
<1>3. PICK E, F : Exact(E, F)
  BY DEF IInv
<1>4. CASE cache[c].standby # Null
  <2>1. UNCHANGED <<mgr, cache>>
    BY <1>4 DEF AllocStandby
  <2> QED BY <1>1, <1>2, <2>1, GotoInvariant
<1>5. CASE cache[c].standby = Null
  <2>1. PICK r \in AllocEmptyBundle(mgr) : mgr' = r.m /\ cache' = [cache EXCEPT ![c].standby = r.b]
    BY <1>5 DEF AllocStandby
  <2> DEFINE k == [cache[c] EXCEPT !.standby = r.b]
  <2>2. cache \in [Core -> Cache] /\ cache[c] \in Cache /\ cache[c].stby_count = 0
    BY <1>5, BundleAssumption DEF IInv, TypeOK, CacheIndexSafe
  <2>3. r.b \in Address
    BY <1>3, AllocEmptyKeeps DEF Exact, Address
  <2>4. /\ k \in Cache /\ k.standby = r.b /\ k.current = cache[c].current /\ k.stby_count = 0
        /\ k.curr_count = cache[c].curr_count /\ cache' = [cache EXCEPT ![c] = k]
    BY <2>1, <2>2, <2>3 DEF Cache
  <2> HIDE DEF k
  <2>5. SafeCache(k)
    BY <2>4, BundleAssumption DEF SafeCache, IInv, CacheIndexSafe
  <2>6. \A b \in Bundle : \A i \in 1 .. BUNDLE_SIZE : Holds(k, b, i) <=> Holds(cache[c], b, i)
    BY <2>2, <2>4, BundleAssumption DEF Holds
  <2> QED BY <1>1, <1>2, <2>1, <2>4, <2>5, <2>6, GetBundle
<1> QED BY <1>4, <1>5

(* alloc finds no full bundle and goes to the slab layer. *)
LEMMA AllocMissInvariant ==
  ASSUME IInv, NEW c \in Core, AllocMiss(c)
  PROVE  IInv'
<1>1. /\ At(c, "take") /\ Goto(c, "object") /\ "take" \in Place \ {"release"} /\ "object" \in Place \ {"release"}
      /\ UNCHANGED <<cache, slots, mgr, stock, owners, aliased>>
  BY DEF AllocMiss, Place
<1>2. /\ op' \in [Core -> [at : Place, obj : Obj \cup {Null}]]
      /\ \A d \in Core : op'[d].obj = op[d].obj /\ (op'[d].at = "release" <=> op'[d].obj # Null)
  BY <1>1, GotoKeeps
<1> QED BY <1>1, <1>2, GotoInvariant

(* alloc takes an object of the slab layer. *)
LEMMA AllocObjectInvariant ==
  ASSUME IInv, NEW c \in Core, AllocObject(c)
  PROVE  IInv'
<1>1. /\ At(c, "object") /\ Goto(c, "idle") /\ "idle" \in Place \ {"release"} /\ "object" \in Place \ {"release"}
      /\ UNCHANGED <<cache, slots, mgr, aliased>>
  BY DEF AllocObject, Place
<1>2. /\ op' \in [Core -> [at : Place, obj : Obj \cup {Null}]]
      /\ \A d \in Core : op'[d].obj = op[d].obj /\ (op'[d].at = "release" <=> op'[d].obj # Null)
  BY <1>1, GotoKeeps
<1>3. CASE UNCHANGED <<stock, owners>>
  BY <1>1, <1>2, <1>3, GotoInvariant
<1>4. CASE ~UNCHANGED <<stock, owners>>
  <2>1. PICK z \in stock : stock' = stock \ {z} /\ Give(z)
    BY <1>4 DEF AllocObject
  <2>2. stock \in SUBSET Obj /\ owners \in [Obj -> Nat] /\ z \in Obj
    BY DEF IInv, TypeOK
  <2>3. owners' = [owners EXCEPT ![z] = owners[z] + 1]
    BY <2>1, <2>2, AddressAssumption DEF Give
  <2>4. owners' \in [Obj -> Nat] /\ \A o \in Obj : owners'[o] = IF o = z THEN owners[o] + 1 ELSE owners[o]
    BY <2>2, <2>3
  <2>5. PICK E, F : Exact(E, F)
    BY DEF IInv
  <2>6. TypeOK' /\ (\A d \in Core : SafeCache(cache'[d])) /\ \A d \in Core : Has(cache'[d]) \cap mgr'.stock = {}
    BY <1>1, <1>2, <2>1, <2>4 DEF IInv, TypeOK, CacheIndexSafe, SafeCache
  <2>7. ASSUME ~aliased'
        PROVE  Conserved(slots', Held(F, cache'), owners', stock', op')
    <3> DEFINE H == Held(F, cache)
    <3>1. Conserved(slots, H, owners, stock, op)
      BY <1>1, <2>5, <2>7 DEF Exact
    <3> HIDE DEF H
    <3>2. Conserved(slots, H, owners', stock \ {z}, op')
      BY <1>2, <2>2, <2>4, <3>1, StockToClient
    <3> QED BY <1>1, <2>1, <3>2 DEF H
  <2>8. ListsOf(mgr', E, F) /\ (~aliased' => Owned(cache', E \cup F \cup mgr'.stock))
    BY <1>1, <2>5 DEF Exact
  <2> QED BY <1>2, <2>6, <2>7, <2>8, Establish
<1> QED BY <1>3, <1>4

(* free gives an object to the slab layer. *)
LEMMA FreeObjectInvariant ==
  ASSUME IInv, NEW c \in Core, FreeObject(c)
  PROVE  IInv'
<1>1. CASE op[c].obj \in stock
  <2>1. UNCHANGED <<cache, slots, mgr, stock, op, owners, aliased>>
    BY <1>1 DEF FreeObject, Panic
  <2> QED BY <2>1, StopInvariant
<1>2. CASE op[c].obj \notin stock
  <2> DEFINE z == op[c].obj
  <2>1. /\ op[c].at = "release" /\ stock' = stock \cup {z} /\ op' = [op EXCEPT ![c] = Idle]
        /\ UNCHANGED <<cache, slots, mgr, owners, aliased>>
    BY <1>2 DEF FreeObject, At
  <2>2. /\ op \in [Core -> [at : Place, obj : Obj \cup {Null}]] /\ stock \in SUBSET Obj
        /\ \A d \in Core : op[d].at = "release" <=> op[d].obj # Null
    BY DEF IInv, TypeOK
  <2>3. z \in Obj
    BY <2>1, <2>2
  <2>4. Idle \in [at : Place, obj : Obj \cup {Null}] /\ Idle.obj = Null /\ Idle.at # "release"
    BY DEF Idle, Place
  <2>5. op'[c] = Idle /\ op' \in [Core -> [at : Place, obj : Obj \cup {Null}]] /\ \A d \in Core \ {c} : op'[d] = op[d]
    BY <2>1, <2>2, <2>4
  <2>6. \A d \in Core : op'[d].at = "release" <=> op'[d].obj # Null
    BY <2>2, <2>4, <2>5
  <2>7. PICK E, F : Exact(E, F)
    BY DEF IInv
  <2>8. TypeOK' /\ (\A d \in Core : SafeCache(cache'[d])) /\ \A d \in Core : Has(cache'[d]) \cap mgr'.stock = {}
    BY <2>1, <2>2, <2>3, <2>5 DEF IInv, TypeOK, CacheIndexSafe, SafeCache
  <2>9. ASSUME ~aliased'
        PROVE  Conserved(slots', Held(F, cache'), owners', stock', op')
    <3> DEFINE H == Held(F, cache)
    <3>1. Conserved(slots, H, owners, stock, op)
      BY <2>1, <2>7, <2>9 DEF Exact
    <3> HIDE DEF H
    <3>2. op'[c].obj = Null /\ \A d \in Core \ {c} : op'[d].obj = op[d].obj
      BY <2>4, <2>5
    <3>3. Conserved(slots, H, owners, stock \cup {op[c].obj}, op')
      BY <2>3, <3>1, <3>2, CallToStock
    <3> QED BY <2>1, <3>3 DEF H
  <2>10. ListsOf(mgr', E, F) /\ (~aliased' => Owned(cache', E \cup F \cup mgr'.stock))
    BY <2>1, <2>7 DEF Exact
  <2> QED BY <2>6, <2>8, <2>9, <2>10, Establish
<1> QED BY <1>1, <1>2

(* Exchanging the two bundles of a cache changes neither what it has nor    *)
(* what it holds.                                                           *)
LEMMA SwapKeeps ==
  ASSUME NEW k \in Cache, SafeCache(k)
  PROVE  /\ Swap(k) \in Cache /\ SafeCache(Swap(k)) /\ Has(Swap(k)) = Has(k)
         /\ \A b, i : Holds(Swap(k), b, i) <=> Holds(k, b, i)
         /\ (k.current # Null => k.current # k.standby)
               => (Swap(k).current # Null => Swap(k).current # Swap(k).standby)
<1>1. /\ Swap(k).current = k.standby /\ Swap(k).standby = k.current
      /\ Swap(k).curr_count = k.stby_count /\ Swap(k).stby_count = k.curr_count
  BY DEF Swap
<1>2. Swap(k) \in Cache
  BY DEF Swap, Cache
<1> QED BY <1>1, <1>2 DEF SafeCache, Has, Holds

(* A client gets the object o, if it is one. *)
LEMMA GiveKeeps ==
  ASSUME owners \in [Obj -> Nat], NEW o \in Obj \cup {Null}, Give(o)
  PROVE  /\ owners' \in [Obj -> Nat]
         /\ o \in Obj => \A x \in Obj : owners'[x] = IF x = o THEN owners[x] + 1 ELSE owners[x]
BY AddressAssumption DEF Give

(* A client drops the object o. *)
LEMMA DropKeeps ==
  ASSUME owners \in [Obj -> Nat], NEW o \in Obj, Drop(o)
  PROVE  /\ owners[o] > 0 /\ owners' \in [Obj -> Nat]
         /\ \A x \in Obj : owners'[x] = IF x = o THEN owners[x] - 1 ELSE owners[x]
BY DEF Drop

(* Only the cache of core c changes, and it alone has bundle b; of the held *)
(* slots of the caches, slot n of b is dropped, or added.                   *)
Alone(F, ca, cb, c, b) ==
  /\ c \in Core /\ b \in Bundle /\ b \notin F
  /\ \A d \in Core \ {c} : cb[d] = ca[d] /\ b \notin Has(ca[d])
Drops(k, e, b, n) ==
  /\ n \in 1 .. BUNDLE_SIZE /\ Holds(k, b, n)
  /\ \A x \in Bundle : \A i \in 1 .. BUNDLE_SIZE : Holds(e, x, i) <=> Holds(k, x, i) /\ ~(x = b /\ i = n)
Adds(k, e, b, n) ==
  /\ n \in 1 .. BUNDLE_SIZE /\ ~Holds(k, b, n)
  /\ \A x \in Bundle : \A i \in 1 .. BUNDLE_SIZE : Holds(e, x, i) <=> Holds(k, x, i) \/ (x = b /\ i = n)

(* A bundle that one cache has alone is held as that cache holds it. *)
LEMMA HeldLess ==
  ASSUME NEW F, NEW ca, NEW cb, NEW c, NEW b, Alone(F, ca, cb, c, b), NEW n, Drops(ca[c], cb[c], b, n)
  PROVE  Less(Held(F, ca), Held(F, cb), b, n)
<1> USE DEF Alone, Drops
<1>1. \A d \in Core \ {c} : \A i : ~Holds(ca[d], b, i)
  BY AddressAssumption DEF Has, Holds
<1>2. ASSUME NEW x \in Bundle, NEW i \in 1 .. BUNDLE_SIZE
      PROVE  (\E d \in Core : Holds(cb[d], x, i)) <=> (\E d \in Core : Holds(ca[d], x, i)) /\ ~(x = b /\ i = n)
  BY <1>1
<1>3. \A x \in Bundle : Held(F, cb)[x] = IF x = b THEN Held(F, ca)[b] \ {n} ELSE Held(F, ca)[x]
  BY <1>2 DEF Held
<1>4. n \in Held(F, ca)[b]
  BY DEF Held
<1> QED BY <1>3, <1>4 DEF Less

(* The same for a slot that is added. *)
LEMMA HeldMore ==
  ASSUME NEW F, NEW ca, NEW cb, NEW c, NEW b, Alone(F, ca, cb, c, b), NEW n, Adds(ca[c], cb[c], b, n)
  PROVE  More(Held(F, ca), Held(F, cb), b, n)
<1> USE DEF Alone, Adds
<1>1. \A d \in Core \ {c} : \A i : ~Holds(ca[d], b, i)
  BY AddressAssumption DEF Has, Holds
<1>2. ASSUME NEW x \in Bundle, NEW i \in 1 .. BUNDLE_SIZE
      PROVE  (\E d \in Core : Holds(cb[d], x, i)) <=> (\E d \in Core : Holds(ca[d], x, i)) \/ (x = b /\ i = n)
  BY <1>1
<1>3. ~\E d \in Core : Holds(ca[d], b, n)
  BY <1>1
<1>4. \A x \in Bundle : Held(F, cb)[x] = IF x = b THEN Held(F, ca)[b] \cup {n} ELSE Held(F, ca)[x]
  BY <1>2 DEF Held
<1>5. n \notin Held(F, ca)[b]
  BY <1>3 DEF Held
<1> QED BY <1>4, <1>5 DEF More

(* alloc takes the last object of the bundle of a cache. *)
LEMMA AllocCachedInvariant ==
  ASSUME IInv, NEW c \in Core, AllocCached(c)
  PROVE  IInv'
<1>1. /\ At(c, "take") /\ Goto(c, "idle") /\ "take" \in Place \ {"release"} /\ "idle" \in Place \ {"release"}
      /\ UNCHANGED <<slots, mgr, stock, aliased>>
  BY DEF AllocCached, Place
<1>2. /\ op' \in [Core -> [at : Place, obj : Obj \cup {Null}]]
      /\ \A d \in Core : op'[d].obj = op[d].obj /\ (op'[d].at = "release" <=> op'[d].obj # Null)
  BY <1>1, GotoKeeps
<1>3. TypeOK /\ cache \in [Core -> Cache] /\ cache[c] \in Cache /\ SafeCache(cache[c]) /\ owners \in [Obj -> Nat]
  BY DEF IInv, TypeOK, CacheIndexSafe, SafeCache
<1> DEFINE k == IF cache[c].curr_count > 0 THEN cache[c] ELSE Swap(cache[c])
           n == k.curr_count
           b == k.current
           e == [k EXCEPT !.curr_count = k.curr_count - 1]
<1>4. /\ k \in Cache /\ SafeCache(k) /\ Has(k) = Has(cache[c])
      /\ \A x, i : Holds(k, x, i) <=> Holds(cache[c], x, i)
      /\ (cache[c].current # Null => cache[c].current # cache[c].standby)
               => (k.current # Null => k.current # k.standby)
  BY <1>3, SwapKeeps
<1>5. n > 0
  BY <1>3 DEF AllocCached, Swap, Cache
<1>6. Give(slots[b][n]) /\ cache' = [cache EXCEPT ![c] = e]
  BY DEF AllocCached, AllocFromCache
<1> HIDE DEF k
<1>7. n \in 1 .. BUNDLE_SIZE /\ b \in Bundle
  BY <1>4, <1>5, BundleAssumption DEF SafeCache, Cache, Address
<1>8. /\ e \in Cache /\ e.current = b /\ e.standby = k.standby /\ e.curr_count = n - 1 /\ e.stby_count = k.stby_count
  BY <1>4, <1>7, BundleAssumption DEF Cache
<1> HIDE DEF e, b, n
<1>9. SafeCache(e) /\ Has(e) = Has(cache[c])
  BY <1>4, <1>7, <1>8, BundleAssumption DEF SafeCache, Has, n, b
<1>10. cache' \in [Core -> Cache] /\ cache'[c] = e /\ \A d \in Core \ {c} : cache'[d] = cache[d]
  BY <1>3, <1>6, <1>8
<1>11. slots[b][n] \in Obj \cup {Null}
  <2>1. slots \in [Bundle -> [1 .. BUNDLE_SIZE -> Obj \cup {Null}]]
    BY <1>3 DEF TypeOK
  <2>2. slots[b] \in [1 .. BUNDLE_SIZE -> Obj \cup {Null}]
    BY <1>7, <2>1
  <2> QED BY <1>7, <2>2
<1>12. /\ owners' \in [Obj -> Nat]
       /\ slots[b][n] \in Obj => \A x \in Obj : owners'[x] = IF x = slots[b][n] THEN owners[x] + 1 ELSE owners[x]
  BY <1>3, <1>6, <1>11, GiveKeeps
<1>13. TypeOK'
  BY <1>1, <1>2, <1>3, <1>10, <1>12 DEF TypeOK
<1>14. \A d \in Core : SafeCache(cache'[d]) /\ Has(cache'[d]) \cap mgr'.stock = {}
  BY <1>1, <1>9, <1>10 DEF IInv, CacheIndexSafe, SafeCache
<1>15. PICK E, F : Exact(E, F)
  BY DEF IInv
<1>16. ASSUME ~aliased'
       PROVE  /\ Owned(cache', E \cup F \cup mgr'.stock)
              /\ Conserved(slots', Held(F, cache'), owners', stock', op')
  <2> DEFINE K == E \cup F \cup mgr.stock
             H == Held(F, cache)
             J == Held(F, cache')
  <2>1. Owned(cache, K) /\ Conserved(slots, H, owners, stock, op)
    BY <1>1, <1>15, <1>16 DEF Exact
  <2>2. F \subseteq K
    OBVIOUS
  <2>3. b \in Has(cache[c]) /\ b # k.standby
    <3>1. k.current # Null => k.current # k.standby
      BY <1>4, <2>1 DEF Owned
    <3> QED BY <1>4, <1>7, <3>1, AddressAssumption DEF Has, b
  <2>4. b \notin F /\ \A d \in Core \ {c} : b \notin Has(cache[d])
    BY <2>1, <2>3 DEF Owned
  <2>5. Drops(cache[c], cache'[c], b, n)
    <3>1. \A x \in Bundle : \A i \in 1 .. BUNDLE_SIZE : Holds(e, x, i) <=> Holds(k, x, i) /\ ~(x = b /\ i = n)
      BY <1>7, <1>8, <2>3, BundleAssumption DEF Holds, b, n
    <3>2. Holds(k, b, n)
      BY <1>7, BundleAssumption DEF Holds, b, n
    <3> QED BY <1>4, <1>7, <1>10, <3>1, <3>2 DEF Drops
  <2>6. Alone(F, cache, cache', c, b)
    BY <1>7, <1>10, <2>4 DEF Alone
  <2>7. Less(H, J, b, n)
    BY <2>5, <2>6, HeldLess
  <2> HIDE DEF H, J, K
  <2>8. slots[b][n] \in Obj
    BY <2>1, <2>7 DEF Conserved, Less
  <2>9. Conserved(slots, J, owners', stock, op')
    <3>1. SameCalls(op, op') /\ OwnersOf(owners, owners', slots[b][n], 1)
      BY <1>2, <1>12, <2>8 DEF SameCalls, OwnersOf
    <3> QED BY <2>1, <2>7, <3>1, SlotToClient
  <2>10. Move(cache, cache', c, K, K, {}, {})
    <3>1. \A d \in Core \ {c} : cache'[d] = cache[d]
      BY <1>10
    <3>2. Has(cache'[c]) \subseteq Has(cache[c])
      BY <1>9, <1>10
    <3>3. cache'[c].current # cache'[c].standby
      BY <1>8, <1>10, <2>3
    <3> QED BY <2>1, <3>1, <3>2, <3>3 DEF Move
  <2>11. Owned(cache', K)
    BY <2>10, OwnedStep
  <2> QED BY <1>1, <2>9, <2>11 DEF J, K
<1>17. ListsOf(mgr', E, F)
  BY <1>1, <1>15 DEF Exact
<1> QED BY <1>2, <1>13, <1>14, <1>16, <1>17, Establish

(* release_to_cache stores an object after the last one of a bundle. *)
LEMMA StoreKeeps ==
  ASSUME NEW sl, sl \in [Bundle -> [1 .. BUNDLE_SIZE -> Obj \cup {Null}]], NEW b \in Bundle, NEW n \in 1 .. BUNDLE_SIZE,
         NEW z \in Obj, NEW sm, sm = [sl EXCEPT ![b] = [@ EXCEPT ![n] = z]]
  PROVE  /\ sm \in [Bundle -> [1 .. BUNDLE_SIZE -> Obj \cup {Null}]] /\ sm[b][n] = z
         /\ \A x \in Bundle : \A j \in 1 .. BUNDLE_SIZE : ~(x = b /\ j = n) => sm[x][j] = sl[x][j]
<1>1. sl[b] \in [1 .. BUNDLE_SIZE -> Obj \cup {Null}]
  OBVIOUS
<1> DEFINE f == [sl[b] EXCEPT ![n] = z]
<1>2. f \in [1 .. BUNDLE_SIZE -> Obj \cup {Null}] /\ f[n] = z /\ \A j \in 1 .. BUNDLE_SIZE : j # n => f[j] = sl[b][j]
  BY <1>1
<1>3. sm = [sl EXCEPT ![b] = f]
  OBVIOUS
<1> HIDE DEF f
<1>4. sm[b] = f /\ \A x \in Bundle : x # b => sm[x] = sl[x]
  BY <1>3
<1>5. sm \in [Bundle -> [1 .. BUNDLE_SIZE -> Obj \cup {Null}]]
  BY <1>2, <1>3
<1> QED BY <1>2, <1>4, <1>5

(* The held slots that are not slot n of bundle b stay as they are. *)
LEMMA StoredIn ==
  ASSUME NEW sl, NEW sm, NEW F, NEW ca, NEW b, NEW n, NEW z, sm[b][n] = z,
         \A x \in Bundle : \A j \in 1 .. BUNDLE_SIZE : ~(x = b /\ j = n) => sm[x][j] = sl[x][j],
         n \notin Held(F, ca)[b]
  PROVE  Stored(sl, sm, Held(F, ca), b, n, z)
BY DEF Stored, Held

(* free puts an object in the bundle of a cache that has room. *)
LEMMA FreeCachedInvariant ==
  ASSUME IInv, NEW c \in Core, NEW o \in Obj, FreeCached(c, o)
  PROVE  IInv'
<1>1. Drop(o) /\ UNCHANGED <<mgr, stock, op, aliased>>
  BY DEF FreeCached
<1>2. /\ TypeOK /\ cache \in [Core -> Cache] /\ cache[c] \in Cache /\ SafeCache(cache[c]) /\ owners \in [Obj -> Nat]
      /\ slots \in [Bundle -> [1 .. BUNDLE_SIZE -> Obj \cup {Null}]]
  BY DEF IInv, TypeOK, CacheIndexSafe, SafeCache
<1>3. owners[o] > 0 /\ owners' \in [Obj -> Nat] /\ OwnersOf(owners, owners', o, -1)
  BY <1>1, <1>2, DropKeeps DEF OwnersOf
<1> DEFINE k == IF CurrentHasRoom(cache[c]) THEN cache[c] ELSE Swap(cache[c])
           n == k.curr_count + 1
           b == k.current
           e == [k EXCEPT !.curr_count = k.curr_count + 1]
<1>4. /\ k \in Cache /\ SafeCache(k) /\ Has(k) = Has(cache[c])
      /\ \A x, i : Holds(k, x, i) <=> Holds(cache[c], x, i)
      /\ (cache[c].current # Null => cache[c].current # cache[c].standby)
               => (k.current # Null => k.current # k.standby)
  BY <1>2, SwapKeeps
<1>5. k.current # Null /\ k.curr_count < BUNDLE_SIZE
  BY <1>2 DEF FreeCached, Swap, CurrentHasRoom, StandbyHasRoom, HasRoom
<1>6. /\ slots' = [slots EXCEPT ![b] = [@ EXCEPT ![n] = o]]
      /\ cache' = [cache EXCEPT ![c] = e]
  BY DEF FreeCached, ReleaseToCache
<1> HIDE DEF k
<1>7. n \in 1 .. BUNDLE_SIZE /\ b \in Bundle
  BY <1>4, <1>5, BundleAssumption DEF Cache, Address
<1>8. /\ e \in Cache /\ e.current = b /\ e.standby = k.standby /\ e.curr_count = n /\ e.stby_count = k.stby_count
  BY <1>4, <1>7, BundleAssumption DEF Cache
<1> HIDE DEF e
<1>9. SafeCache(e) /\ Has(e) = Has(cache[c])
  BY <1>4, <1>5, <1>7, <1>8, BundleAssumption DEF SafeCache, Has
<1>10. /\ slots' \in [Bundle -> [1 .. BUNDLE_SIZE -> Obj \cup {Null}]] /\ slots'[b][n] = o
       /\ \A x \in Bundle : \A j \in 1 .. BUNDLE_SIZE : ~(x = b /\ j = n) => slots'[x][j] = slots[x][j]
  <2> HIDE DEF b, n
  <2> QED BY <1>2, <1>6, <1>7, StoreKeeps
<1>11. cache' \in [Core -> Cache] /\ cache'[c] = e /\ \A d \in Core \ {c} : cache'[d] = cache[d]
  BY <1>2, <1>6, <1>8
<1>12. TypeOK'
  BY <1>1, <1>2, <1>3, <1>10, <1>11 DEF TypeOK
<1>13. \A d \in Core : SafeCache(cache'[d]) /\ Has(cache'[d]) \cap mgr'.stock = {}
  BY <1>1, <1>9, <1>11 DEF IInv, CacheIndexSafe, SafeCache
<1>14. PICK E, F : Exact(E, F)
  BY DEF IInv
<1>15. ASSUME ~aliased'
       PROVE  /\ Owned(cache', E \cup F \cup mgr'.stock)
              /\ Conserved(slots', Held(F, cache'), owners', stock', op')
  <2> DEFINE K == E \cup F \cup mgr.stock
             H == Held(F, cache)
             J == Held(F, cache')
  <2>1. Owned(cache, K) /\ Conserved(slots, H, owners, stock, op)
    BY <1>1, <1>14, <1>15 DEF Exact
  <2>2. F \subseteq K
    OBVIOUS
  <2>3. b \in Has(cache[c]) /\ b # k.standby
    <3>1. k.current # Null => k.current # k.standby
      BY <1>4, <2>1 DEF Owned
    <3> QED BY <1>4, <1>5, <3>1 DEF Has
  <2>4. b \notin F /\ \A d \in Core \ {c} : b \notin Has(cache[d])
    BY <2>1, <2>3 DEF Owned
  <2>5. Adds(cache[c], cache'[c], b, n)
    <3>1. \A x \in Bundle : \A i \in 1 .. BUNDLE_SIZE : Holds(e, x, i) <=> Holds(k, x, i) \/ (x = b /\ i = n)
      BY <1>4, <1>7, <1>8, <2>3, BundleAssumption DEF Holds, Cache
    <3>2. ~Holds(k, b, n)
      BY <1>4, <1>7, <2>3, BundleAssumption DEF Holds, Cache
    <3> HIDE DEF b, n
    <3> QED BY <1>4, <1>7, <1>11, <3>1, <3>2 DEF Adds
  <2> HIDE DEF b, n
  <2>6. Alone(F, cache, cache', c, b)
    BY <1>7, <1>11, <2>4 DEF Alone
  <2>7. More(H, J, b, n)
    BY <2>5, <2>6, HeldMore
  <2>8. Stored(slots, slots', H, b, n, o)
    BY <1>10, <2>7, StoredIn DEF More
  <2> HIDE DEF H, J, K
  <2>9. Conserved(slots', J, owners', stock, op)
    BY <1>3, <2>1, <2>7, <2>8, ClientToSlot
  <2>10. Move(cache, cache', c, K, K, {}, {})
    <3>1. \A d \in Core \ {c} : cache'[d] = cache[d]
      BY <1>11
    <3>2. Has(cache'[c]) \subseteq Has(cache[c])
      BY <1>9, <1>11
    <3>3. cache'[c].current # cache'[c].standby
      BY <1>8, <1>11, <2>3
    <3> QED BY <2>1, <3>1, <3>2, <3>3 DEF Move
  <2>11. Owned(cache', K)
    BY <2>10, OwnedStep
  <2> QED BY <1>1, <2>9, <2>11 DEF J, K
<1>16. ListsOf(mgr', E, F)
  BY <1>1, <1>14 DEF Exact
<1>17. \A d \in Core : op'[d].at = "release" <=> op'[d].obj # Null
  BY <1>1 DEF IInv
<1> QED BY <1>12, <1>13, <1>15, <1>16, <1>17, Establish

(* alloc exchanges a drained bundle for a full one and takes its last       *)
(* object.                                                                  *)
LEMMA AllocExchangeInvariant ==
  ASSUME IInv, NEW c \in Core, AllocExchange(c)
  PROVE  IInv'
<1> DEFINE p == cache[c].current
           g == mgr.full
<1>1. CASE ~CanReturn(mgr, p)
  <2>1. UNCHANGED <<cache, slots, mgr, stock, op, owners, aliased>>
    BY <1>1 DEF AllocExchange, Panic
  <2> QED BY <2>1, StopInvariant
<1>2. CASE CanReturn(mgr, p)
  <2> DEFINE m == ReturnEmpty(mgr, p)
             k == Swap([cache[c] EXCEPT !.standby = g, !.stby_count = BUNDLE_SIZE])
             e == [k EXCEPT !.curr_count = k.curr_count - 1]
  <2>1. /\ At(c, "take") /\ Goto(c, "idle") /\ "take" \in Place \ {"release"} /\ "idle" \in Place \ {"release"}
        /\ cache[c].curr_count = 0 /\ cache[c].stby_count = 0 /\ g # Null /\ mgr' = TakeFull(m)
        /\ UNCHANGED <<slots, stock>>
    BY <1>2 DEF AllocExchange, BundlesDrained, Place
  <2>2. aliased' = (aliased \/ p # Null)
    BY <1>2 DEF AllocExchange
  <2>3. Give(slots[k.current][k.curr_count]) /\ cache' = [cache EXCEPT ![c] = e]
    BY <1>2 DEF AllocExchange, AllocFromCache
  <2>4. /\ op' \in [Core -> [at : Place, obj : Obj \cup {Null}]]
        /\ \A d \in Core : op'[d].obj = op[d].obj /\ (op'[d].at = "release" <=> op'[d].obj # Null)
    BY <2>1, GotoKeeps
  <2>5. /\ TypeOK /\ cache \in [Core -> Cache] /\ cache[c] \in Cache /\ p \in Address /\ owners \in [Obj -> Nat]
        /\ slots \in [Bundle -> [1 .. BUNDLE_SIZE -> Obj \cup {Null}]] /\ mgr \in Manager
    BY DEF IInv, TypeOK, Cache
  <2>6. PICK E, F : Exact(E, F)
    BY DEF IInv
  <2>7. ListsOf(mgr, E, F) /\ p \notin mgr.stock /\ F \subseteq Bundle /\ E \cap F = {} /\ (E \cup F) \cap mgr.stock = {}
    <3>1. ListsOf(mgr, E, F)
      BY <2>6 DEF Exact
    <3>2. p = Null \/ p \in Has(cache[c])
      BY DEF Has
    <3>3. Null \notin mgr.stock
      BY <2>5, AddressAssumption DEF Manager
    <3>4. Has(cache[c]) \cap mgr.stock = {}
      BY DEF IInv
    <3> QED BY <3>1, <3>2, <3>3, <3>4 DEF ListsOf
  <2> DEFINE E2 == E \cup ({p} \ {Null})
             F2 == F \ {g}
  <2>8. m.stock = mgr.stock /\ m.full = g /\ ListsOf(m, E2, F)
    <3> HIDE DEF p
    <3> QED BY <1>2, <2>5, <2>7, ReturnEmptyKeeps
  <2>9. g \in F /\ mgr'.stock = mgr.stock /\ ListsOf(mgr', E2, F2)
    <3> HIDE DEF m, E2
    <3> QED BY <2>1, <2>8, TakeFullKeeps
  <2>10. g \in Bundle /\ g # Null
    BY <2>1, <2>7, <2>9
  <2> HIDE DEF m, E2
  <2>11. /\ k.current = g /\ k.curr_count = BUNDLE_SIZE /\ k.standby = p /\ k.stby_count = 0
         /\ e = [current |-> g, curr_count |-> BUNDLE_SIZE - 1, standby |-> p, stby_count |-> 0]
    BY <2>1, <2>5 DEF Swap, Cache
  <2>12. /\ e \in Cache /\ e.current = g /\ e.curr_count = BUNDLE_SIZE - 1 /\ e.standby = p /\ e.stby_count = 0
    BY <2>5, <2>10, <2>11, BundleAssumption DEF Cache, Address
  <2> HIDE DEF k, e
  <2>13. SafeCache(e) /\ Has(e) = ({g} \cup {p}) \ {Null}
    BY <2>10, <2>12, BundleAssumption DEF SafeCache, Has
  <2>14. cache' \in [Core -> Cache] /\ cache'[c] = e /\ \A d \in Core \ {c} : cache'[d] = cache[d]
    BY <2>3, <2>5, <2>12
  <2> DEFINE n == BUNDLE_SIZE
  <2>15. n \in 1 .. BUNDLE_SIZE
    BY BundleAssumption
  <2> HIDE DEF n, g
  <2>16. slots[g][n] \in Obj \cup {Null}
    <3>1. slots[g] \in [1 .. BUNDLE_SIZE -> Obj \cup {Null}]
      BY <2>5, <2>10
    <3> QED BY <2>15, <3>1
  <2>17. owners' \in [Obj -> Nat] /\ (slots[g][n] \in Obj => OwnersOf(owners, owners', slots[g][n], 1))
    <3>1. Give(slots[g][n])
      BY <2>3, <2>11 DEF n
    <3> QED BY <2>5, <2>16, <3>1, GiveKeeps DEF OwnersOf
  <2>18. mgr' \in Manager /\ aliased' \in BOOLEAN
    BY <2>2, <2>9 DEF ListsOf
  <2>19. TypeOK'
    BY <2>1, <2>4, <2>5, <2>14, <2>17, <2>18 DEF TypeOK
  <2>20. \A d \in Core : SafeCache(cache'[d]) /\ Has(cache'[d]) \cap mgr'.stock = {}
    <3>1. \A d \in Core : SafeCache(cache[d]) /\ Has(cache[d]) \cap mgr.stock = {}
      BY DEF IInv, CacheIndexSafe, SafeCache
    <3>2. Has(e) \cap mgr.stock = {}
      BY <2>7, <2>9, <2>13
    <3> QED BY <2>9, <2>13, <2>14, <3>1, <3>2
  <2>21. ASSUME ~aliased'
         PROVE  /\ Owned(cache', E2 \cup F2 \cup mgr'.stock)
                /\ Conserved(slots', Held(F2, cache'), owners', stock', op')
    <3> DEFINE K == E \cup F \cup mgr.stock
               L == E2 \cup F2 \cup mgr'.stock
               H == Held(F, cache)
               J == Held(F2, cache')
    <3>1. ~aliased /\ p = Null
      BY <2>2, <2>21
    <3>2. Owned(cache, K) /\ Conserved(slots, H, owners, stock, op)
      BY <2>6, <3>1 DEF Exact
    <3>3. E2 = E /\ Has(e) = {g}
      BY <2>10, <2>13, <3>1 DEF E2
    <3>4. L \subseteq K \ {g} /\ {g} \subseteq K
      BY <2>7, <2>9, <3>3
    <3>5. \A d \in Core : \A i : ~Holds(cache[d], g, i)
      <4>1. \A d \in Core : g \notin Has(cache[d])
        BY <3>2, <3>4 DEF Owned
      <4> QED BY <2>10, <4>1 DEF Has, Holds
    <3>6. ASSUME NEW x \in Bundle, NEW i \in 1 .. BUNDLE_SIZE
          PROVE  i \in J[x] <=> i \in H[x] /\ ~(x = g /\ i = n)
      <4>1. ~Holds(cache[c], x, i)
        BY <2>1, BundleAssumption DEF Holds
      <4>2. Holds(e, x, i) <=> x = g /\ i # n
        BY <2>12, <2>10, BundleAssumption DEF Holds, n
      <4>3. CASE x = g
        <5>1. i \in H[x]
          BY <2>9, <4>3 DEF Held
        <5>2. i \in J[x] <=> i # n
          BY <2>14, <3>5, <4>2, <4>3 DEF Held
        <5> QED BY <4>3, <5>1, <5>2
      <4>4. CASE x # g
        <5>1. (\E d \in Core : Holds(cache'[d], x, i)) <=> (\E d \in Core : Holds(cache[d], x, i))
          BY <2>14, <4>1, <4>2, <4>4
        <5> QED BY <4>4, <5>1 DEF Held
      <4> QED BY <4>3, <4>4
    <3>7. Less(H, J, g, n)
      <4>1. \A x \in Bundle : H[x] \subseteq 1 .. BUNDLE_SIZE /\ J[x] \subseteq 1 .. BUNDLE_SIZE
        BY DEF Held
      <4>2. n \in H[g]
        BY <2>9, <2>10, <2>15 DEF Held
      <4> HIDE DEF H, J
      <4>3. \A x \in Bundle : J[x] = IF x = g THEN H[g] \ {n} ELSE H[x]
        BY <3>6, <4>1
      <4> QED BY <2>10, <4>2, <4>3 DEF Less
    <3> HIDE DEF H, J, K, L
    <3>8. slots[g][n] \in Obj
      BY <3>2, <3>7 DEF Conserved, Less
    <3>9. SameCalls(op, op')
      BY <2>4 DEF SameCalls
    <3>10. Conserved(slots, J, owners', stock, op')
      BY <2>17, <3>2, <3>7, <3>8, <3>9, SlotToClient
    <3>11. Move(cache, cache', c, K, L, {g}, {})
      <4>1. \A d \in Core \ {c} : cache'[d] = cache[d]
        BY <2>14
      <4>2. Has(cache'[c]) \subseteq Has(cache[c]) \cup {g}
        BY <2>14, <3>3
      <4>3. cache'[c].current # cache'[c].standby
        BY <2>10, <2>12, <2>14, <3>1
      <4> QED BY <3>2, <3>4, <4>1, <4>2, <4>3 DEF Move
    <3>12. Owned(cache', L)
      BY <3>11, OwnedStep
    <3> QED BY <2>1, <3>10, <3>12 DEF J, L
  <2> HIDE DEF F2
  <2> QED BY <2>4, <2>9, <2>19, <2>20, <2>21, Establish
<1> QED BY <1>1, <1>2

(* What free knows of its two bundles when neither has room. *)
LEMMA FullBundles ==
  ASSUME IInv, NEW c \in Core, ~CurrentHasRoom(cache[c]), ~StandbyHasRoom(cache[c])
  PROVE  /\ cache[c].current # Null => cache[c].curr_count = BUNDLE_SIZE
         /\ cache[c].standby # Null => cache[c].stby_count = BUNDLE_SIZE
         /\ cache[c].standby = Null => cache[c].stby_count = 0
<1>1. SafeCache(cache[c])
  BY DEF IInv, CacheIndexSafe, SafeCache
<1> QED BY <1>1, BundleAssumption DEF SafeCache, CurrentHasRoom, StandbyHasRoom, HasRoom

(* free gives its full standby bundle away and finds no empty bundle: the   *)
(* object goes to the slab layer.                                           *)
LEMMA FreeNoBundle ==
  ASSUME IInv, NEW c \in Core, NEW o \in Obj, Drop(o), op[c].at = "idle",
         NEW E, NEW F, ListsOf(mgr', E, F), mgr'.stock \subseteq mgr.stock, aliased' \in BOOLEAN,
         ~aliased' => /\ Owned(cache, E \cup F \cup mgr'.stock)
                      /\ Conserved(slots, Held(F, cache), owners, stock, op),
         UNCHANGED <<cache, slots, stock>>, op' = [op EXCEPT ![c] = [at |-> "release", obj |-> o]]
  PROVE  IInv'
<1>1. /\ TypeOK /\ owners \in [Obj -> Nat] /\ op \in [Core -> [at : Place, obj : Obj \cup {Null}]]
      /\ \A d \in Core : op[d].at = "release" <=> op[d].obj # Null
  BY DEF IInv, TypeOK
<1>2. owners[o] > 0 /\ owners' \in [Obj -> Nat] /\ OwnersOf(owners, owners', o, -1)
  BY <1>1, DropKeeps DEF OwnersOf
<1> DEFINE q == [at |-> "release", obj |-> o]
<1>3. q \in [at : Place, obj : Obj \cup {Null}] /\ q.at = "release" /\ q.obj = o /\ o # Null
  BY AddressAssumption DEF Place
<1> HIDE DEF q
<1>4. op' \in [Core -> [at : Place, obj : Obj \cup {Null}]] /\ op'[c] = q /\ \A d \in Core \ {c} : op'[d] = op[d]
  BY <1>1, <1>3 DEF q
<1>5. \A d \in Core : op'[d].at = "release" <=> op'[d].obj # Null
  BY <1>1, <1>3, <1>4
<1>6. TypeOK' /\ \A d \in Core : SafeCache(cache'[d]) /\ Has(cache'[d]) \cap mgr'.stock = {}
  <2>1. mgr' \in Manager
    BY DEF ListsOf
  <2> QED BY <1>1, <1>2, <1>4, <2>1 DEF IInv, TypeOK, CacheIndexSafe, SafeCache
<1>7. ASSUME ~aliased'
      PROVE  /\ Owned(cache', E \cup F \cup mgr'.stock)
             /\ Conserved(slots', Held(F, cache'), owners', stock', op')
  <2> DEFINE H == Held(F, cache)
  <2>1. Owned(cache, E \cup F \cup mgr'.stock) /\ Conserved(slots, H, owners, stock, op)
    BY <1>7
  <2>2. Calls(op, op', c, o)
    BY <1>1, <1>3, <1>4 DEF Calls
  <2> HIDE DEF H
  <2>3. Conserved(slots, H, owners', stock, op')
    BY <1>2, <2>1, <2>2, ClientToCall
  <2> QED BY <1>7, <2>1, <2>3 DEF H
<1> QED BY <1>5, <1>6, <1>7, Establish

(* free gives its full standby bundle away and puts the object in an empty  *)
(* bundle.                                                                  *)
LEMMA FreeExchangeInvariant ==
  ASSUME IInv, NEW c \in Core, NEW o \in Obj, FreeExchange(c, o)
  PROVE  IInv'
<1> DEFINE s == cache[c].standby
           p == cache[c].current
<1>1. /\ op[c].at = "idle" /\ Drop(o) /\ ~CurrentHasRoom(cache[c]) /\ ~StandbyHasRoom(cache[c])
  BY DEF FreeExchange, At
<1>2. /\ TypeOK /\ cache \in [Core -> Cache] /\ cache[c] \in Cache /\ s \in Address /\ owners \in [Obj -> Nat]
      /\ slots \in [Bundle -> [1 .. BUNDLE_SIZE -> Obj \cup {Null}]] /\ mgr \in Manager /\ aliased \in BOOLEAN
  BY DEF IInv, TypeOK, Cache
<1>3. owners[o] > 0 /\ owners' \in [Obj -> Nat] /\ OwnersOf(owners, owners', o, -1)
  BY <1>1, <1>2, DropKeeps DEF OwnersOf
<1>4. PICK E, F : Exact(E, F)
  BY DEF IInv
<1>5. ListsOf(mgr, E, F) /\ s \notin mgr.stock /\ F \subseteq Bundle /\ E \cap F = {} /\ (E \cup F) \cap mgr.stock = {}
  <2>1. ListsOf(mgr, E, F)
    BY <1>4 DEF Exact
  <2>2. s = Null \/ s \in Has(cache[c])
    BY DEF Has
  <2>3. Null \notin mgr.stock
    BY <1>2, AddressAssumption DEF Manager
  <2>4. Has(cache[c]) \cap mgr.stock = {}
    BY DEF IInv
  <2> QED BY <2>1, <2>2, <2>3, <2>4 DEF ListsOf
<1>6. CASE ~CanReturn(mgr, s)
  <2>1. UNCHANGED <<cache, slots, mgr, stock, op, aliased>>
    BY <1>6 DEF FreeExchange
  <2>2. aliased
    <3> SUFFICES ASSUME ~aliased PROVE FALSE
      OBVIOUS
    <3>1. s # Null /\ mgr.next[s] # Poison
      BY <1>6 DEF CanReturn
    <3>2. s \in Bundle /\ s \in Has(cache[c])
      BY <1>2, <3>1 DEF Address, Has
    <3>3. s \in E \cup F
      BY <1>5, <3>1, <3>2, OnNoList
    <3>4. Owned(cache, E \cup F \cup mgr.stock)
      BY <1>4 DEF Exact
    <3> QED BY <3>2, <3>3, <3>4 DEF Owned
  <2>3. TypeOK' /\ \A d \in Core : SafeCache(cache'[d]) /\ Has(cache'[d]) \cap mgr'.stock = {}
    BY <1>2, <1>3, <2>1 DEF IInv, TypeOK, CacheIndexSafe, SafeCache
  <2>4. \A d \in Core : op'[d].at = "release" <=> op'[d].obj # Null
    BY <2>1 DEF IInv
  <2>5. ListsOf(mgr', E, F) /\ aliased'
    BY <1>5, <2>1, <2>2
  <2> QED BY <2>3, <2>4, <2>5, Establish
<1>7. CASE CanReturn(mgr, s)
  <2> DEFINE m == ReturnFull(mgr, s)
             F2 == F \cup ({s} \ {Null})
  <2>1. m.stock = mgr.stock /\ ListsOf(m, E, F2)
    <3> HIDE DEF s
    <3> QED BY <1>2, <1>5, <1>7, ReturnFullKeeps
  <2>2. PICK r \in AllocEmptyBundle(m) :
          LET k == IF r.b = Null THEN cache[c] ELSE Swap([cache[c] EXCEPT !.standby = r.b, !.stby_count = 0])
          IN /\ mgr' = r.m
             /\ IF CurrentHasRoom(k)
                THEN ReleaseToCache(c, k, o) /\ op' = op
                ELSE /\ cache' = [cache EXCEPT ![c] = k]
                     /\ op' = [op EXCEPT ![c] = [at |-> "release", obj |-> o]]
                     /\ slots' = slots
             /\ aliased' = (aliased \/ (r.b = Null /\ s # Null))
             /\ UNCHANGED <<stock, panic>>
    BY <1>7, Zenon DEF FreeExchange
  <2> HIDE DEF m
  <2>3. mgr' = r.m /\ UNCHANGED stock
    BY <2>2
  <2>4. aliased' = (aliased \/ (r.b = Null /\ s # Null))
    BY <2>2
  <2> HIDE DEF F2
  <2>5. /\ r.m.stock \subseteq mgr.stock
        /\ r.b = Null => r.m = m
        /\ r.b # Null => r.b \in E \cup mgr.stock /\ r.b \in Bundle /\ r.b \notin r.m.stock
    BY <2>1, AllocEmptyKeeps
  <2>6. PICK E2 : ListsOf(r.m, E2, F2) /\ E2 \cup r.m.stock \subseteq (E \cup mgr.stock) \ {r.b}
    BY <2>1, AllocEmptyKeeps
  <2>7. CASE r.b = Null
    <3>1. op' = [op EXCEPT ![c] = [at |-> "release", obj |-> o]] /\ slots' = slots /\ cache' = [cache EXCEPT ![c] = cache[c]]
      BY <1>1, <2>2, <2>7
    <3>2. cache' = cache
      BY <1>2, <3>1
    <3>3. aliased' \in BOOLEAN /\ (aliased => aliased') /\ (s # Null => aliased')
      BY <2>4, <2>7
    <3>4. CASE s # Null
      <4>1. aliased'
        BY <3>3, <3>4
      <4>2. ListsOf(mgr', E, F2) /\ mgr'.stock \subseteq mgr.stock
        BY <2>1, <2>3, <2>5, <2>7
      <4> QED BY <1>1, <2>3, <3>1, <3>2, <3>3, <4>1, <4>2, FreeNoBundle
    <3>5. CASE s = Null
      <4>1. mgr' = mgr
        BY <2>3, <2>5, <2>7, <3>5 DEF m, ReturnFull
      <4>2. ListsOf(mgr', E, F) /\ mgr'.stock \subseteq mgr.stock
        BY <1>5, <4>1
      <4>3. ~aliased' => /\ Owned(cache, E \cup F \cup mgr'.stock)
                         /\ Conserved(slots, Held(F, cache), owners, stock, op)
        BY <1>4, <3>3, <4>1 DEF Exact
      <4> QED BY <1>1, <2>3, <3>1, <3>2, <3>3, <4>2, <4>3, FreeNoBundle
    <3> QED BY <3>4, <3>5
  <2>8. CASE r.b # Null
    <3> DEFINE b == r.b
               k == Swap([cache[c] EXCEPT !.standby = b, !.stby_count = 0])
               e == [k EXCEPT !.curr_count = k.curr_count + 1]
               n == k.curr_count + 1
    <3>1. /\ k.current = b /\ k.curr_count = 0 /\ n = 1 /\ k.standby = p /\ k.stby_count = cache[c].curr_count
          /\ e = [current |-> b, curr_count |-> 1, standby |-> p, stby_count |-> cache[c].curr_count]
      BY <1>2 DEF Swap, Cache
    <3>2. CurrentHasRoom(k)
      BY <2>8, <3>1, BundleAssumption DEF CurrentHasRoom, HasRoom
    <3>3. ReleaseToCache(c, k, o) /\ op' = op
      BY <2>2, <2>8, <3>2
    <3>4. slots' = [slots EXCEPT ![b] = [@ EXCEPT ![1] = o]] /\ cache' = [cache EXCEPT ![c] = e]
      <4>1. slots' = [slots EXCEPT ![k.current] = [@ EXCEPT ![n] = o]] /\ cache' = [cache EXCEPT ![c] = e]
        BY <3>3 DEF ReleaseToCache
      <4> HIDE DEF k, e, n
      <4> QED BY <3>1, <4>1
    <3>5. b \in Bundle /\ b \in E \cup mgr.stock /\ b # Null
      BY <2>5, <2>8
    <3>6. /\ e \in Cache /\ e.current = b /\ e.curr_count = 1 /\ e.standby = p /\ e.stby_count = cache[c].curr_count
      BY <1>2, <3>1, <3>5, BundleAssumption DEF Cache, Address
    <3> HIDE DEF e, n, k, b
    <3>7. SafeCache(e) /\ Has(e) = {b} \cup ({p} \ {Null})
      <4>1. SafeCache(cache[c])
        BY DEF IInv, CacheIndexSafe, SafeCache
      <4> QED BY <3>5, <3>6, <4>1, BundleAssumption DEF SafeCache, Has
    <3> DEFINE i1 == 1
    <3>8. i1 \in 1 .. BUNDLE_SIZE
      BY BundleAssumption
    <3>9. slots' = [slots EXCEPT ![b] = [@ EXCEPT ![i1] = o]]
      BY <3>4
    <3> HIDE DEF i1
    <3>10. /\ slots' \in [Bundle -> [1 .. BUNDLE_SIZE -> Obj \cup {Null}]] /\ slots'[b][i1] = o
           /\ \A x \in Bundle : \A j \in 1 .. BUNDLE_SIZE : ~(x = b /\ j = i1) => slots'[x][j] = slots[x][j]
      BY <1>2, <3>5, <3>8, <3>9, StoreKeeps
    <3>11. cache' \in [Core -> Cache] /\ cache'[c] = e /\ \A d \in Core \ {c} : cache'[d] = cache[d]
      BY <1>2, <3>4, <3>6
    <3>12. aliased' = aliased
      BY <1>2, <2>4, <2>8
    <3>13. TypeOK'
      <4>1. mgr' \in Manager
        BY <2>3, <2>6 DEF ListsOf
      <4> QED BY <1>2, <1>3, <2>3, <3>3, <3>10, <3>11, <3>12, <4>1 DEF TypeOK
    <3>14. \A d \in Core : SafeCache(cache'[d]) /\ Has(cache'[d]) \cap mgr'.stock = {}
      <4>1. \A d \in Core : SafeCache(cache[d]) /\ Has(cache[d]) \cap mgr.stock = {}
        BY DEF IInv, CacheIndexSafe, SafeCache
      <4>2. b \notin mgr'.stock /\ mgr'.stock \subseteq mgr.stock
        BY <2>3, <2>5, <2>8 DEF b
      <4>3. {p} \ {Null} \subseteq Has(cache[c])
        BY DEF Has
      <4>4. Has(e) \cap mgr'.stock = {}
        BY <3>7, <4>1, <4>2, <4>3
      <4> QED BY <3>7, <3>11, <4>1, <4>2, <4>4
    <3>15. ASSUME ~aliased'
           PROVE  /\ Owned(cache', E2 \cup F2 \cup mgr'.stock)
                  /\ Conserved(slots', Held(F2, cache'), owners', stock', op')
      <4> DEFINE K == E \cup F \cup mgr.stock
                 L == E2 \cup F2 \cup mgr'.stock
                 H == Held(F, cache)
                 J == Held(F2, cache')
                 R == {s} \ {Null}
      <4>1. Owned(cache, K) /\ Conserved(slots, H, owners, stock, op)
        BY <1>4, <3>12, <3>15 DEF Exact
      <4>2. /\ \A d \in Core : b \notin Has(cache[d])
            /\ \A d \in Core \ {c} : Has(cache[d]) \cap Has(cache[c]) = {}
            /\ p # Null => p # s
            /\ b \notin F /\ Has(cache[c]) \cap K = {}
        <5>1. b \in K /\ b \notin F
          BY <1>5, <3>5
        <5> QED BY <4>1, <5>1 DEF Owned
      <4>3. L \subseteq (K \ {b}) \cup R /\ {b} \subseteq K
        <5>1. E2 \cup r.m.stock \subseteq (E \cup mgr.stock) \ {b}
          BY <2>6 DEF b
        <5> QED BY <2>3, <3>5, <4>2, <5>1 DEF F2
      <4>4. R \subseteq Has(cache[c]) /\ R \cap Has(e) = {}
        <5>1. R \subseteq Has(cache[c])
          BY DEF Has
        <5>2. b \notin R
          BY <4>2, <5>1
        <5>3. p # Null => p \notin R
          BY <4>2
        <5> QED BY <3>7, <5>1, <5>2, <5>3
      <4>5. ASSUME NEW x \in Bundle, NEW i \in 1 .. BUNDLE_SIZE
            PROVE  i \in J[x] <=> i \in H[x] \/ (x = b /\ i = i1)
        <5>1. Holds(e, x, i) <=> (x = b /\ i = i1) \/ (x = p /\ i <= cache[c].curr_count)
          BY <3>6, BundleAssumption DEF Holds, i1
        <5>2. Holds(cache[c], x, i) <=> (x = p /\ i <= cache[c].curr_count) \/ x = s
          <6>1. x = s => cache[c].stby_count = BUNDLE_SIZE
            BY <1>1, FullBundles, AddressAssumption
          <6> QED BY <6>1, BundleAssumption DEF Holds
        <5>3. x \in F2 <=> x \in F \/ x = s
          BY AddressAssumption DEF F2
        <5>4. (\E d \in Core : Holds(cache'[d], x, i)) <=> Holds(e, x, i) \/ \E d \in Core \ {c} : Holds(cache[d], x, i)
          BY <3>11
        <5>5. (\E d \in Core : Holds(cache[d], x, i)) <=> Holds(cache[c], x, i) \/ \E d \in Core \ {c} : Holds(cache[d], x, i)
          OBVIOUS
        <5>6. i \in J[x] <=> x \in F2 \/ \E d \in Core : Holds(cache'[d], x, i)
          BY DEF Held
        <5>7. i \in H[x] <=> x \in F \/ \E d \in Core : Holds(cache[d], x, i)
          BY DEF Held
        <5> HIDE DEF H, J
        <5> QED BY <5>1, <5>2, <5>3, <5>4, <5>5, <5>6, <5>7
      <4>6. More(H, J, b, i1)
        <5>1. \A x \in Bundle : H[x] \subseteq 1 .. BUNDLE_SIZE /\ J[x] \subseteq 1 .. BUNDLE_SIZE
          BY DEF Held
        <5>2. i1 \notin H[b]
          <6>1. \A d \in Core : ~Holds(cache[d], b, i1)
            BY <3>5, <4>2 DEF Has, Holds
          <6> QED BY <3>5, <4>2, <6>1 DEF Held
        <5> HIDE DEF H, J
        <5>3. \A x \in Bundle : J[x] = IF x = b THEN H[b] \cup {i1} ELSE H[x]
          BY <3>8, <4>5, <5>1
        <5> QED BY <3>5, <5>2, <5>3 DEF More
      <4>7. Stored(slots, slots', H, b, i1, o)
        <5>1. i1 \notin Held(F, cache)[b]
          BY <4>6 DEF More
        <5> QED BY <3>10, <5>1, StoredIn
      <4> HIDE DEF H, J, K, L, R
      <4>8. Conserved(slots', J, owners', stock, op)
        BY <1>3, <4>1, <4>6, <4>7, ClientToSlot
      <4>9. Move(cache, cache', c, K, L, {b}, R)
        <5>1. \A d \in Core \ {c} : cache'[d] = cache[d]
          BY <3>11
        <5>2. Has(cache'[c]) \subseteq Has(cache[c]) \cup {b}
          <6>1. {p} \ {Null} \subseteq Has(cache[c])
            BY DEF Has
          <6> QED BY <3>7, <3>11, <6>1
        <5>3. cache'[c].current # cache'[c].standby
          <6>1. b # p
            BY <3>5, <4>2 DEF Has
          <6> QED BY <3>6, <3>11, <6>1
        <5>4. R \subseteq Has(cache[c]) \ Has(cache'[c])
          BY <3>11, <4>4
        <5> QED BY <4>1, <4>3, <5>1, <5>2, <5>3, <5>4 DEF Move
      <4>10. Owned(cache', L)
        BY <4>9, OwnedStep
      <4> QED BY <2>3, <3>3, <4>8, <4>10 DEF J, L
    <3>16. ListsOf(mgr', E2, F2)
      BY <2>3, <2>6
    <3>17. \A d \in Core : op'[d].at = "release" <=> op'[d].obj # Null
      BY <3>3 DEF IInv
    <3> QED BY <3>13, <3>14, <3>15, <3>16, <3>17, Establish
  <2> QED BY <2>7, <2>8
<1> QED BY <1>6, <1>7

-----------------------------------------------------------------------------
(*****************************************************************************)
(* The theorems.                                                             *)
(*****************************************************************************)

(* At first every bundle is with its slab manager and every object in the   *)
(* slab layer.                                                              *)
LEMMA InitInvariant ==
  ASSUME Init
  PROVE  IInv
<1>1. BUNDLE_SIZE \in Nat /\ Null \in Address /\ 0 \in 0 .. BUNDLE_SIZE
  BY BundleAssumption DEF Address
<1>2. EmptyCache \in Cache /\ SafeCache(EmptyCache) /\ Has(EmptyCache) = {} /\ EmptyCache.current = Null
  BY <1>1 DEF EmptyCache, Cache, SafeCache, Has
<1>3. \A c \in Core : cache[c] = EmptyCache
  BY DEF Init
<1>4. mgr \in Manager /\ mgr.empty = Null /\ mgr.full = Null /\ mgr.stock = Bundle /\ \A b \in Bundle : mgr.next[b] = Poison
  BY <1>1 DEF Init, Manager
<1>5. Idle \in [at : Place, obj : Obj \cup {Null}] /\ Idle.obj = Null /\ Idle.at # "release"
  BY DEF Idle, Place
<1>6. TypeOK
  BY <1>2, <1>4, <1>5 DEF Init, TypeOK
<1>7. CacheIndexSafe
  BY <1>2, <1>3 DEF CacheIndexSafe, SafeCache
<1>8. \A c \in Core : Has(cache[c]) \cap mgr.stock = {} /\ (op[c].at = "release" <=> op[c].obj # Null)
  BY <1>2, <1>3, <1>5 DEF Init
<1>9. \A nx : IsList(nx, Null, {})
  <2> SUFFICES ASSUME NEW nx PROVE IsList(nx, Null, {})
    OBVIOUS
  <2> DEFINE f == [i \in 1 .. 0 + 1 |-> Null]
  <2>1. IsChain(f, 0, Null, nx, {}, Null)
    BY DEF IsChain
  <2> QED BY <2>1 DEF IsList
<1>10. ListsOf(mgr, {}, {})
  BY <1>4, <1>9 DEF ListsOf
<1>11. Owned(cache, {} \cup {} \cup mgr.stock)
  BY <1>2, <1>3 DEF Owned
<1>12. \A b \in Bundle : Held({}, cache)[b] = {}
  <2>1. \A b \in Bundle : \A c \in Core : \A i \in 1 .. BUNDLE_SIZE : ~Holds(cache[c], b, i)
    BY <1>3, AddressAssumption DEF Holds, EmptyCache
  <2> QED BY <2>1 DEF Held
<1>13. Conserved(slots, Held({}, cache), owners, stock, op)
  <2>1. \A o \in Obj : ~InSlot(slots, Held({}, cache), o)
    BY <1>12 DEF InSlot
  <2>2. \A c \in Core : op[c].obj = Null
    BY <1>5 DEF Init
  <2>3. \A o \in Obj : ~InCall(op, o)
    BY <2>2, AddressAssumption DEF InCall
  <2>4. \A o \in Obj : owners[o] = 0 /\ o \in stock
    BY DEF Init
  <2> QED BY <1>12, <2>1, <2>2, <2>3, <2>4 DEF Conserved
<1>14. Exact({}, {})
  BY <1>10, <1>11, <1>13 DEF Exact
<1> QED BY <1>6, <1>7, <1>8, <1>14 DEF IInv

(* Every step of a core keeps the invariant. *)
LEMMA StepInvariant ==
  ASSUME IInv, [Next]_vars
  PROVE  IInv'
<1>1. CASE UNCHANGED vars
  BY <1>1, StopInvariant DEF vars
<1>2. CASE Halt
  BY <1>2, StopInvariant DEF Halt, vars
<1>3. ASSUME NEW c \in Core,
             \/ AllocCurrent(c) \/ AllocStandby(c)
             \/ AllocCached(c) \/ AllocExchange(c) \/ AllocMiss(c) \/ AllocObject(c)
             \/ FreeObject(c)
      PROVE  IInv'
  BY <1>3, AllocCurrentInvariant, AllocStandbyInvariant, AllocCachedInvariant, AllocExchangeInvariant,
     AllocMissInvariant, AllocObjectInvariant, FreeObjectInvariant
<1>4. ASSUME NEW c \in Core, NEW o \in Obj, FreeCached(c, o) \/ FreeExchange(c, o)
      PROVE  IInv'
  BY <1>4, FreeCachedInvariant, FreeExchangeInvariant
<1> QED BY <1>1, <1>2, <1>3, <1>4 DEF Next

(* The inductive invariant of the core caches and the bundle manager: the   *)
(* lists of the manager are chains that do not meet, and until a cache      *)
(* keeps a bundle it gave away, every bundle has one owner and every object *)
(* is in one place.                                                         *)
THEOREM CacheInvariant == Spec => []IInv
<1>1. Init => IInv
  BY InitInvariant
<1>2. IInv /\ [Next]_vars => IInv'
  BY StepInvariant
<1> QED BY <1>1, <1>2, PTL DEF Spec

(* The indexes of alloc_from_cache and release_to_cache stay inside the     *)
(* bundle, and a counted bundle exists, also after an exchange.             *)
THEOREM IndexesAreSafe == Spec => []CacheIndexSafe
<1>1. IInv => CacheIndexSafe
  BY DEF IInv
<1> QED BY <1>1, CacheInvariant, PTL

(* Until a cache keeps a bundle it gave away, a bundle is in one place of   *)
(* one cache, on one list of the manager or with its slab manager.          *)
THEOREM BundlesHaveOneOwner == Spec => []BundlesOwnedOnce
<1>1. ASSUME IInv PROVE BundlesOwnedOnce
  <2> SUFFICES ASSUME ~aliased
               PROVE  LET kept == ChainFrom(mgr.empty) \cup ChainFrom(mgr.full) \cup mgr.stock
                          has(c) == {cache[c].current, cache[c].standby} \ {Null}
                      IN /\ ChainFrom(mgr.empty) \cap ChainFrom(mgr.full) = {}
                         /\ \A c \in Core :
                              /\ cache[c].current # Null => cache[c].current # cache[c].standby
                              /\ has(c) \cap kept = {}
                              /\ \A d \in Core \ {c} : has(c) \cap has(d) = {}
    BY DEF BundlesOwnedOnce
  <2>1. PICK E, F : Exact(E, F)
    BY <1>1 DEF IInv
  <2>2. ListsOf(mgr, E, F) /\ Owned(cache, E \cup F \cup mgr.stock)
    BY <2>1 DEF Exact
  <2>3. ChainFrom(mgr.empty) = E /\ ChainFrom(mgr.full) = F
    BY <2>2, ListWalk DEF ListsOf
  <2> QED BY <2>2, <2>3 DEF ListsOf, Owned, Has
<1> QED BY <1>1, CacheInvariant, PTL

(* The first n slots of a bundle hold n objects when no two are the same. *)
LEMMA CachedSize ==
  ASSUME NEW b, NEW n \in Nat, b = Null => n = 0,
         \A i, j \in 1 .. n : slots[b][i] = slots[b][j] => i = j
  PROVE  IsFiniteSet(Cached(b, n)) /\ Cardinality(Cached(b, n)) = n
<1>1. CASE b = Null
  <2>1. Cached(b, n) = {} /\ n = 0
    BY <1>1 DEF Cached
  <2> QED BY <2>1, FS_EmptySet
<1>2. CASE b # Null
  <2> DEFINE f == [i \in 1 .. n |-> slots[b][i]]
             T == {slots[b][i] : i \in 1 .. n}
  <2>1. f \in [1 .. n -> T] /\ (\A i, j \in 1 .. n : f[i] = f[j] => i = j) /\ \A o \in T : \E i \in 1 .. n : f[i] = o
    OBVIOUS
  <2>2. Cached(b, n) = T
    BY <1>2 DEF Cached
  <2> HIDE DEF f, T
  <2>3. f \in Bijection(1 .. n, T)
    BY <2>1 DEF Bijection, Injection, Surjection, IsInjective
  <2>4. ExistsBijection(1 .. n, T)
    BY <2>3 DEF ExistsBijection
  <2>5. IsFiniteSet(1 .. n) /\ Cardinality(1 .. n) = n
    <3>1. IsFiniteSet(1 .. n) /\ Cardinality(1 .. n) = IF 1 > n THEN 0 ELSE n - 1 + 1
      BY FS_Interval
    <3> QED BY <3>1
  <2>6. IsFiniteSet(T) /\ Cardinality(T) = Cardinality(1 .. n)
    BY <2>4, <2>5, FS_Bijection
  <2> QED BY <2>2, <2>5, <2>6
<1> QED BY <1>1, <1>2

(* The sets of ObjectsConserved in terms of the held slots. *)
LEMMA PlacesOf ==
  ASSUME TypeOK, CacheIndexSafe, NEW E, NEW F, ListsOf(mgr, E, F)
  PROVE  /\ \A o : o \in InFull <=> \E b \in F : \E i \in 1 .. BUNDLE_SIZE : slots[b][i] = o
         /\ \A c \in Core : \A o :
              o \in InCore(c) <=> \E b \in Bundle : \E i \in 1 .. BUNDLE_SIZE : Holds(cache[c], b, i) /\ slots[b][i] = o
<1>1. ChainFrom(mgr.full) = F /\ F \subseteq Bundle
  BY ListWalk DEF ListsOf
<1>2. \A o : o \in InFull <=> \E b \in F : \E i \in 1 .. BUNDLE_SIZE : slots[b][i] = o
  <2>1. \A b \in F : b # Null
    BY <1>1, AddressAssumption
  <2>2. \A b \in F : Cached(b, BUNDLE_SIZE) = {slots[b][i] : i \in 1 .. BUNDLE_SIZE}
    BY <2>1 DEF Cached
  <2> QED BY <1>1, <2>2 DEF InFull
<1>3. ASSUME NEW c \in Core, NEW o
      PROVE  o \in InCore(c) <=> \E b \in Bundle : \E i \in 1 .. BUNDLE_SIZE : Holds(cache[c], b, i) /\ slots[b][i] = o
  <2> DEFINE k == cache[c]
  <2>1. /\ k.current \in Bundle \cup {Null} /\ k.standby \in Bundle \cup {Null}
        /\ k.curr_count \in 0 .. BUNDLE_SIZE /\ k.stby_count \in 0 .. BUNDLE_SIZE /\ BUNDLE_SIZE \in Nat
    BY BundleAssumption DEF TypeOK, Cache, Address
  <2> HIDE DEF k
  <2>2. ASSUME NEW b \in Bundle \cup {Null}, NEW n \in 0 .. BUNDLE_SIZE
        PROVE  o \in Cached(b, n) <=> b \in Bundle /\ \E i \in 1 .. BUNDLE_SIZE : i <= n /\ slots[b][i] = o
    <3>1. CASE b = Null
      BY <3>1, AddressAssumption DEF Cached
    <3>2. CASE b # Null
      <4>1. Cached(b, n) = {slots[b][i] : i \in 1 .. n} /\ b \in Bundle
        BY <3>2 DEF Cached
      <4>2. \A i : i \in 1 .. n <=> i \in 1 .. BUNDLE_SIZE /\ i <= n
        BY <2>1
      <4> QED BY <4>1, <4>2
    <3> QED BY <3>1, <3>2
  <2>3. o \in InCore(c) <=> o \in Cached(k.current, k.curr_count) \/ o \in Cached(k.standby, k.stby_count)
    BY DEF InCore, k
  <2>4. ASSUME o \in InCore(c)
        PROVE  \E b \in Bundle : \E i \in 1 .. BUNDLE_SIZE : Holds(k, b, i) /\ slots[b][i] = o
    BY <2>1, <2>2, <2>3, <2>4 DEF Holds
  <2>5. ASSUME NEW b \in Bundle, NEW i \in 1 .. BUNDLE_SIZE, Holds(k, b, i), slots[b][i] = o
        PROVE  o \in InCore(c)
    BY <2>1, <2>2, <2>3, <2>5 DEF Holds
  <2> QED BY <2>4, <2>5 DEF k
<1> QED BY <1>2, <1>3

(* Until a cache keeps a bundle it gave away, every object is in exactly    *)
(* one place: with one client, in the cache of one core, in a full bundle,  *)
(* in the slab layer or in one call that frees it.                          *)
THEOREM ObjectsAreConserved == Spec => []ObjectsConserved
<1>1. ASSUME IInv, ~aliased
      PROVE  /\ InClients \cup stock \cup InFull \cup InCalls \cup UNION {InCore(c) : c \in Core} = Obj
             /\ \A o \in Obj : owners[o] <= 1
             /\ InClients \cap stock = {} /\ InCalls \cap (InClients \cup stock) = {}
             /\ InFull \cap (InClients \cup stock \cup InCalls) = {}
             /\ \A c \in Core :
                  /\ InCore(c) \cap (InClients \cup stock \cup InFull \cup InCalls) = {}
                  /\ Cardinality(InCore(c)) = cache[c].curr_count + cache[c].stby_count
                  /\ \A d \in Core \ {c} : InCore(c) \cap InCore(d) = {}
  <2>1. PICK E, F : Exact(E, F)
    BY <1>1 DEF IInv
  <2> DEFINE H == Held(F, cache)
  <2>2. /\ TypeOK /\ CacheIndexSafe /\ ListsOf(mgr, E, F) /\ F \subseteq Bundle
        /\ Owned(cache, E \cup F \cup mgr.stock) /\ Conserved(slots, H, owners, stock, op)
    BY <1>1, <2>1 DEF Exact, IInv, ListsOf
  <2>3. stock \subseteq Obj /\ (\A c \in Core : op[c].obj \in Obj \cup {Null}) /\ \A o \in Obj : owners[o] \in {0, 1}
    BY <2>2 DEF TypeOK, Conserved
  <2>4. \A b \in Bundle : \A i \in 1 .. BUNDLE_SIZE : i \in H[b] <=> b \in F \/ \E c \in Core : Holds(cache[c], b, i)
    BY DEF Held
  <2>5. \A b \in Bundle : H[b] \subseteq 1 .. BUNDLE_SIZE
    BY DEF Held
  <2> HIDE DEF H
  <2>6. \A o : o \in InFull <=> \E b \in F : \E i \in 1 .. BUNDLE_SIZE : slots[b][i] = o
    BY <2>2, PlacesOf
  <2>7. \A c \in Core : \A o :
          o \in InCore(c) <=> \E b \in Bundle : \E i \in 1 .. BUNDLE_SIZE : Holds(cache[c], b, i) /\ slots[b][i] = o
    BY <2>2, PlacesOf
  <2>8. \A b, d \in Bundle : \A i \in H[b], j \in H[d] : slots[b][i] = slots[d][j] => b = d /\ i = j
    BY <2>2 DEF Conserved
  <2>9. \A b \in Bundle : \A i \in H[b] : slots[b][i] \in Obj
    BY <2>2 DEF Conserved
  <2>10. \A o : InSlot(slots, H, o) <=> o \in InFull \/ \E c \in Core : o \in InCore(c)
    <3>1. ASSUME NEW o, InSlot(slots, H, o) PROVE o \in InFull \/ \E c \in Core : o \in InCore(c)
      <4>0. PICK b \in Bundle : \E i \in H[b] : slots[b][i] = o
        BY <3>1 DEF InSlot
      <4>1. PICK i \in H[b] : slots[b][i] = o
        BY <4>0
      <4> QED BY <2>4, <2>5, <2>6, <2>7, <4>1
    <3>2. ASSUME NEW o, o \in InFull PROVE InSlot(slots, H, o)
      BY <2>2, <2>4, <2>6, <3>2 DEF InSlot
    <3>3. ASSUME NEW o, NEW c \in Core, o \in InCore(c) PROVE InSlot(slots, H, o)
      BY <2>4, <2>7, <3>3 DEF InSlot
    <3> QED BY <3>1, <3>2, <3>3
  <2>11. \A o : InSlot(slots, H, o) => o \in Obj
    BY <2>9 DEF InSlot
  <2>12. \A o \in Obj : (o \in InClients <=> owners[o] = 1) /\ (o \in InCalls <=> InCall(op, o))
    BY <2>3, AddressAssumption DEF InClients, InCalls, InCall
  <2>13. InClients \subseteq Obj /\ InCalls \subseteq Obj
    BY <2>3 DEF InClients, InCalls
  <2>14. \A o \in Obj :
           /\ o \in InClients \/ o \in stock \/ o \in InCalls \/ InSlot(slots, H, o)
           /\ o \in InClients => o \notin stock /\ o \notin InCalls /\ ~InSlot(slots, H, o)
           /\ o \in stock => o \notin InCalls /\ ~InSlot(slots, H, o)
           /\ o \in InCalls => ~InSlot(slots, H, o)
    BY <2>2, <2>12 DEF Conserved
  <2>15. InClients \cup stock \cup InFull \cup InCalls \cup UNION {InCore(c) : c \in Core} = Obj
    BY <2>3, <2>10, <2>11, <2>13, <2>14
  <2>16. /\ InClients \cap stock = {} /\ InCalls \cap (InClients \cup stock) = {}
         /\ InFull \cap (InClients \cup stock \cup InCalls) = {}
    BY <2>3, <2>10, <2>11, <2>13, <2>14
  <2>17. ASSUME NEW c \in Core
         PROVE  /\ InCore(c) \cap (InClients \cup stock \cup InFull \cup InCalls) = {}
                /\ Cardinality(InCore(c)) = cache[c].curr_count + cache[c].stby_count
                /\ \A d \in Core \ {c} : InCore(c) \cap InCore(d) = {}
    <3>1. InCore(c) \cap (InClients \cup stock \cup InCalls) = {}
      BY <2>3, <2>10, <2>11, <2>13, <2>14
    <3>2. \A b, i : Holds(cache[c], b, i) /\ b \in Bundle => b \in Has(cache[c])
      BY AddressAssumption DEF Holds, Has
    <3>3. Has(cache[c]) \cap F = {} /\ \A d \in Core \ {c} : Has(cache[c]) \cap Has(cache[d]) = {}
      BY <2>2 DEF Owned
    <3>4. InCore(c) \cap InFull = {}
      <4> SUFFICES ASSUME NEW o \in InCore(c), o \in InFull PROVE FALSE
        OBVIOUS
      <4>0. PICK b \in Bundle : \E i \in 1 .. BUNDLE_SIZE : Holds(cache[c], b, i) /\ slots[b][i] = o
        BY <2>7
      <4>1. PICK i \in 1 .. BUNDLE_SIZE : Holds(cache[c], b, i) /\ slots[b][i] = o
        BY <4>0
      <4>2. PICK d \in F : \E j \in 1 .. BUNDLE_SIZE : slots[d][j] = o
        BY <2>6
      <4>3. PICK j \in 1 .. BUNDLE_SIZE : slots[d][j] = o
        BY <4>2
      <4>4. i \in H[b] /\ j \in H[d] /\ d \in Bundle
        BY <2>2, <2>4, <4>1
      <4>5. b = d
        BY <2>8, <4>1, <4>3, <4>4
      <4> QED BY <3>2, <3>3, <4>1, <4>5
    <3>5. ASSUME NEW d \in Core \ {c}, NEW o \in InCore(c), o \in InCore(d)
          PROVE  FALSE
      <4>0. PICK b \in Bundle : \E i \in 1 .. BUNDLE_SIZE : Holds(cache[c], b, i) /\ slots[b][i] = o
        BY <2>7
      <4>1. PICK i \in 1 .. BUNDLE_SIZE : Holds(cache[c], b, i) /\ slots[b][i] = o
        BY <4>0
      <4>2. PICK x \in Bundle : \E j \in 1 .. BUNDLE_SIZE : Holds(cache[d], x, j) /\ slots[x][j] = o
        BY <2>7, <3>5
      <4>3. PICK j \in 1 .. BUNDLE_SIZE : Holds(cache[d], x, j) /\ slots[x][j] = o
        BY <4>2
      <4>4. i \in H[b] /\ j \in H[x]
        BY <2>4, <4>1, <4>3
      <4>5. b = x
        BY <2>8, <4>1, <4>3, <4>4
      <4>6. x \in Has(cache[d])
        BY <4>3, AddressAssumption DEF Holds, Has
      <4> QED BY <3>2, <3>3, <4>1, <4>5, <4>6
    <3>6. Cardinality(InCore(c)) = cache[c].curr_count + cache[c].stby_count
      <4> DEFINE p == cache[c].current
                 s == cache[c].standby
                 n == cache[c].curr_count
                 m == cache[c].stby_count
      <4>1. /\ n \in 0 .. BUNDLE_SIZE /\ m \in 0 .. BUNDLE_SIZE /\ BUNDLE_SIZE \in Nat
            /\ n > 0 => p # Null
            /\ m > 0 => s # Null
            /\ p \in Bundle \cup {Null} /\ s \in Bundle \cup {Null} /\ (p # Null => p # s)
        BY <2>2, BundleAssumption DEF CacheIndexSafe, TypeOK, Cache, Address, Owned
      <4>2. p # Null => \A i \in 1 .. n : Holds(cache[c], p, i) /\ i \in 1 .. BUNDLE_SIZE
        BY <4>1 DEF Holds
      <4>3. s # Null => \A i \in 1 .. m : Holds(cache[c], s, i) /\ i \in 1 .. BUNDLE_SIZE
        BY <4>1 DEF Holds
      <4>4. (p # Null => \A i \in 1 .. n : i \in H[p]) /\ (s # Null => \A i \in 1 .. m : i \in H[s])
        BY <2>4, <4>1, <4>2, <4>3
      <4>5. InCore(c) = Cached(p, n) \cup Cached(s, m)
        BY DEF InCore
      <4>6. n \in Nat /\ m \in Nat /\ (p = Null => n = 0) /\ (s = Null => m = 0)
        BY <4>1
      <4> HIDE DEF p, s, n, m
      <4>7. IsFiniteSet(Cached(p, n)) /\ Cardinality(Cached(p, n)) = n
        <5>1. \A i, j \in 1 .. n : slots[p][i] = slots[p][j] => i = j
          BY <2>8, <4>1, <4>4, <4>6
        <5> QED BY <4>6, <5>1, CachedSize
      <4>8. IsFiniteSet(Cached(s, m)) /\ Cardinality(Cached(s, m)) = m
        <5>1. \A i, j \in 1 .. m : slots[s][i] = slots[s][j] => i = j
          BY <2>8, <4>1, <4>4, <4>6
        <5> QED BY <4>6, <5>1, CachedSize
      <4>9. Cached(p, n) \cap Cached(s, m) = {}
        <5>1. CASE p = Null \/ s = Null
          BY <5>1 DEF Cached
        <5>2. CASE p # Null /\ s # Null
          <6>1. \A i \in 1 .. n, j \in 1 .. m : slots[p][i] # slots[s][j]
            BY <2>8, <4>1, <4>4, <5>2
          <6> QED BY <5>2, <6>1 DEF Cached
        <5> QED BY <5>1, <5>2
      <4>10. Cardinality(Cached(p, n) \cup Cached(s, m)) = n + m
        BY <4>6, <4>7, <4>8, <4>9, FS_Union, FS_EmptySet
      <4> QED BY <4>5, <4>10 DEF p, s, n, m
    <3> QED BY <3>1, <3>4, <3>5, <3>6
  <2>18. \A o \in Obj : owners[o] <= 1
    BY <2>3
  <2> QED BY <2>15, <2>16, <2>17, <2>18
<1>2. IInv => ObjectsConserved
  BY <1>1 DEF ObjectsConserved
<1> QED BY <1>2, CacheInvariant, PTL

=============================================================================
