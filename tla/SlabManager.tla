------------------------------ MODULE SlabManager ------------------------------
(*****************************************************************************)
(* The slab layer of src/mm/slab_allocator.rs.  Slab s holds the objects     *)
(* (s-1)*objs_per_slab+1 .. s*objs_per_slab, and its node, with the slab's   *)
(* place in one of three rings.  0 is the null address, Poison the poison    *)
(* pattern.                                                                  *)
(*                                                                           *)
(* The manager is used under a SpinLock, so its operations are atomic with   *)
(* respect to each other.  The page allocator behind it has its own lock and *)
(* other clients: `free_unused` lets them in between two slabs.              *)
(*****************************************************************************)
EXTENDS Integers, FiniteSets

CONSTANTS
  NumSlabs,      \* slab-sized blocks the page allocator has
  ObjsPerSlab    \* objs_per_slab

ASSUME SlabAssumption == NumSlabs \in Nat \ {0} /\ ObjsPerSlab \in Nat \ {0}

Slab == 1 .. NumSlabs
Obj == 1 .. NumSlabs * ObjsPerSlab
List == {"unused", "in_use", "empty"}
Poison == -1

VARIABLES
  list,      \* list[l]: the head of list l
  node,      \* node[s]: the SlabNode at the end of slab s
  next,      \* next[o]: the `next` of object o's wrapper
  slabs_allocated, objects_allocated, objects_available,
  walk,      \* free_unused in progress: [on, at], at being its node_addr
  panic,     \* the assertion that failed, or "none"
  pages,     \* external: slab blocks the page allocator has free
  mine,      \* history: slab blocks the manager owns
  used       \* objects owned by clients

stats == <<slabs_allocated, objects_allocated, objects_available>>
vars == <<list, node, next, stats, walk, panic, pages, mine, used>>

(* Objects of a slab; the slab of an object (its address aligned down). *)
ObjectsOf(s) == (s - 1) * ObjsPerSlab + 1 .. s * ObjsPerSlab
SlabOf(o) == (o - 1) \div ObjsPerSlab + 1

(* A node whose memory does not hold a verifying checksum: poisoned by      *)
(* free_unused, or overwritten by another owner of the pages.               *)
BadNode == [avail |-> Poison, free |-> Poison, prev |-> Poison, next |-> Poison, ok |-> FALSE]

NotWalking == [on |-> FALSE, at |-> 0]

Init ==
  /\ list = [l \in List |-> 0]
  /\ node = [s \in Slab |-> BadNode]
  /\ next = [o \in Obj |-> 0]
  /\ slabs_allocated = 0 /\ objects_allocated = 0 /\ objects_available = 0
  /\ walk = NotWalking
  /\ panic = "none"
  /\ pages = Slab
  /\ mine = {}
  /\ used = {}

(*****************************************************************************)
(* The list primitives, on a pair of heads and nodes.                        *)
(*****************************************************************************)
Lists == [list |-> list, node |-> node]

AddSlabToTail(m, l, s) ==
  LET h == m.list[l]
      t == m.node[h].prev
  IN IF h = 0
     THEN [list |-> [m.list EXCEPT ![l] = s],
           node |-> [m.node EXCEPT ![s].prev = s, ![s].next = s]]
     ELSE [m EXCEPT !.node = [@ EXCEPT ![s].prev = t, ![s].next = h,
                                       ![h].prev = s, ![t].next = s]]

(* Mutant: the head of the list is not moved to the next slab. *)
RemoveSlabHeadKept(m, l, s) ==
  LET n == m.node[s] IN
  IF n.prev = s /\ n.next = s
  THEN [list |-> [m.list EXCEPT ![l] = 0],
        node |-> [m.node EXCEPT ![s].prev = 0, ![s].next = 0]]
  ELSE [m EXCEPT !.node = [@ EXCEPT ![n.next].prev = n.prev, ![n.prev].next = n.next,
                                    ![s].prev = 0, ![s].next = 0]]

RemoveSlabFromList(m, l, s) ==
  LET n == m.node[s] IN
  IF n.prev = s /\ n.next = s
  THEN [list |-> [m.list EXCEPT ![l] = 0],
        node |-> [m.node EXCEPT ![s].prev = 0, ![s].next = 0]]
  ELSE [list |-> [m.list EXCEPT ![l] = IF @ = s THEN n.next ELSE @],
        node |-> [m.node EXCEPT ![n.next].prev = n.prev, ![n.prev].next = n.next,
                                ![s].prev = 0, ![s].next = 0]]

Move(m, s, from, to) == AddSlabToTail(RemoveSlabFromList(m, from, s), to, s)

Panic(why) ==
  /\ panic' = why
  /\ UNCHANGED <<list, node, next, stats, walk, pages, mine, used>>

Idle == panic = "none" /\ ~walk.on

(*****************************************************************************)
(* alloc.  The first in-use slab gives an object.  A slab is made in-use     *)
(* first when there is none: the first unused one, else a new one, if the    *)
(* page allocator has one.                                                   *)
(*****************************************************************************)
(* Mutant: the new slab's list starts at its first object. *)
NewSlabFirst(s) == [avail |-> ObjsPerSlab, free |-> (s - 1) * ObjsPerSlab + 1, prev |-> 0, next |-> 0, ok |-> TRUE]

(* alloc_slab: the objects of the new slab chained from the last one down.  *)
NewSlab(s) == [avail |-> ObjsPerSlab, free |-> s * ObjsPerSlab, prev |-> 0, next |-> 0, ok |-> TRUE]
FreshChain(s) ==
  [o \in Obj |-> IF o \notin ObjectsOf(s) THEN next[o]
                 ELSE IF o - 1 \in ObjectsOf(s) THEN o - 1 ELSE 0]

(* Mutants: a slab with no object left stays in use; the object taken stays *)
(* at the head of the slab's free list.                                     *)
TakeFromInUse(m, s, chain) ==
  [m EXCEPT !.node = [@ EXCEPT ![s].avail = m.node[s].avail - 1, ![s].free = chain[m.node[s].free]]]

TakeAgain(m, s, chain) ==
  LET m2 == [m EXCEPT !.node = [@ EXCEPT ![s].avail = m.node[s].avail - 1]]
  IN IF m2.node[s].avail = 0 THEN Move(m2, s, "in_use", "empty") ELSE m2

(* The lists once the first free object of slab s is taken. *)
Take(m, s, chain) ==
  LET n == m.node[s]
      m2 == [m EXCEPT !.node = [@ EXCEPT ![s].avail = n.avail - 1, ![s].free = chain[n.free]]]
  IN IF m2.node[s].avail = 0 THEN Move(m2, s, "in_use", "empty") ELSE m2

(* Take an object from the head of the in-use list of m; `new` is 1 when    *)
(* its slab is a new one.                                                   *)
TakeObject(m, chain, new) ==
  LET s == m.list["in_use"]
      o == m.node[s].free
      taken == Take(m, s, chain)
  IN IF ~(m.node[s].ok /\ o # 0 /\ m.node[s].avail > 0) THEN Panic("free list")
     ELSE /\ list' = taken.list /\ node' = taken.node
          /\ next' = [chain EXCEPT ![o] = Poison]
          /\ slabs_allocated' = slabs_allocated + new
          /\ objects_allocated' = objects_allocated + 1
          /\ objects_available' = objects_available + new * ObjsPerSlab - 1
          /\ used' = used \cup {o}
          /\ UNCHANGED <<walk, panic>>

AllocInUse ==
  /\ Idle /\ list["in_use"] # 0
  /\ TakeObject(Lists, next, 0)
  /\ UNCHANGED <<pages, mine>>

AllocUnused ==
  /\ Idle /\ list["in_use"] = 0 /\ list["unused"] # 0
  /\ TakeObject(Move(Lists, list["unused"], "unused", "in_use"), next, 0)
  /\ UNCHANGED <<pages, mine>>

AllocNewSlab(s) ==
  /\ Idle /\ list["in_use"] = 0 /\ list["unused"] = 0
  /\ s \in pages
  /\ pages' = pages \ {s}
  /\ mine' = mine \cup {s}
  /\ TakeObject(AddSlabToTail([Lists EXCEPT !.node = [@ EXCEPT ![s] = NewSlab(s)]], "in_use", s),
                FreshChain(s), 1)

AllocNone ==
  /\ Idle /\ list["in_use"] = 0 /\ list["unused"] = 0
  /\ UNCHANGED vars

(* Mutant: the slab goes to the unused list one object too early. *)
FreeListsEarly(s, o) ==
  LET m1 == IF node[s].avail = 0 THEN Move(Lists, s, "empty", "in_use") ELSE Lists
      m2 == [m1 EXCEPT !.node = [@ EXCEPT ![s].avail = node[s].avail + 1, ![s].free = o]]
  IN IF m2.node[s].avail = ObjsPerSlab - 1 THEN Move(m2, s, "in_use", "unused") ELSE m2

(*****************************************************************************)
(* free.  The slab leaves the empty list with its first free object and goes *)
(* to the unused list with its last.                                         *)
(*****************************************************************************)
FreeLists(s, o) ==
  LET m1 == IF node[s].avail = 0 THEN Move(Lists, s, "empty", "in_use") ELSE Lists
      m2 == [m1 EXCEPT !.node = [@ EXCEPT ![s].avail = node[s].avail + 1, ![s].free = o]]
  IN IF m2.node[s].avail = ObjsPerSlab THEN Move(m2, s, "in_use", "unused") ELSE m2

Free(o) ==
  /\ Idle /\ o \in used
  /\ LET s == SlabOf(o)
         m == FreeLists(s, o)
     IN IF ~(node[s].ok /\ node[s].avail < ObjsPerSlab) THEN Panic("avail")
        ELSE IF next[o] # Poison THEN Panic("poison")
        ELSE /\ list' = m.list /\ node' = m.node
             /\ next' = [next EXCEPT ![o] = node[s].free]
             /\ objects_allocated' = objects_allocated - 1
             /\ objects_available' = objects_available + 1
             /\ used' = used \ {o}
             /\ UNCHANGED <<slabs_allocated, walk, panic, pages, mine>>

(*****************************************************************************)
(* free_unused.  Each turn of the loop poisons the node it is at, and gives  *)
(* the pages of the NEXT slab of the ring back to the page allocator.        *)
(*****************************************************************************)
FreeUnused ==
  /\ Idle
  /\ walk' = [on |-> TRUE, at |-> list["unused"]]
  /\ UNCHANGED <<list, node, next, stats, panic, pages, mine, used>>

(* Mutant: the objects of the freed slab stay counted as available. *)
DropSlabCounted ==
  /\ slabs_allocated' = slabs_allocated - 1
  /\ UNCHANGED <<objects_allocated, objects_available>>

DropSlab ==
  /\ slabs_allocated' = slabs_allocated - 1
  /\ objects_available' = objects_available - ObjsPerSlab
  /\ objects_allocated' = objects_allocated

(* Mutant: the loop ends one slab early. *)
FreeUnusedSlabShort ==
  /\ panic = "none" /\ walk.on
  /\ IF walk.at = 0 THEN Panic("null node")
     ELSE IF ~node[walk.at].ok THEN Panic("checksum")
     ELSE LET s == node[walk.at].next
              last == s = list["unused"] \/ node[s].next = list["unused"]
          IN /\ node' = [node EXCEPT ![walk.at] = BadNode]
             /\ pages' = pages \cup {s}
             /\ mine' = mine \ {s}
             /\ DropSlab
             /\ walk' = IF last THEN NotWalking ELSE [on |-> TRUE, at |-> s]
             /\ list' = IF last THEN [list EXCEPT !["unused"] = 0] ELSE list
             /\ UNCHANGED <<next, panic, used>>

FreeUnusedSlab ==
  /\ panic = "none" /\ walk.on
  /\ IF walk.at = 0 THEN Panic("null node")
     ELSE IF ~node[walk.at].ok THEN Panic("checksum")
     ELSE LET s == node[walk.at].next
              last == s = list["unused"]
          IN /\ node' = [node EXCEPT ![walk.at] = BadNode]
             /\ pages' = pages \cup {s}
             /\ mine' = mine \ {s}
             /\ DropSlab
             /\ walk' = IF last THEN NotWalking ELSE [on |-> TRUE, at |-> s]
             /\ list' = IF last THEN [list EXCEPT !["unused"] = 0] ELSE list
             /\ UNCHANGED <<next, panic, used>>

(* External: another client of the page allocator takes the pages of slab s *)
(* and writes over them, or gives them back.                                *)
OtherAlloc(s) ==
  /\ panic = "none" /\ s \in pages
  /\ pages' = pages \ {s}
  /\ node' = [node EXCEPT ![s] = BadNode]
  /\ UNCHANGED <<list, next, stats, walk, panic, mine, used>>

OtherFree(s) ==
  /\ panic = "none" /\ s \notin pages \cup mine
  /\ pages' = pages \cup {s}
  /\ UNCHANGED <<list, node, next, stats, walk, panic, mine, used>>

Halt == panic # "none" /\ UNCHANGED vars

Next ==
  \/ AllocInUse \/ AllocUnused \/ AllocNone
  \/ \E o \in Obj : Free(o)
  \/ FreeUnused \/ FreeUnusedSlab
  \/ \E s \in Slab : AllocNewSlab(s) \/ OtherAlloc(s) \/ OtherFree(s)
  \/ Halt

Spec == Init /\ [][Next]_vars

-----------------------------------------------------------------------------
(*****************************************************************************)
(* Properties.                                                               *)
(*****************************************************************************)

(* The list a slab belongs on, from its number of available objects. *)
ListOf(s) ==
  IF node[s].avail = ObjsPerSlab THEN "unused"
  ELSE IF node[s].avail = 0 THEN "empty" ELSE "in_use"

(* The slabs met walking list l from its head, NumSlabs steps along next. *)
Ring(l) ==
  LET at[i \in 0 .. NumSlabs] ==
        IF i = 0 THEN list[l] ELSE IF at[i - 1] \in Slab THEN node[at[i - 1]].next ELSE 0
  IN IF list[l] = 0 THEN {} ELSE {at[i] : i \in 0 .. NumSlabs}

(* Walking a list from its head meets exactly the slabs that belong on it:  *)
(* an in-use slab is never lost, a list never mixes slabs, and every walk   *)
(* forward can be walked back, whatever the order of alloc and free.        *)
SlabsOnTheirList ==
  (panic = "none" /\ ~walk.on) =>
    /\ \A l \in List : Ring(l) = {s \in mine : ListOf(s) = l}
    /\ \A s \in mine :
         /\ node[s].next \in mine /\ node[node[s].next].prev = s
         /\ node[s].prev \in mine /\ node[node[s].prev].next = s

(* The objects on the free chain of slab s, after i steps. *)
Chain(s, i) ==
  LET at[k \in 0 .. i] ==
        IF k = 0 THEN node[s].free ELSE IF at[k - 1] \in Obj THEN next[at[k - 1]] ELSE 0
  IN at[i]

(* A slab's free chain holds each of its objects that no client owns, once: *)
(* it ends after `avail` objects, no object is lost and none is both free   *)
(* and owned.                                                               *)
FreeChainsExact ==
  (panic = "none") => \A s \in mine : node[s].ok =>
    /\ {Chain(s, i) : i \in 0 .. node[s].avail - 1} = ObjectsOf(s) \ used
    /\ node[s].avail = Cardinality(ObjectsOf(s) \ used)
    /\ Chain(s, node[s].avail) = 0

(* Only free_unused meets a node that is not a slab's: alloc and free never *)
(* fail an assertion while clients free what they own.                      *)
AssertionsHold == panic \notin {"free list", "avail", "poison"}

(* Between calls the statistics agree with the slabs and with the clients.  *)
StatsExact ==
  (panic = "none" /\ ~walk.on) =>
    /\ slabs_allocated = Cardinality(mine)
    /\ objects_allocated = Cardinality(used)
    /\ objects_available = Cardinality({o \in Obj : SlabOf(o) \in mine} \ used)

(* A slab is never in two hands: while the manager owns it the page         *)
(* allocator does not have it, and an object a client owns lies in a slab   *)
(* the manager owns, also through free_unused.                              *)
SlabsOwned == mine \cap pages = {} /\ \A o \in used : SlabOf(o) \in mine

(* When free_unused returns, the page allocator has back every slab without  *)
(* an object in use, and no other.  When it fails on a null node there was   *)
(* none to give back: a walk of a ring never leaves it.                      *)
FreesAllUnused ==
  [][(walk.on /\ (~walk'.on \/ panic' = "null node")) => mine' = {SlabOf(o) : o \in used}]_vars

(* The manager implements the object pool: every successful alloc gives a   *)
(* client an object that no client owns.                                    *)
Pool == INSTANCE ObjectPool WITH Objects <- Obj, allocated <- objects_allocated

ImplementsObjectPool == Pool!Spec

-----------------------------------------------------------------------------
(* What the documents say of free_unused and the code does not keep. *)

(* "In a memory pressure situation, the Slab Allocator provides the ability *)
(* to free all unused slabs": also when there is none.                      *)
FreeUnusedWhenNone == panic # "null node"

(* "Slab nodes use an XOR check as a sanity check": the check of            *)
(* get_slab_node_mut holds for every node the manager visits.               *)
NodesVerify == panic # "checksum"

=============================================================================
