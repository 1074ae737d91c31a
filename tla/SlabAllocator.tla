----------------------------- MODULE SlabAllocator -----------------------------
(*****************************************************************************)
(* The core cache and bundle layers of src/mm/slab_allocator.rs, over the    *)
(* slab layer.  Every core has two bundles of object addresses, current and  *)
(* standby; the bundle manager keeps lists of empty and of full bundles.     *)
(*                                                                           *)
(* A core runs alloc_internal or free_internal with interrupts masked, so    *)
(* its cache is its own; cores meet at the lock of the bundle manager and at *)
(* the lock of the object slab manager.  A step goes up to the release of    *)
(* one of these locks.  The slab managers are object pools (see SlabManager  *)
(* and ObjectPool): sets of bundles and of objects.                          *)
(*****************************************************************************)
EXTENDS Integers, FiniteSets

CONSTANTS
  Core, Bundle, Obj,
  BUNDLE_SIZE,
  MaxOwned,       \* bound: clients do not ask for more objects than this
  Null, Poison    \* the null address, the poison pattern

ASSUME BundleAssumption == BUNDLE_SIZE \in Nat \ {0} /\ MaxOwned \in Nat \ {0}

(* No bundle or object is at the null address or at the poison pattern. *)
ASSUME AddressAssumption ==
  /\ IsFiniteSet(Bundle) /\ Null \notin Bundle \cup Obj
  /\ Poison \notin Bundle \cup {Null}

VARIABLES
  cache,      \* cache[c]: [current, curr_count, standby, stby_count]
  slots,      \* slots[b]: the object addresses in bundle b
  mgr,        \* the bundle manager: list heads [empty, full], [next], [stock]
  stock,      \* objects in the slab layer
  op,         \* op[c]: the call core c is in, and the object it frees
  owners,     \* owners[o]: the number of clients that own object o
  panic,      \* the assertion that failed, or "none"
  aliased     \* history: a cache kept a bundle that it gave to the manager

vars == <<cache, slots, mgr, stock, op, owners, panic, aliased>>

Idle == [at |-> "idle", obj |-> Null]

EmptyCache == [current |-> Null, curr_count |-> 0, standby |-> Null, stby_count |-> 0]

Init ==
  /\ cache = [c \in Core |-> EmptyCache]
  /\ slots = [b \in Bundle |-> [i \in 1 .. BUNDLE_SIZE |-> Null]]
  /\ mgr = [empty |-> Null, full |-> Null, next |-> [b \in Bundle |-> Poison], stock |-> Bundle]
  /\ stock = Obj
  /\ op = [c \in Core |-> Idle]
  /\ owners = [o \in Obj |-> 0]
  /\ panic = "none" /\ aliased = FALSE

Panic(why) ==
  /\ panic' = why
  /\ UNCHANGED <<cache, slots, mgr, stock, op, owners, aliased>>

(*****************************************************************************)
(* The bundle manager.  alloc_empty_bundle gives the manager and the bundle  *)
(* it returns: the first empty one, else one from its slab manager, or none, *)
(* when that has no bundle left or gets no page for a slab.  return_bundle   *)
(* asserts that the bundle is on no list.                                    *)
(*****************************************************************************)
AllocEmptyBundle(m) ==
  IF m.empty # Null
  THEN {[m |-> [m EXCEPT !.empty = m.next[m.empty], !.next = [@ EXCEPT ![m.empty] = Poison]],
         b |-> m.empty]}
  ELSE {[m |-> m, b |-> Null]} \cup
       {[m |-> [m EXCEPT !.stock = @ \ {b}, !.next = [@ EXCEPT ![b] = Poison]], b |-> b] : b \in m.stock}

CanReturn(m, b) == b # Null => m.next[b] = Poison

ReturnEmpty(m, b) ==
  IF b = Null THEN m ELSE [m EXCEPT !.next = [@ EXCEPT ![b] = m.empty], !.empty = b]

ReturnFull(m, b) ==
  IF b = Null THEN m ELSE [m EXCEPT !.next = [@ EXCEPT ![b] = m.full], !.full = b]

TakeFull(m) == [m EXCEPT !.full = m.next[m.full], !.next = [@ EXCEPT ![m.full] = Poison]]

(*****************************************************************************)
(* The core cache.                                                           *)
(*****************************************************************************)
(* Mutant: the bundles are not exchanged, the standby one is copied. *)
SwapCopied(k) ==
  [k EXCEPT !.current = k.standby, !.curr_count = k.stby_count]

Swap(k) ==
  [current |-> k.standby, curr_count |-> k.stby_count,
   standby |-> k.current, stby_count |-> k.curr_count]

(* A client becomes an owner of o; the null address is no object. *)
Give(o) ==
  IF o = Null THEN owners' = owners
  ELSE owners' = [owners EXCEPT ![o] = @ + 1]

(* Mutant: the count is not decreased. *)
AllocFromCacheKept(c, k) ==
  /\ Give(slots[k.current][k.curr_count])
  /\ cache' = [cache EXCEPT ![c] = k]

(* alloc_from_cache and release_to_cache on k, the cache core c ends with. *)
AllocFromCache(c, k) ==
  /\ Give(slots[k.current][k.curr_count])
  /\ cache' = [cache EXCEPT ![c] = [k EXCEPT !.curr_count = k.curr_count - 1]]

ReleaseToCache(c, k, o) ==
  /\ slots' = [slots EXCEPT ![k.current] = [@ EXCEPT ![k.curr_count + 1] = o]]
  /\ cache' = [cache EXCEPT ![c] = [k EXCEPT !.curr_count = k.curr_count + 1]]

(*****************************************************************************)
(* alloc_internal.  The bundles are allocated on demand, one lock section    *)
(* each; then the cache, the bundle manager and the slab manager are tried   *)
(* in that order.                                                            *)
(*****************************************************************************)
At(c, where) == panic = "none" /\ op[c].at = where
Goto(c, where) == op' = [op EXCEPT ![c].at = where]

AllocCurrent(c) ==
  /\ At(c, "idle") /\ Goto(c, "standby")
  /\ Cardinality({x \in Obj \X (1 .. MaxOwned) : x[2] <= owners[x[1]]}) < MaxOwned
  /\ IF cache[c].current # Null THEN UNCHANGED <<mgr, cache>>
     ELSE \E r \in AllocEmptyBundle(mgr) :
            mgr' = r.m /\ cache' = [cache EXCEPT ![c].current = r.b]
  /\ UNCHANGED <<slots, stock, owners, panic, aliased>>

AllocStandby(c) ==
  /\ At(c, "standby") /\ Goto(c, "take")
  /\ IF cache[c].standby # Null THEN UNCHANGED <<mgr, cache>>
     ELSE \E r \in AllocEmptyBundle(mgr) :
            mgr' = r.m /\ cache' = [cache EXCEPT ![c].standby = r.b]
  /\ UNCHANGED <<slots, stock, owners, panic, aliased>>

(* Cases 1 and 2. *)
AllocCached(c) ==
  /\ At(c, "take") /\ Goto(c, "idle")
  /\ cache[c].curr_count > 0 \/ cache[c].stby_count > 0
  /\ AllocFromCache(c, IF cache[c].curr_count > 0 THEN cache[c] ELSE Swap(cache[c]))
  /\ UNCHANGED <<slots, mgr, stock, panic, aliased>>

BundlesDrained(c) == cache[c].curr_count = 0 /\ cache[c].stby_count = 0

(* Case 3: the manager takes the current bundle; the full bundle replaces   *)
(* the standby bundle, and the two are swapped.                             *)
AllocExchange(c) ==
  /\ At(c, "take") /\ BundlesDrained(c) /\ mgr.full # Null
  /\ IF ~CanReturn(mgr, cache[c].current) THEN Panic("bundle")
     ELSE /\ Goto(c, "idle")
          /\ mgr' = TakeFull(ReturnEmpty(mgr, cache[c].current))
          /\ AllocFromCache(c, Swap([cache[c] EXCEPT !.standby = mgr.full, !.stby_count = BUNDLE_SIZE]))
          /\ aliased' = (aliased \/ cache[c].current # Null)
          /\ UNCHANGED <<slots, stock, panic>>

AllocMiss(c) ==
  /\ At(c, "take") /\ BundlesDrained(c) /\ mgr.full = Null
  /\ Goto(c, "object")
  /\ UNCHANGED <<cache, slots, mgr, stock, owners, panic, aliased>>

(* Finally an object of the slab layer, or none. *)
AllocObject(c) ==
  /\ At(c, "object") /\ Goto(c, "idle")
  /\ \/ UNCHANGED <<stock, owners>>
     \/ \E o \in stock : stock' = stock \ {o} /\ Give(o)
  /\ UNCHANGED <<cache, slots, mgr, panic, aliased>>

(*****************************************************************************)
(* free_internal, for an object its owner drops on core c.                   *)
(*****************************************************************************)
Drop(o) == owners[o] > 0 /\ owners' = [owners EXCEPT ![o] = @ - 1]

(* Mutant: a bundle takes one object too many. *)
HasRoomOver(bundle, count) == count <= BUNDLE_SIZE /\ bundle # Null

HasRoom(bundle, count) == count < BUNDLE_SIZE /\ bundle # Null

CurrentHasRoom(k) == HasRoom(k.current, k.curr_count)
StandbyHasRoom(k) == HasRoom(k.standby, k.stby_count)

(* Cases 1 and 2. *)
FreeCached(c, o) ==
  /\ At(c, "idle") /\ Drop(o)
  /\ CurrentHasRoom(cache[c]) \/ StandbyHasRoom(cache[c])
  /\ ReleaseToCache(c, IF CurrentHasRoom(cache[c]) THEN cache[c] ELSE Swap(cache[c]), o)
  /\ UNCHANGED <<mgr, stock, op, panic, aliased>>

(* Case 3: the manager takes the standby bundle and may have no empty one   *)
(* to give; the cache then keeps the standby bundle it gave away.           *)
FreeExchange(c, o) ==
  /\ At(c, "idle") /\ Drop(o)
  /\ ~CurrentHasRoom(cache[c]) /\ ~StandbyHasRoom(cache[c])
  /\ IF ~CanReturn(mgr, cache[c].standby)
     THEN panic' = "bundle" /\ UNCHANGED <<cache, slots, mgr, stock, op, aliased>>
     ELSE \E r \in AllocEmptyBundle(ReturnFull(mgr, cache[c].standby)) :
            LET k == IF r.b = Null THEN cache[c]
                     ELSE Swap([cache[c] EXCEPT !.standby = r.b, !.stby_count = 0])
            IN /\ mgr' = r.m
               /\ IF CurrentHasRoom(k)
                  THEN ReleaseToCache(c, k, o) /\ op' = op
                  ELSE /\ cache' = [cache EXCEPT ![c] = k]
                       /\ op' = [op EXCEPT ![c] = [at |-> "release", obj |-> o]]
                       /\ slots' = slots
               /\ aliased' = (aliased \/ (r.b = Null /\ cache[c].standby # Null))
               /\ UNCHANGED <<stock, panic>>

(* The slab manager's free asserts that the object is not on its lists. *)
FreeObject(c) ==
  /\ At(c, "release")
  /\ IF op[c].obj \in stock THEN Panic("poison")
     ELSE /\ stock' = stock \cup {op[c].obj}
          /\ op' = [op EXCEPT ![c] = Idle]
          /\ UNCHANGED <<cache, slots, mgr, owners, panic, aliased>>

Halt == panic # "none" /\ UNCHANGED vars

Next ==
  \/ \E c \in Core :
       \/ AllocCurrent(c) \/ AllocStandby(c)
       \/ AllocCached(c) \/ AllocExchange(c) \/ AllocMiss(c) \/ AllocObject(c)
       \/ \E o \in Obj : FreeCached(c, o) \/ FreeExchange(c, o)
       \/ FreeObject(c)
  \/ Halt

Spec == Init /\ [][Next]_vars

-----------------------------------------------------------------------------
(*****************************************************************************)
(* Properties.                                                               *)
(*****************************************************************************)

(* The bundles met on a list of the manager from bundle b. *)
ChainFrom(b) ==
  LET at[i \in 0 .. Cardinality(Bundle)] ==
        IF i = 0 THEN b ELSE IF at[i - 1] \in Bundle THEN mgr.next[at[i - 1]] ELSE Null
  IN {at[i] : i \in 0 .. Cardinality(Bundle)} \cap Bundle

(* The objects in the first n slots of bundle b. *)
Cached(b, n) == IF b = Null THEN {} ELSE {slots[b][i] : i \in 1 .. n}

(* The places an object can be, as sets that may not meet. *)
InClients == {o \in Obj : owners[o] > 0}
InCore(c) == Cached(cache[c].current, cache[c].curr_count) \cup Cached(cache[c].standby, cache[c].stby_count)
InFull == UNION {Cached(b, BUNDLE_SIZE) : b \in ChainFrom(mgr.full)}
InCalls == {op[c].obj : c \in Core} \ {Null}

(* Every object is in exactly one place: with one client, in the cache of   *)
(* one core, in a full bundle, in the slab layer, or in a call on its way   *)
(* there.  Nothing is lost and nothing is in two hands, for every           *)
(* interleaving of the cores' lock sections, until a cache keeps a bundle   *)
(* it gave away (UniqueOwners shows what follows).                          *)
ObjectsConserved ==
  ~aliased =>
    /\ InClients \cup stock \cup InFull \cup InCalls \cup UNION {InCore(c) : c \in Core} = Obj
    /\ \A o \in Obj : owners[o] <= 1
    /\ InClients \cap stock = {} /\ InCalls \cap (InClients \cup stock) = {}
    /\ InFull \cap (InClients \cup stock \cup InCalls) = {}
    /\ \A c \in Core :
         /\ InCore(c) \cap (InClients \cup stock \cup InFull \cup InCalls) = {}
         /\ Cardinality(InCore(c)) = cache[c].curr_count + cache[c].stby_count
         /\ \A d \in Core \ {c} : InCore(c) \cap InCore(d) = {}

(* The indexes into a bundle stay inside it and a counted bundle exists:    *)
(* the accesses of alloc_from_cache and release_to_cache never panic, also  *)
(* after a bundle was exchanged.                                            *)
CacheIndexSafe ==
  \A c \in Core :
    /\ cache[c].curr_count \in 0 .. BUNDLE_SIZE /\ cache[c].stby_count \in 0 .. BUNDLE_SIZE
    /\ cache[c].curr_count > 0 => cache[c].current # Null
    /\ cache[c].stby_count > 0 => cache[c].standby # Null

(* A bundle has one owner: one of the two places of one core, the empty     *)
(* list, the full list, or the bundle slab manager; the only ways to a      *)
(* second owner are the two exchanges that `aliased` records.               *)
BundlesOwnedOnce ==
  ~aliased =>
    LET kept == ChainFrom(mgr.empty) \cup ChainFrom(mgr.full) \cup mgr.stock
        has(c) == {cache[c].current, cache[c].standby} \ {Null}
    IN /\ ChainFrom(mgr.empty) \cap ChainFrom(mgr.full) = {}
       /\ \A c \in Core :
            /\ cache[c].current # Null => cache[c].current # cache[c].standby
            /\ has(c) \cap kept = {}
            /\ \A d \in Core \ {c} : has(c) \cap has(d) = {}

-----------------------------------------------------------------------------
(* What comments and assertions say and the code does not keep. *)

(* "A Kernel Object uniquely owns a dynamically allocated instance of T." *)
UniqueOwners == \A o \in Obj : owners[o] <= 1

(* The assertion of return_bundle holds: a bundle the cache gives to the    *)
(* manager is on none of its lists.                                         *)
BundleNotReturnedTwice == panic # "bundle"

=============================================================================
