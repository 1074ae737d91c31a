-------------------------- MODULE BuddyPageAllocator --------------------------
(*****************************************************************************)
(* The buddy page allocator of src/mm/page_allocator.rs.                     *)
(*                                                                           *)
(* Addresses are physical page numbers (byte address >> page shift); 0 is    *)
(* the null address the code uses for "no block".  A block of level l is a   *)
(* run of 2^l pages.  The free blocks of a level are linked through nodes    *)
(* written into their own first page, so the module keeps the links in       *)
(* `node`, indexed by page, exactly as the code keeps them in memory.        *)
(*                                                                           *)
(* The allocator is not thread-safe and is always used through the           *)
(* SpinLock that wraps it, so one call is in progress at a time; a call is   *)
(* one step for each iteration of its loop, and `op` says where it is.       *)
(*****************************************************************************)
EXTENDS Integers, Sequences, FiniteSets

CONSTANTS
  Base,     \* first page served, after page alignment (`self.base`)
  Size,     \* number of pages served (`self.size`)
  Levels,   \* BLOCK_LEVELS
  Layouts   \* the lists of available ranges `new` may be given

(* What `new` checks or assumes of its arguments: at least one page, never  *)
(* page 0 (null), at least one range, ranges inside the area and disjoint.  *)
RangePages(r) == r.base .. r.base + r.size - 1

ASSUME AreaAssumption ==
  /\ Base \in Nat \ {0} /\ Size \in Nat \ {0} /\ Levels \in Nat \ {0}

ASSUME LayoutAssumption ==
  \A t \in Layouts :
    /\ t \in Seq([base : Nat, size : Nat \ {0}]) /\ t # <<>>
    /\ \A i \in DOMAIN t : RangePages(t[i]) \subseteq Base .. Base + Size - 1
    /\ \A i, j \in DOMAIN t : i # j => RangePages(t[i]) \cap RangePages(t[j]) = {}

VARIABLES
  head,     \* head[l]: levels[l].head, 0 when the list is empty
  node,     \* node[p]: the BlockNode stored at the start of page p
  flags,    \* flags[l]: the block pairs of level l whose bit is 1
  todo,     \* the part of the available ranges init_metadata has not added
  alloc_mem, \* pages counted as allocated
  free_mem,  \* pages counted as free
  op,       \* the call in progress
  panic,    \* the assertion that failed, or "none"
  held,     \* pages owned by clients of the allocator
  listed,   \* history: the blocks linked into some ring of level l
  served    \* history: the pages of the available ranges

allocVars == <<head, node, flags, listed>>
vars == <<head, node, flags, todo, alloc_mem, free_mem, op, panic, held, listed, served>>

Level == 0 .. Levels - 1
Page == Base .. Base + Size - 1

(* `1 << level`, the pages of a block, and the pages a block covers. *)
BlockPages(l) == 2^l
Span(b, l) == b .. b + BlockPages(l) - 1

(* t is bits::ceil_log2(n), for n > 0. *)
IsCeilLog2(n, t) == n <= BlockPages(t) /\ (t > 0 => BlockPages(t - 1) < n)

(* bits::is_aligned for a block of level l. *)
IsAligned(b, l) == b % BlockPages(l) = 0

(* Bit l of x; `x | (1 << l)` and `x ^ (1 << l)`. *)
Bit(x, l) == (x \div BlockPages(l)) % 2
OrBit(x, l) == IF Bit(x, l) = 1 THEN x ELSE x + BlockPages(l)
XorBit(x, l) == IF Bit(x, l) = 1 THEN x - BlockPages(l) ELSE x + BlockPages(l)

(* get_flag_index_and_bit: the pair a block belongs to, counted from Base.  *)
(* Word index and bit index are one-to-one with the pair within a level.    *)
BlockPair(b, l) == ((b - Base) \div BlockPages(l)) \div 2

(* The buddy is taken relative to the first page the allocator serves. *)
Buddy(b, l) == XorBit(b - Base, l) + Base

(* A node: its links, and whether its XOR checksum verifies.  A removed     *)
(* node has links and checksum 0, which does not verify (the seed is not    *)
(* 0); neither does whatever a client or the boot code left in a page.      *)
LinkedNode(next, prev) == [next |-> next, prev |-> prev, ok |-> TRUE]
ZeroNode == [next |-> 0, prev |-> 0, ok |-> FALSE]

Idle == [kind |-> "idle", block |-> 0, level |-> 0, target |-> 0]

(*****************************************************************************)
(* The list primitives.  Each is guarded by its own assertions: when one     *)
(* fails the kernel panics and the core halts.                               *)
(*****************************************************************************)
Panic(why) ==
  /\ panic' = why
  /\ UNCHANGED <<head, node, flags, todo, alloc_mem, free_mem, op, held, listed, served>>

Toggle(S, x) == IF x \in S THEN S \ {x} ELSE S \cup {x}

(* add_to_list(l, b): b becomes the tail of the ring of level l. *)
AddChecks(l) ==
  head[l] # 0 => node[head[l]].ok /\ node[node[head[l]].prev].ok

(* Mutant: the old tail is not linked forward to the new block. *)
AddToListTailLost(l, b) ==
  LET first == head[l] IN
  /\ IF first = 0
     THEN /\ head' = [head EXCEPT ![l] = b]
          /\ node' = [node EXCEPT ![b] = LinkedNode(b, b)]
     ELSE /\ head' = head
          /\ node' = [node EXCEPT ![b] = LinkedNode(first, node[first].prev),
                                  ![first].prev = b]
  /\ flags' = [flags EXCEPT ![l] = Toggle(@, BlockPair(b, l))]
  /\ listed' = [listed EXCEPT ![l] = @ \cup {b}]

AddToList(l, b) ==
  LET first == head[l]
      last  == node[first].prev
  IN /\ IF first = 0
        THEN /\ head' = [head EXCEPT ![l] = b]
             /\ node' = [node EXCEPT ![b] = LinkedNode(b, b)]
        ELSE /\ head' = head
             /\ node' = [node EXCEPT ![b] = LinkedNode(first, last),
                                     ![first].prev = b,
                                     ![last].next = b]
     /\ flags' = [flags EXCEPT ![l] = Toggle(@, BlockPair(b, l))]
     /\ listed' = [listed EXCEPT ![l] = @ \cup {b}]

(* A call of add_to_list with what its caller does next. *)
Adding(l, b, Rest) ==
  IF AddChecks(l) THEN AddToList(l, b) /\ Rest ELSE Panic("checksum")

(* remove_from_list(l, b).  When b is the head of a ring of several blocks  *)
(* the code clears b's links before it reads the new head from them, so the *)
(* head becomes 0.                                                          *)
RemoveChecksums(b) ==
  /\ node[b].ok
  /\ node[b].next # b => node[node[b].prev].ok /\ node[node[b].next].ok

RemoveSanity(l, b) ==
  node[b].next = b => node[b].prev = b /\ head[l] = b

(* Mutant: the pair's bit is toggled only when the list becomes empty. *)
RemoveFromListFlagKept(l, b) ==
  LET nxt == node[b].next
      prv == node[b].prev
  IN /\ IF nxt = b
        THEN /\ node' = node
             /\ flags' = [flags EXCEPT ![l] = Toggle(@, BlockPair(b, l))]
        ELSE /\ node' = [node EXCEPT ![nxt].prev = prv, ![prv].next = nxt, ![b] = ZeroNode]
             /\ flags' = flags
     /\ head' = [head EXCEPT ![l] = IF nxt = b \/ @ = b THEN 0 ELSE @]
     /\ listed' = [listed EXCEPT ![l] = @ \ {b}]

RemoveFromList(l, b) ==
  LET nxt == node[b].next
      prv == node[b].prev
  IN /\ IF nxt = b
        THEN node' = node
        ELSE node' = [node EXCEPT ![nxt].prev = prv,
                                  ![prv].next = nxt,
                                  ![b] = ZeroNode]
     /\ head' = [head EXCEPT ![l] = IF nxt = b \/ @ = b THEN 0 ELSE @]
     /\ flags' = [flags EXCEPT ![l] = Toggle(@, BlockPair(b, l))]
     /\ listed' = [listed EXCEPT ![l] = @ \ {b}]

(* A call of remove_from_list with what its caller does next. *)
Removing(l, b, Rest) ==
  IF ~RemoveChecksums(b) THEN Panic("checksum")
  ELSE IF ~RemoveSanity(l, b) THEN Panic("list head")
  ELSE RemoveFromList(l, b) /\ Rest

(* Mutant: the block is not capped by what remains of the range. *)
FitsAligned(r, l) == IsAligned(r.base, l)

(*****************************************************************************)
(* Construction.  `new` clears the metadata and init_metadata then adds, for *)
(* each available range, the largest block that is aligned on its own size   *)
(* and fits, until the range is used up.                                     *)
(*****************************************************************************)
Fits(r, l) == IsAligned(r.base, l) /\ BlockPages(l) <= r.size

(* The pages of the available ranges, as `new` adds them up. *)
TotalSize(t) ==
  LET sum[i \in 0 .. Len(t)] == IF i = 0 THEN 0 ELSE sum[i - 1] + t[i].size
  IN sum[Len(t)]

Init ==
  /\ head = [l \in Level |-> 0]
  /\ node = [p \in {0} \cup Page |-> ZeroNode]
  /\ flags = [l \in Level |-> {}]
  /\ todo \in Layouts
  /\ alloc_mem = 0
  /\ free_mem = TotalSize(todo)
  /\ op = Idle
  /\ panic = "none"
  /\ held = {}
  /\ listed = [l \in Level |-> {}]
  /\ served = UNION {RangePages(todo[i]) : i \in DOMAIN todo}

InitBlock ==
  /\ panic = "none"
  /\ todo # <<>>
  /\ LET r == Head(todo) IN
     \E l \in Level :
       /\ Fits(r, l) /\ (l + 1 \in Level => ~Fits(r, l + 1))
       /\ Adding(l, r.base,
            /\ todo' = IF r.size = BlockPages(l)
                       THEN Tail(todo)
                       ELSE [todo EXCEPT ![1] = [base |-> r.base + BlockPages(l),
                                                 size |-> r.size - BlockPages(l)]]
            /\ UNCHANGED <<alloc_mem, free_mem, op, panic, held, served>>)

Ready == panic = "none" /\ todo = <<>>

(*****************************************************************************)
(* allocate(pages): the first level, from the smallest sufficient one up,    *)
(* whose list is not empty gives its head; the block is then halved down to  *)
(* the wanted level, its odd half going back on a list each time.            *)
(*****************************************************************************)
Available(pages, target, level) ==
  /\ pages > 0
  /\ IsCeilLog2(pages, target)
  /\ target <= level
  /\ head[level] # 0
  /\ \A k \in target .. level - 1 : head[k] = 0

AllocateNone(pages) ==
  /\ Ready /\ op = Idle
  /\ ~\E t, l \in Level : Available(pages, t, l)
  /\ UNCHANGED vars

AllocatePop(pages) ==
  /\ Ready /\ op = Idle
  /\ \E t, l \in Level :
       /\ Available(pages, t, l)
       /\ Removing(l, head[l],
            /\ op' = [kind |-> "alloc", block |-> head[l], level |-> l, target |-> t]
            /\ UNCHANGED <<todo, alloc_mem, free_mem, panic, held, served>>)

(* Mutant: the half split off last does not go back on a list. *)
AllocateSplitSkipsLast ==
  /\ Ready /\ op.kind = "alloc" /\ op.level > op.target
  /\ LET l == op.level - 1
         Rest == /\ op' = [op EXCEPT !.level = l]
                 /\ UNCHANGED <<todo, alloc_mem, free_mem, panic, held, served>>
     IN IF l > op.target THEN Adding(l, OrBit(op.block, l), Rest) ELSE Rest /\ UNCHANGED allocVars

AllocateSplit ==
  /\ Ready /\ op.kind = "alloc" /\ op.level > op.target
  /\ LET l == op.level - 1 IN
     Adding(l, OrBit(op.block, l),
       /\ op' = [op EXCEPT !.level = l]
       /\ UNCHANGED <<todo, alloc_mem, free_mem, panic, held, served>>)

AllocateReturn ==
  /\ Ready /\ op.kind = "alloc" /\ op.level = op.target
  /\ free_mem' = free_mem - BlockPages(op.target)
  /\ alloc_mem' = alloc_mem + BlockPages(op.target)
  /\ held' = held \cup Span(op.block, op.target)
  /\ op' = Idle
  /\ UNCHANGED <<allocVars, todo, panic, served>>

(* Mutant: the alignment of the freed run is not asserted. *)
FreeUnaligned(b, l) ==
  /\ Ready /\ op = Idle
  /\ Span(b, l) \subseteq held
  /\ held' = held \ Span(b, l)
  /\ op' = [kind |-> "free", block |-> b, level |-> l, target |-> l]
  /\ UNCHANGED <<allocVars, todo, alloc_mem, free_mem, panic, served>>

(*****************************************************************************)
(* free(base, pages): clients give back any aligned power-of-2 run of pages  *)
(* they own.  While the pair's bit says the buddy is free the two coalesce;  *)
(* the loop ends by linking the block, or by running out of levels.          *)
(*****************************************************************************)
Free(b, l) ==
  /\ Ready /\ op = Idle
  /\ IsAligned(b, l) /\ Span(b, l) \subseteq held
  /\ held' = held \ Span(b, l)
  /\ op' = [kind |-> "free", block |-> b, level |-> l, target |-> l]
  /\ UNCHANGED <<allocVars, todo, alloc_mem, free_mem, panic, served>>

(* Mutant: the counters move by the size of the coalesced block. *)
FreeCountsCoalesced ==
  /\ free_mem' = free_mem + BlockPages(op.level)
  /\ alloc_mem' = alloc_mem - BlockPages(op.level)
  /\ op' = Idle

FreeCounts ==
  /\ free_mem' = free_mem + BlockPages(op.target)
  /\ alloc_mem' = alloc_mem - BlockPages(op.target)
  /\ op' = Idle

Freeing == Ready /\ op.kind = "free"
(* Mutants: the pair's bit is not consulted; the buddy is never looked for. *)
BuddyAssumedFree == TRUE
BuddyNeverFree == FALSE

BuddyFree == BlockPair(op.block, op.level) \in flags[op.level]

FreeLink ==
  /\ Freeing /\ op.level \in Level /\ ~BuddyFree
  /\ Adding(op.level, op.block,
       FreeCounts /\ UNCHANGED <<todo, panic, held, served>>)

(* Mutant: the coalesced block keeps the freed block's address. *)
FreeCoalesceNoMin ==
  /\ Freeing /\ op.level \in Level /\ BuddyFree
  /\ Removing(op.level, Buddy(op.block, op.level),
       /\ op' = [op EXCEPT !.level = @ + 1]
       /\ UNCHANGED <<todo, alloc_mem, free_mem, panic, held, served>>)

FreeCoalesce ==
  /\ Freeing /\ op.level \in Level /\ BuddyFree
  /\ LET buddy == Buddy(op.block, op.level) IN
     Removing(op.level, buddy,
       /\ op' = [op EXCEPT !.block = IF buddy < @ THEN buddy ELSE @,
                           !.level = @ + 1]
       /\ UNCHANGED <<todo, alloc_mem, free_mem, panic, held, served>>)

FreeExhausted ==
  /\ Freeing /\ op.level = Levels
  /\ FreeCounts
  /\ UNCHANGED <<allocVars, todo, panic, held, served>>

(* A client writes to a page it owns, over whatever node was left there. *)
ClientWrite(p) ==
  /\ panic = "none"
  /\ p \in held /\ node[p] # ZeroNode
  /\ node' = [node EXCEPT ![p] = ZeroNode]
  /\ UNCHANGED <<head, flags, todo, alloc_mem, free_mem, op, panic, held, listed, served>>

(* The panic handler halts the core for good, with the lock held. *)
Halt == panic # "none" /\ UNCHANGED vars

Next ==
  \/ InitBlock
  \/ \E pages \in 0 .. BlockPages(Levels - 1) + 1 :
       AllocateNone(pages) \/ AllocatePop(pages)
  \/ AllocateSplit
  \/ AllocateReturn
  \/ \E b \in Page, l \in Level : Free(b, l)
  \/ FreeLink
  \/ FreeCoalesce
  \/ FreeExhausted
  \/ \E p \in Page : ClientWrite(p)
  \/ Halt

Spec == Init /\ [][Next]_vars

-----------------------------------------------------------------------------
(*****************************************************************************)
(* Properties.                                                               *)
(*****************************************************************************)

(* The variables keep their types; blocks on the lists are pages of the     *)
(* area.  (Accounting says what the two counters are.)                      *)
TypeOK ==
  /\ head \in [Level -> {0} \cup Page]
  /\ node \in [{0} \cup Page -> [next : {0} \cup Page, prev : {0} \cup Page, ok : BOOLEAN]]
  /\ flags \in [Level -> SUBSET (0 .. Size)]
  /\ todo \in Seq([base : Page, size : Nat])
  /\ op \in [kind : {"idle", "alloc", "free"}, block : {0} \cup Page,
             level : 0 .. Levels, target : Level]
  /\ panic \in {"none", "checksum", "list head"}
  /\ held \in SUBSET Page
  /\ listed \in [Level -> SUBSET Page]
  /\ served \in SUBSET Page

(* The block a call in progress has taken off the lists or from a client. *)
InFlight == IF op.kind = "idle" THEN {} ELSE Span(op.block, op.level)

(* The parts of the next property: blocks on the lists are disjoint from    *)
(* each other; from what clients and the call in progress own; and from     *)
(* what init_metadata has still to add.                                     *)
ListsDisjoint ==
  \A l, k \in Level : \A b \in listed[l], c \in listed[k] :
    l # k \/ b # c => Span(b, l) \cap Span(c, k) = {}

ListsOwned ==
  \A l \in Level : \A b \in listed[l] : Span(b, l) \subseteq served \ (held \cup InFlight)

ListsBuilt ==
  \A i \in DOMAIN todo : \A l \in Level : \A b \in listed[l] :
    RangePages(todo[i]) \cap Span(b, l) = {}

(* No page has two owners: a page is owned by a client, or by one block on  *)
(* one list, or by the call in progress, or has not been added yet, and no  *)
(* block reaches outside the available ranges (into the kernel image or the *)
(* allocator's own metadata).  This is what makes `allocate` safe, across   *)
(* every split and coalesce.                                                *)
NoDoubleOwnership ==
  /\ ListsDisjoint
  /\ ListsOwned
  /\ ListsBuilt
  /\ InFlight \subseteq served \ held
  /\ held \subseteq served

(* The allocator implements the contract of the PageAllocator trait: every  *)
(* block it hands out is aligned on its size, inside the available ranges   *)
(* and free of pages that clients already own.                              *)
Contract == INSTANCE PageAllocator WITH PageSet <- Page, MaxLevel <- Levels - 1

ImplementsPageAllocator == Contract!Spec

(* The blocks of a level are linked both ways into rings, with valid        *)
(* checksums, and a list head is a member: the traversals of add_to_list    *)
(* and remove_from_list never leave the free blocks of the level, even      *)
(* though clients overwrite the pages they own.                             *)
RingsClosed ==
  \A l \in Level :
    /\ head[l] # 0 => head[l] \in listed[l]
    /\ \A b \in listed[l] :
         /\ node[b].ok
         /\ node[b].next \in listed[l] /\ node[node[b].next].prev = b
         /\ node[b].prev \in listed[l] /\ node[node[b].prev].next = b

(* A pair's bit is 1 exactly when one of the two buddies is on the list     *)
(* (doc/ARCHITECTURE.md), so `free` coalesces only with a free buddy.       *)
FlagsMatchLists ==
  \A l \in Level : \A b \in Page :
    IsAligned(b, l) =>
      (BlockPair(b, l) \in flags[l] <=> ~(b \in listed[l] <=> Buddy(b, l) \in listed[l]))

(* Below the largest level two buddies are never both free: `free` merges   *)
(* them at every level, whatever the order in which they come back.         *)
Coalesced ==
  \A l \in Level : l + 1 \in Level =>
    \A b \in listed[l] : Buddy(b, l) \notin listed[l]

(* verify_checksum never fails: no assertion of get_block_node_mut panics. *)
ChecksumsVerify == panic # "checksum"

(* Between calls the counters agree with what clients own, and their sum is *)
(* always the memory the allocator was given.                               *)
Accounting ==
  /\ op = Idle => alloc_mem = Cardinality(held)
  /\ free_mem + alloc_mem = Cardinality(served)

(* Where a page can be: with a client, in the block of the call in          *)
(* progress, in a block on a list, or in a range still to add.              *)
Covered(p) == \E l \in Level : \E b \in listed[l] : p \in Span(b, l)
Placed(p) ==
  \/ p \in held
  \/ p \in InFlight
  \/ Covered(p)
  \/ \E i \in DOMAIN todo : p \in RangePages(todo[i])

Lost == {p \in served : ~Placed(p)}

(* The k-th pair of buddies of the largest level. *)
TopPair(k) == Base + k * BlockPages(Levels) .. Base + k * BlockPages(Levels) + BlockPages(Levels) - 1

(* No page drops out of the allocator through a split, a merge or           *)
(* construction.  The one place that loses memory is the end of `free`'s    *)
(* loop: a page that is nowhere lies in a pair of largest blocks that free  *)
(* merged, and the whole pair is gone with it, never a part of one.         *)
OnlyTopPairsLost ==
  \A p \in Lost : \E k \in 0 .. Size : p \in TopPair(k) /\ TopPair(k) \subseteq Lost

-----------------------------------------------------------------------------
(*****************************************************************************)
(* What comments, docs and tests say of the allocator and the code does not  *)
(* keep.  HeadReachesList and AllocationsDisjoint have runs of their own.    *)
(*****************************************************************************)

(* "If this block is the head block, move the head to the next block": a    *)
(* list with blocks has a head, so `allocate` can find them.                *)
HeadReachesList == \A l \in Level : head[l] = 0 => listed[l] = {}

(* get_free_mem is "the amount of memory currently available": between      *)
(* calls, the pages counted free are the pages on the lists.                *)
FreeMemIsListed ==
  (Ready /\ op = Idle) =>
    free_mem = Cardinality({p \in Page : \E l \in Level : \E b \in listed[l] : p \in Span(b, l)})

(* "sanity check the block and list": the assertions of remove_from_list    *)
(* hold for every sequence of valid calls.                                  *)
ListSanityHolds == panic # "list head"

(* alloc "will be aligned to the final size", and successive allocations    *)
(* have "no overlap" (the allocator's tests): the block a call is about to  *)
(* return holds no page of another client.                                  *)
AllocationsDisjoint ==
  op.kind = "alloc" => Span(op.block, op.target) \cap held = {}

=============================================================================
