----------------------------- MODULE BuddyAligned -----------------------------
(*****************************************************************************)
(* The invariants of the buddy allocator when the first page it serves is    *)
(* aligned on the largest block.  Blocks are aligned on absolute addresses   *)
(* while pairs and buddies are counted from Base; the two agree only then.   *)
(* Boot aligns the base on a section and no more (MCBuddySection), so the    *)
(* alignment is a hypothesis that every theorem states, not an assumption.   *)
(*****************************************************************************)
EXTENDS BuddyPageAllocator

BaseAligned == \A l \in Level : Base % BlockPages(l) = 0

(* What the proofs use of the powers of 2. *)
ASSUME PowersOfTwo ==
  \A l \in Level : BlockPages(l) \in Nat \ {0} /\ BlockPages(l + 1) = 2 * BlockPages(l)

(*****************************************************************************)
(* The inductive invariant: what the properties leave unsaid about the       *)
(* blocks on the lists, the call in progress and the ranges still to add.    *)
(*****************************************************************************)
ListedAligned == \A l \in Level : \A b \in listed[l] : IsAligned(b, l)

OpInv ==
  /\ op.kind = "idle" => op = Idle
  /\ op.kind # "idle" =>
       /\ op.block \in Page
       /\ op.level \in Level => IsAligned(op.block, op.level)
  /\ op.kind = "alloc" => op.level \in Level /\ op.target <= op.level

TodoInv ==
  /\ todo # <<>> => op = Idle /\ held = {}
  /\ \A i \in DOMAIN todo : RangePages(todo[i]) \subseteq served
  /\ \A i, j \in DOMAIN todo : i # j => RangePages(todo[i]) \cap RangePages(todo[j]) = {}

IInv ==
  /\ TypeOK
  /\ ListedAligned
  /\ OpInv
  /\ TodoInv
  /\ NoDoubleOwnership
  /\ RingsClosed
  /\ FlagsMatchLists
  /\ ChecksumsVerify

(*****************************************************************************)
(* What the two remaining properties need.  The counters change only when a  *)
(* call ends, so the block of a call to free is counted as allocated.        *)
(*****************************************************************************)
Ledger ==
  /\ alloc_mem \in Int /\ free_mem \in Int
  /\ free_mem + alloc_mem = Cardinality(served)
  /\ alloc_mem = Cardinality(held) + (IF op.kind = "free" THEN BlockPages(op.target) ELSE 0)

(* The block of a call to free that ran out of levels is a pair of largest  *)
(* blocks.                                                                  *)
EndsWithPair ==
  op.kind # "idle" /\ op.level = Levels => \E k \in 0 .. Size : InFlight = TopPair(k)

(* No available range begins where another ends.  init_metadata takes the   *)
(* ranges one at a time, so two buddies of adjacent ranges are both linked. *)
RangesApart ==
  \A t \in Layouts : \A i, j \in DOMAIN t : i # j => t[i].base + t[i].size # t[j].base

(* No block on a list touches a range still to add, but for the blocks of   *)
(* the first range before the rest of it; and the last of these has no      *)
(* buddy there.                                                             *)
TodoApart ==
  \A i \in DOMAIN todo :
    /\ todo[i].size > 0
    /\ \A j \in DOMAIN todo : i # j => todo[i].base + todo[i].size # todo[j].base
    /\ \A l \in Level : \A b \in listed[l] :
         /\ todo[i].base + todo[i].size # b
         /\ b + BlockPages(l) = todo[i].base =>
              i = 1 /\ (l + 1 \in Level /\ IsAligned(b, l + 1) => todo[i].size < BlockPages(l))

=============================================================================
