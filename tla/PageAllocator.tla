---------------------------- MODULE PageAllocator ----------------------------
(*****************************************************************************)
(* What the PageAllocator trait of src/arch/common/memory.rs promises its    *)
(* clients, whatever structure the implementation keeps: a successful alloc  *)
(* hands out a contiguous power-of-2 block, aligned on its own size, of      *)
(* pages that nobody else holds; free takes pages back.  An alloc may always *)
(* return None, which changes nothing here.                                  *)
(*****************************************************************************)
EXTENDS Integers

CONSTANTS
  PageSet,   \* the pages the allocator manages
  MaxLevel   \* MAX_BLOCK_PAGES is 2^MaxLevel

VARIABLES
  served,    \* the pages the allocator was given
  held       \* the pages its clients own

Init == served \in SUBSET PageSet /\ held = {}

Block(b, l) == b .. b + 2^l - 1

Alloc ==
  \E b \in served, l \in 0 .. MaxLevel :
    /\ b % 2^l = 0
    /\ Block(b, l) \subseteq served \ held
    /\ held' = held \cup Block(b, l)
    /\ served' = served

Free ==
  \E b \in held, l \in 0 .. MaxLevel :
    /\ b % 2^l = 0
    /\ Block(b, l) \subseteq held
    /\ held' = held \ Block(b, l)
    /\ served' = served

Next == Alloc \/ Free

Spec == Init /\ [][Next]_<<served, held>>

=============================================================================
