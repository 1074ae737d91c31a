-------------------------------- MODULE MCBuddy --------------------------------
(* A small buddy allocator: 3 levels, at most 12 pages, several layouts. *)
EXTENDS BuddyAligned

Rng(b, s) == [base |-> b, size |-> s]

(* One range of three whole blocks; one of two; two ranges around a hole,    *)
(* the second a whole block; two ranges of odd pages.                        *)
MCLayouts ==
  { << Rng(4, 12) >>, << Rng(4, 8) >>, << Rng(4, 2), Rng(8, 4) >>, << Rng(5, 2), Rng(8, 3) >> }

(* The first page is aligned on the largest block, as every theorem asks,    *)
(* and no two ranges of a layout touch, as the one about Coalesced asks.     *)
ASSUME AreaAligned == BaseAligned
ASSUME LayoutsApart == RangesApart

=============================================================================
