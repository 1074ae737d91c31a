---------------------------- MODULE MetadataLayout ----------------------------
(*****************************************************************************)
(* Where BuddyPageAllocator (src/mm/page_allocator.rs) keeps the bit of a    *)
(* block pair: the levels' bits lie one after the other in an array of       *)
(* words, each level at a word of its own.  Sizes are in pages, the array    *)
(* is indexed in words.                                                      *)
(*****************************************************************************)
EXTENDS Naturals

CONSTANTS
  BLOCK_LEVELS,
  WORD_BITS,    \* bits of a word
  PAGE_WORDS    \* words of a page

ASSUME LayoutAssumption ==
  BLOCK_LEVELS \in Nat \ {0} /\ WORD_BITS \in Nat \ {0} /\ PAGE_WORDS \in Nat \ {0}

Level == 0 .. BLOCK_LEVELS - 1

(* calc_first_level, and the halving in calc_next_level. *)
BlocksAt(pages, level) == pages \div 2 ^ level

(* Mutant: a last block without a buddy has no bit. *)
LevelBitsPaired(blocks) == blocks \div 2

(* "One bit per block pair", the last pair may be half of one. *)
LevelBits(blocks) == (blocks + 1) \div 2

(* calc_next_level: the offset after a level, in whole words. *)
CalcNextLevel(blocks, offset) == offset + (LevelBits(blocks) + WORD_BITS - 1) \div WORD_BITS

(* make_levels: the offset of each level, and of the end at BLOCK_LEVELS. *)
MakeLevels(pages) ==
  LET offset[level \in 0 .. BLOCK_LEVELS] ==
        IF level = 0 THEN 0 ELSE CalcNextLevel(BlocksAt(pages, level - 1), offset[level - 1])
  IN offset

(* calc_metadata_size, in words, and as align_up makes it pages. *)
CalcMetadataSize(pages) == MakeLevels(pages)[BLOCK_LEVELS]
MetadataPages(pages) == (CalcMetadataSize(pages) + PAGE_WORDS - 1) \div PAGE_WORDS

(* get_flag_index_and_bit, the page counted from the allocator's base. *)
GetFlagIndexAndBit(pages, page_num, level) ==
  LET block_pair == page_num \div 2 ^ (level + 1)
  IN <<MakeLevels(pages)[level] + block_pair \div WORD_BITS, block_pair % WORD_BITS>>

=============================================================================
