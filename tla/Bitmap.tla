-------------------------------- MODULE Bitmap --------------------------------
(*****************************************************************************)
(* Bitmap<MAP_WORDS> of src/support/bits.rs as operators on its array of     *)
(* words; a word is the set of its bits that are 1.                          *)
(*****************************************************************************)
EXTENDS Integers, FiniteSets, FiniteSetsExt

CONSTANTS WORD_BITS, MAP_WORDS

ASSUME BitmapAssumption == WORD_BITS \in Nat \ {0} /\ MAP_WORDS \in Nat \ {0}

Bit == 0 .. WORD_BITS - 1
Word == 0 .. MAP_WORDS - 1
NoBits == [w \in Word |-> {}]

(* new: the length is capped to the size of the array. *)
Length(bits) == Min({bits, MAP_WORDS * WORD_BITS})

(* get_word_and_shift. *)
WordOf(b) == b \div WORD_BITS
Shift(b) == b % WORD_BITS

(* set_bit: nothing for a bit outside the map. *)
SetBit(bitmap, bits, b) ==
  IF b >= bits THEN bitmap ELSE [bitmap EXCEPT ![WordOf(b)] = @ \cup {Shift(b)}]

(* first_zero: {} or the one index.  The first zero may be past the map. *)
FirstZero(bitmap, bits) ==
  LET open == {w \in Word : bitmap[w] # Bit}
      index == IF open = {} THEN MAP_WORDS * WORD_BITS
               ELSE Min(open) * WORD_BITS + Min(Bit \ bitmap[Min(open)])
  IN IF index >= bits THEN {} ELSE {index}

(* ones. *)
Ones(bitmap) == MapThenSumSet(LAMBDA w : Cardinality(bitmap[w]), Word)

=============================================================================
