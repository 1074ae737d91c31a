------------------------------- MODULE RangeSet -------------------------------
(*****************************************************************************)
(* RangeSet of src/support/range_set.rs: an array of SET_SIZE ranges of      *)
(* which the first count are in use, modelled by the sequence of those.  The *)
(* operations are operators on that sequence; a panic is an operator of its  *)
(* own.                                                                      *)
(*****************************************************************************)
EXTENDS Range, SequencesExt

CONSTANT SET_SIZE

ASSUME SetSizeAssumption == SET_SIZE \in Nat \ {0}

(* insert_range refuses a full set, an empty range and one past usize::MAX. *)
Insertable(set, r) ==
  /\ Len(set) < SET_SIZE
  /\ r.size # 0
  /\ r.base <= UMAX - r.size + 1

(* Mutant: the new range goes last. *)
InsertRangeLast(set, r) == IF Insertable(set, r) THEN Append(set, r) ELSE set

(* insert_range: before the first range with a larger base. *)
InsertRange(set, r) ==
  IF ~Insertable(set, r) THEN set
  ELSE LET ins == CHOOSE i \in 1 .. Len(set) + 1 :
                    /\ \A j \in 1 .. i - 1 : set[j].base <= r.base
                    /\ i = Len(set) + 1 \/ r.base < set[i].base
       IN InsertAt(set, ins, r)

(* What exclude_range leaves of the first n ranges, empty parts included. *)
Pieces(set, n, e) == FlattenSeq([i \in 1 .. n |-> Exclude(set[i], e)])

(* exclude_range finds no room for the second part of a range it splits.     *)
(* The count at that point: the parts so far and the ranges not yet visited. *)
ExcludeFull(set, e) ==
  \E i \in 1 .. Len(set) :
    /\ Len(Exclude(set[i], e)) = 2
    /\ Len(Pieces(set, i - 1, e)) + (Len(set) - i + 1) >= SET_SIZE

(* trim_empty_ranges. *)
TrimEmptyRanges(set) ==
  FlattenSeq([i \in 1 .. Len(set) |-> IF set[i].size > 0 THEN <<set[i]>> ELSE <<>>])

(* exclude_range, when it does not panic. *)
ExcludeRange(set, e) ==
  IF e.size = 0 THEN set ELSE TrimEmptyRanges(Pieces(set, Len(set), e))

(* copy_within((from + 1)..count, from): the last range appears twice, since *)
(* count stays.                                                              *)
CopyDown(set, from) ==
  [i \in 1 .. Len(set) |-> IF from <= i /\ i < Len(set) THEN set[i + 1] ELSE set[i]]

(* The union of ranges i and i + 1 adds up the base and the size of the      *)
(* second, which is one too many when it ends at usize::MAX.                 *)
TrimOverflows(set, i) ==
  /\ Cmp(set[i], set[i + 1]) \in {"LessEqual", "GreaterEqual"}
  /\ set[i + 1].base + set[i + 1].size > UMAX

(* Mutant: the union of two overlapping ranges keeps the first one's size. *)
TrimStepNoUnion(set, i) ==
  CASE Cmp(set[i], set[i + 1]) = "Subset" -> CopyDown(set, i)
    [] OTHER -> CopyDown(set, i + 1)

(* One turn of the loop of trim_overlapping_ranges on ranges that overlap. *)
TrimStep(set, i) ==
  CASE Cmp(set[i], set[i + 1]) \in {"Equal", "Superset"} -> CopyDown(set, i + 1)
    [] Cmp(set[i], set[i + 1]) = "Subset" -> CopyDown(set, i)
    [] OTHER -> CopyDown([set EXCEPT ![i].size = set[i + 1].base + set[i + 1].size - set[i].base],
                         i + 1)

=============================================================================
