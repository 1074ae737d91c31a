-------------------------------- MODULE Range --------------------------------
(*****************************************************************************)
(* Range<TagType> of src/support/range.rs: a tagged interval of addresses    *)
(* [base, base + size) and its three pure operations.  The code returns a    *)
(* pair of optional ranges; here the result is the sequence of the ranges    *)
(* that are there, in that order.                                            *)
(*****************************************************************************)
EXTENDS Integers, Sequences

CONSTANT UMAX   \* usize::MAX

ASSUME UmaxAssumption == UMAX \in Nat

End(r) == r.base + (r.size - 1)

(* The addresses of a range. *)
Cover(r) == r.base .. r.base + r.size - 1

(* cmp, for two ranges that are not empty. *)
Cmp(l, r) ==
  IF l.base = r.base /\ l.size = r.size THEN "Equal"
  ELSE IF End(l) < r.base THEN "Less"
  ELSE IF End(r) < l.base THEN "Greater"
  ELSE IF l.base <= r.base /\ End(l) >= End(r) THEN "Superset"
  ELSE IF r.base <= l.base /\ End(r) >= End(l) THEN "Subset"
  ELSE IF l.base < r.base THEN "LessEqual" ELSE "GreaterEqual"

(* The part of r below e, and the part above it.  The base of the part above *)
(* is computed in usize and wraps when e ends at usize::MAX.                 *)
Below(r, e) == [tag |-> r.tag, base |-> r.base, size |-> e.base - r.base]
Above(r, e) == [tag |-> r.tag, base |-> (End(e) + 1) % (UMAX + 1), size |-> End(r) - End(e)]

(* exclude: what is left of r without e.  A part may be empty. *)
Exclude(r, e) ==
  LET order == Cmp(r, e) IN
  IF order \in {"Less", "Greater"} THEN <<r>>
  ELSE IF order = "LessEqual" THEN <<Below(r, e)>>
  ELSE IF order = "GreaterEqual" THEN <<Above(r, e)>>
  ELSE IF order = "Superset" THEN <<Below(r, e), Above(r, e)>>
  ELSE <<>>

(* exclude computes excl_end + 1: an overflow when e ends at usize::MAX. *)
ExcludeOverflows(r, e) == Cmp(r, e) \in {"GreaterEqual", "Superset"} /\ End(e) = UMAX

(* split at an address, for a range that is not empty. *)
Split(r, at) ==
  IF at <= r.base THEN [low |-> <<>>, high |-> <<r>>]
  ELSE IF at > End(r) THEN [low |-> <<r>>, high |-> <<>>]
  ELSE [low  |-> <<[tag |-> r.tag, base |-> r.base, size |-> at - r.base]>>,
        high |-> <<[tag |-> r.tag, base |-> at, size |-> End(r) - at + 1]>>]

=============================================================================
