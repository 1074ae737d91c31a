------------------------------- MODULE HashMap -------------------------------
(*****************************************************************************)
(* HashMap of src/support/hash_map.rs under every sequence of insert, erase  *)
(* and clear, for every hash function: erase leaves a hole in the probe      *)
(* sequences of other keys.                                                  *)
(*****************************************************************************)
EXTENDS HashTable

CONSTANTS Key, Value

VARIABLES
  map,      \* the table
  dict,     \* ghost: what the caller put in and did not take out
  result    \* what the last operation returned

map_vars == <<map, hash, dict, result>>

Absent == <<>>

MapInit ==
  /\ map = EmptyTable /\ hash \in [Key -> HashValue]
  /\ dict = [k \in Key |-> Absent] /\ result = TRUE

Insert(k, v) ==
  /\ map' = InsertKey(map, hash[k], k, v)
  /\ result' = CanInsert(map, hash[k], k)
  /\ dict' = IF result' THEN [dict EXCEPT ![k] = <<v>>] ELSE dict
  /\ UNCHANGED hash

(* Mutant: the probe stops at the first slot. *)
EraseFirst(k) ==
  /\ map' = [map EXCEPT ![ProbeIndex(hash[k], 0)] = Empty]
  /\ result' = (KeyProbes(map, hash[k], k) # {})
  /\ dict' = [dict EXCEPT ![k] = Absent]
  /\ UNCHANGED hash

Erase(k) ==
  /\ map' = EraseKey(map, hash[k], k)
  /\ result' = (KeyProbes(map, hash[k], k) # {})
  /\ dict' = [dict EXCEPT ![k] = Absent]
  /\ UNCHANGED hash

Clear ==
  /\ map' = EmptyTable /\ dict' = [k \in Key |-> Absent]
  /\ result' = TRUE /\ UNCHANGED hash

MapNext ==
  \/ \E k \in Key, v \in Value : Insert(k, v)
  \/ \E k \in Key : Erase(k)
  \/ Clear

MapSpec == MapInit /\ [][MapNext]_map_vars

-----------------------------------------------------------------------------
(*****************************************************************************)
(* Properties.                                                               *)
(*****************************************************************************)

Found(k) == Find(map, hash[k], k)

(* What the caller put in and did not take out is found with its newest      *)
(* value, whatever holes erasures left in its probe sequence and whatever    *)
(* duplicates they made: find does not stop at an empty slot, and a newer    *)
(* duplicate comes first.                                                    *)
InsertedKeysFound == \A k \in Key : dict[k] # Absent => Found(k) = {dict[k][1]}

HalfTaken == Cardinality({at \in Slot : map[at] # Empty}) >= (N + 1) \div 2

(* With a prime N the first (N + 1) / 2 probes are distinct: insert fails    *)
(* only when so many slots are taken, whatever the hash values are.          *)
InsertFailsOnlyWhenHalfFull ==
  [][~result' /\ (\E k \in Key, v \in Value : Insert(k, v)) => HalfTaken]_map_vars

(* "Erase a (key, value) pair from the map": an erased key is not found. *)
ErasedKeysGone == \A k \in Key : dict[k] = Absent => Found(k) = {}

=============================================================================
