------------------------------ MODULE HashTable ------------------------------
(*****************************************************************************)
(* The table of HashMap<K, V, S, N> (src/support/hash_map.rs): N slots, each *)
(* empty or a (key, value) pair, found by quadratic probing.  A hash is a    *)
(* natural number; what matters of it is the probe sequence it starts.       *)
(*****************************************************************************)
EXTENDS Integers, FiniteSets, FiniteSetsExt

CONSTANTS
  N,           \* slots of the table
  HashValue    \* the hash values that keys may have

ASSUME TableAssumption == N \in Nat \ {0} /\ HashValue \subseteq Nat

VARIABLE hash  \* hash_key, fixed

Slot == 0 .. N - 1
Empty == <<>>
EmptyTable == [s \in Slot |-> Empty]

(* Mutant: the last slot is never probed. *)
ProbeIndexShort(h, i) == (h + i * i) % (N - 1)

(* make_probe_index, in u64: Fnv1aHasher has a u32 state, so that h + i * i  *)
(* does not overflow for any table that fits in memory.                      *)
ProbeIndex(h, i) == (h + i * i) % N

Holds(map, s, key) == map[s] # Empty /\ map[s][1] = key

(* The first probes that end insert, and those that end find and erase. *)
InsertProbes(map, h, key) ==
  {i \in Slot : map[ProbeIndex(h, i)] = Empty \/ Holds(map, ProbeIndex(h, i), key)}
KeyProbes(map, h, key) == {i \in Slot : Holds(map, ProbeIndex(h, i), key)}

(* insert: the key's slot or the first empty one, whichever comes first. *)
CanInsert(map, h, key) == InsertProbes(map, h, key) # {}
InsertKey(map, h, key, value) ==
  IF ~CanInsert(map, h, key) THEN map
  ELSE [map EXCEPT ![ProbeIndex(h, Min(InsertProbes(map, h, key)))] = <<key, value>>]

(* find: {} or the one value.  Empty slots do not end the search. *)
Find(map, h, key) ==
  IF KeyProbes(map, h, key) = {} THEN {}
  ELSE {map[ProbeIndex(h, Min(KeyProbes(map, h, key)))][2]}

(* erase. *)
EraseKey(map, h, key) ==
  IF KeyProbes(map, h, key) = {} THEN map
  ELSE [map EXCEPT ![ProbeIndex(h, Min(KeyProbes(map, h, key)))] = Empty]

=============================================================================
