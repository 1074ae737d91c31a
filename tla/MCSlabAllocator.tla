---------------------------- MODULE MCSlabAllocator ----------------------------
(* Small slab allocators.  Cores, bundles and objects are interchangeable. *)
EXTENDS SlabAllocator, TLC

Symmetric == Permutations(Core) \cup Permutations(Bundle) \cup Permutations(Obj)

=============================================================================
