SPECIFICATION Spec
CONSTANTS
  Core = {c1, c2}
  Bundle = {b1, b2, b3, b4}
  Obj = {o1, o2, o3}
  BUNDLE_SIZE = 1
  MaxOwned = 4
  Null = Null
  Poison = Poison
SYMMETRY Symmetric
INVARIANTS ObjectsConserved CacheIndexSafe BundlesOwnedOnce
