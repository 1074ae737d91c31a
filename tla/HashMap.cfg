SPECIFICATION MapSpec
CONSTANTS
  N = 5
  Key = {"a", "b", "c", "d"}
  Value = {1, 2}
  HashValue = {0, 1}
INVARIANT InsertedKeysFound
PROPERTY InsertFailsOnlyWhenHalfFull
