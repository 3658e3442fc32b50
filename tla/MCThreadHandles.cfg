SPECIFICATION Spec
CONSTANTS
  Handle = {a1, a2, a3}
  Hive = {v1, v2, v3, v4}
  Null = Null
  UIntMod = 3
  Garbage = {0, 1, 2}
INVARIANTS NoDanglingHandle LastOneDeletes ListIntact
PROPERTY ImplementsSharing
CHECK_DEADLOCK FALSE
