SPECIFICATION Spec
CONSTANTS
  Tables = {"go_t", "goxt"}
  Siblings <- MCSiblings
  Cols = {"a", "b"}
  MaxOrphans = 1
INVARIANTS PrimaryKeyOwn
