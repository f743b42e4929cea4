CONSTANTS
  a = a
  b = b
  List = {a, b}
  size_max = 4
  item_size = 2
  Offsets <- ReleasedOffsets
SPECIFICATION BlocksSpec
INVARIANTS FreeListComplete BothWays DetachedInsertable
PROPERTIES ImplementsBlockPool ImplementsSequences
