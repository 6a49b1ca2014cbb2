SPECIFICATION Spec
CONSTANTS
  Nodes = {1, 2, 3, 4}
  Arrays = {1, 2}
  Bytes = {1, 2}
  NULL = 0
  Strings = {"", "x"}
  Empty = ""
  Caps = {0, 1}
  FirstCap = 1
  MaxInt = 2
  MaxRoots = 2
  IntKeys <- MCIntKeys
INVARIANTS TypeOK OneOwner NothingLeaks CloneIsExact
PROPERTIES ValuesAreIndependent BorrowedStays
CHECK_DEADLOCK FALSE
