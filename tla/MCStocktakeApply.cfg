SPECIFICATION UnsavedSpec
CONSTANTS
  Counts = {first, second}
  Uncounted = Uncounted
  MaxOnShelf = 3
  MaxLost = 2
INVARIANTS
  CountAdopted
CHECK_DEADLOCK FALSE
