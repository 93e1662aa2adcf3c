SPECIFICATION RestoringSpec
CONSTANTS
  InStock = 3
  MaxSale = 2
  NoFile = NoFile
PROPERTIES
  RestoreSticks
CHECK_DEADLOCK FALSE
