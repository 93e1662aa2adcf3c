SPECIFICATION RetrySpec
CONSTANTS
  m1 = m1
  m2 = m2
  NoMount = NoMount
  Mounts = {m1, m2}
  Scans <- AllScans
  BatchSize = 2
  Opening = 2
  MaxSale = 1
  MaxStock = 6
INVARIANTS
  AppliedOnce
