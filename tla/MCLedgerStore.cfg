SPECIFICATION SteadySpec
CONSTANTS
  d1 = d1
  d2 = d2
  Tombstone = Tombstone
  OldestFirst = OldestFirst
  Nil = Nil
  ChunkSize = 2
  References = {d1, d2}
  Dates = {2}
  StartLedgers <- Shops
  MaxItems = 2
  MaxMovements = 4
  MaxChunks = 2
  MaxImages = 3
INVARIANTS
  TypeOK
  MarkerHonest
  ListAgrees
  CacheCoherent
PROPERTIES
  ImplementsLedger
