CONSTANTS
  Moves <- Attempts
  MaxMoves = 3
  Total = 1
  CodAmount = 1
  MaxCrashes = 1
SPECIFICATION Spec
INVARIANTS TypeOK SettledMeansDelivered CollectedOnce
PROPERTY TrackingCatchesUp
