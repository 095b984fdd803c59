SPECIFICATION FairSpec
CONSTANTS
  Chunk = 2
  MaxLines = 2
  MaxTroubles = 1
  MaxWire = 1
  Troubles <- AnyTrouble
INVARIANTS TypeOK NoHole SettledUnlessRaced
PROPERTIES NoSelfInflictedGap Converges
CHECK_DEADLOCK FALSE
