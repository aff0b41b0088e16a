SPECIFICATION Spec
CONSTANTS
  P = 43
  N = 31
  A = 0
  B = 7
  Gx = 2
  Gy = 12
  Beta = 36
  A1 = 1
  B1 <- MCB1
  A2 = 6
  HalfBits = 3
  SplitBound = 8
  PriceLists <- MCPriceLists
  Events <- MCEvents
  Now <- MCNow
  Found <- MCFound
  Typed <- MCTyped
  Lengths <- MCLengths
  Keys <- MCKeys
  Words <- MCWords
  Numbers <- MCNumbers
  Points <- MCPoints
  Scalars <- MCScalars
  Signatures <- MCSignatures
  Tables <- MCTables
  Pieces <- MCPieces
  Digests <- MCDigests
  HexTexts <- MCHexTexts
  Sizes <- MCSizes
  Operations <- MCOperations
  Deliveries <- MCDeliveries
  AnnouncementKind = 30078
  BackupTags = {"backup x", "backup y"}
INVARIANTS PricesAreTold AnnouncementsAreJudgedAlike RowsAreTrue CodesNameKeys SignaturesAreSound
CHECK_DEADLOCK FALSE
