SPECIFICATION ContentSpec
CONSTANTS
  Sizes <- MCSizes
  ObjectQuotas = {1, 2}
  ByteQuota = 3
  Unreferenced = 1
  Referenced = 2
  MaxClock = 3
  MaxFaults = 2
  Kind <- MCKind
  Ranges <- MCRanges
  Recordings <- MCRecordings
  MaxAudio = 2
INVARIANTS StoreIsSound AnswersAreTrue
CHECK_DEADLOCK FALSE
