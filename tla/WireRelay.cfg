\* Three peers, four frames between them, every one with room to spare.
SPECIFICATION RelaySpec
CONSTANTS
  Ids <- MCIds
  Limit <- MCLimit
  StoredFiles <- MCFiles
  Requests <- Roomy
  Details = {1}
  Restored <- RoomyReplays
  OUTBOX = 6
  CONVERSATION_ENTRIES = 2
  MaxFrames = 4
INVARIANTS  PlacesAreHeld
PROPERTIES ThreadsEnd
CHECK_DEADLOCK FALSE
