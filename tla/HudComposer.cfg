SPECIFICATION HudSpec
CONSTANTS
  desk = desk
  phone = phone
  Surfaces <- TwoSurfaces
  Desk = desk
  MaxJoins = 2
  MaxSaid = 3
  Entries = 2
  LinesKept = 2
  Page = 1
  LastSequence = 4
  Outbox = 3
  MaxFaults = 2
  Files = {file, scan}
  MaxTyped = 3
  Hasty = FALSE
INVARIANTS ScreensShowTheRing OfferWorkedOnce WindowIsSound
CHECK_DEADLOCK FALSE
