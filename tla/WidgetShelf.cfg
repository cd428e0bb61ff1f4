SPECIFICATION PanelsSpec
CONSTANTS
  MaxOpens = 3
  Heights <- Sizes
  Corners <- OneSide
  Fed = {1}
  ShelfSlots = 2
  EdgeReach = 5
  Margin = 1
  Grace = 2
  HoldCeiling = 1
  Stills = {"Speech"}
  GivesBackHidden = FALSE
  MaxLost = 1
  WarmShells = 2
  MaxMinted = 4
  Openers = {link, tray}
  MaxWoes = 1
INVARIANTS PanelsStand PoolIsSound
PROPERTIES PanelsLeave
