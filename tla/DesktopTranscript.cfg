SPECIFICATION DeskSpec
CONSTANTS
  Texts = {a, b}
  Empty = Empty
  Hasty = FALSE
  MaxDictations = 2
  MaxSends = 2
  MaxFaults = 1
  MaxCrashes = 1
  Apps = {editor, browser}
  Panels = {clock, jobs}
  Hurried = FALSE
  MaxTroubles = 1
INVARIANTS WordsAreSafe WindowsAreSound
PROPERTIES SentIsAnswered KeyboardGoesBack
CHECK_DEADLOCK FALSE
