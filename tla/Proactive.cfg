CONSTANTS
  Runs <- MCRuns
  MaxRows = 4
  MaxSources = 1
  Outcomes = {"stored"}
  Incoming <- MCIncoming
  LogicalRun <- TwoLabels
  Imported = {4}
  MaxConsecutive = 2
  MaxOwed = 1
  Watched = TRUE
  Sends = {"sent"}
SPECIFICATION Spec
INVARIANTS StoppedRowsSaySo ShownAtMostOnce ShownWhenDelivered RunawayBounded
