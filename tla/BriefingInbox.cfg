CONSTANTS
  Runs <- MCRuns
  MaxRows = 2
  MaxSources = 2
  Outcomes = {"stored", "refused", "unsynced"}
  Reports <- MCReports
SPECIFICATION InboxSpec
INVARIANTS DiskLoads QueuedIsDurable DeliveredIsDurable
PROPERTIES NeverBackward EvictsOnlySettled
