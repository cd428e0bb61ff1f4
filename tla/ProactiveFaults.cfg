CONSTANTS
  Runs <- MCRuns
  MaxRows = 2
  MaxSources = 1
  Outcomes = {"stored", "refused", "unsynced"}
  Incoming <- MCIncoming
  LogicalRun <- OneLabel
  Imported = {}
  MaxConsecutive = 1
  MaxOwed = 1
  Watched = FALSE
  Sends = {"sent","gone"}
SPECIFICATION Spec
INVARIANTS SlotMatchesAudit ReservationDurable AcknowledgedIsDurable AnswerRecordedOnce
PROPERTIES AnsweredBeforeClosed
