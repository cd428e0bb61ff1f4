SPECIFICATION Spec
CONSTANTS
  Surfaces = {1, 2}
  Question <- OneQuestion
  Patience = 1
  Holds = {FALSE}
  Hasty = FALSE
  MaxProcesses = 2
  MaxLines = 2
  MaxFailures = 1
  MaxBacklog = 1
INVARIANTS TableIsSound PanelsAreTold
CHECK_DEADLOCK FALSE
