SPECIFICATION KeysSpec
CONSTANTS
  Texts = {t}
  Empty = Empty
  Hasty = FALSE
  Workspace = TRUE
  MaxGestures = 4
  MaxReports = 1
  MaxTrouble = 1
  Repairs = 2
  MaxDecisions = 5
  MaxPresses = 2
  MaxBeside = 1
  Foreign = {"stop"}
INVARIANTS QuietIsSettled 
CHECK_DEADLOCK FALSE
