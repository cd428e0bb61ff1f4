SPECIFICATION Spec
CONSTANTS
  desk = desk
  phone = phone
  Surfaces <- TwoSurfaces
  MaxSaid = 3
  Page = 1
  MaxTyped = 2
  MaxFiles = 2
  MaxQueue = 1
  Hasty = FALSE
  MaxFaults = 1
SYMMETRY Symmetry
INVARIANTS AnswersGoHome 
CHECK_DEADLOCK FALSE
