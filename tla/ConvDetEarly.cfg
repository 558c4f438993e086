\* Detection while an update is held back.
CONSTANTS
  left = left
  middle = middle
  right = right
  Router <- MCRouter
  Adjacent <- MCAdjacent
  Mode = {"prefix"}
  Budget <- MCBudgetUp
SPECIFICATION Spec
CHECK_DEADLOCK FALSE
PROPERTIES
  DetectedOnlyWhenQuiet
