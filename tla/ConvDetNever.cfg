\* Detection that does not come.
CONSTANTS
  left = left
  middle = middle
  right = right
  Router <- MCRouter
  Adjacent <- MCAdjacent
  Mode = {"prefix"}
  Budget <- MCBudgetUp
SPECIFICATION Spec
CHECK_DEADLOCK FALSE
INVARIANTS
  QuietIsDetected
