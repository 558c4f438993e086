\* All three modes.  A converged network stops.
CONSTANTS
  left = left
  middle = middle
  right = right
  Router <- MCRouter
  Adjacent <- MCAdjacent
  Mode = {"off", "prefix", "peer"}
  Budget <- MCBudget
SYMMETRY MCMirror
SPECIFICATION Spec
CHECK_DEADLOCK FALSE
INVARIANTS
  TypeOK
  AccountedFor
  ExactWithoutMrai
  LeftOverIsMarked
