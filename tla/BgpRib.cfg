\* The bound on inputs, and a corrupted reuse list, stop the model.
CONSTANTS
  NoRoute = NoRoute
  NoInfo = NoInfo
  Peer = {1, 2, 3}
  Attr <- MCAttr
  Offers <- MCOffers
  Config <- MCConfig
  Penalty = 2  Suppress = 3  Reuse = 2  Ceiling = 4
  Slots = 2
  Info = {1, 2}
  MaxPrefix = 2
  CountModulus = 4
  MaxInputs = 8
SPECIFICATION Spec
CHECK_DEADLOCK FALSE
INVARIANTS
  TypeOK
  RibIsHeard
PROPERTIES
  IsLocRib
  StaleOnlyByReuse
  StrandedOnlyByCommand
  CountDriftsByDenial
