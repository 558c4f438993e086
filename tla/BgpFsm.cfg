\* Connections run out in the end.
CONSTANTS
  Router <- MCRouter
  Id <- MCId
  MaxUse = 3
  MaxLost = 1
SPECIFICATION Spec
CHECK_DEADLOCK FALSE
INVARIANTS
  TypeOK
  NeverStuck
  UsesConnection
  NotOneSided
  NoEarlyUpdate
  GoneIsKnown
