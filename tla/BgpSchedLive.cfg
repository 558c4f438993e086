\* Connections close in the end and timers are not set for ever.
CONSTANTS
  c1 = c1
  c2 = c2
  t1 = t1
  t2 = t2
  None = None
  Never = Never
  Conn = {c1}
  Size = {1}
  MaxMessages <- MCOneMessage
  Timer <- MCTimer
  Owner <- MCOwner
  Wait <- MCWait
  StartTime <- MCStartTime
  MaxWorkload = 1
  MaxEffects = 2
SPECIFICATION FairSpec
CHECK_DEADLOCK FALSE
INVARIANTS
  WakesInTime
PROPERTIES
  AllRead
  TimersRun
