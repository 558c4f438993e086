\* Connections close in the end and timers are not set for ever.
CONSTANTS
  c1 = c1
  c2 = c2
  t1 = t1
  t2 = t2
  None = None
  Never = Never
  Conn <- MCConn
  Size = {2}
  MaxMessages <- MCMaxMessages
  Timer <- MCOneTimer
  Owner <- MCOwner
  Wait = {1}
  StartTime <- MCStartTime
  MaxWorkload = 0
  MaxEffects = 1
SPECIFICATION Spec
CHECK_DEADLOCK FALSE
INVARIANTS
  TypeOK
  Listening
  BytesMatch
PROPERTIES
  IsChannel
