\* Two events, two faults.
CONSTANTS
  e1 = e1  e2 = e2
  Event = {e1, e2}
  Scripted = Scripted
  Run = Run
  None = None
  MaxEvents = 4
  MaxFaults = 2
SPECIFICATION Spec
CHECK_DEADLOCK FALSE
INVARIANTS
  TypeOK
  ComputesEvent
