\* Two prefixes share the timer list; two timer threads.
CONSTANTS
  p1 = p1  p2 = p2
  r1 = r1  r2 = r2
  a1 = a1  a2 = a2  a3 = a3
  pass = pass  rewrite = rewrite
  Prefix = {p1, p2}
  Route = {r1, r2}
  Attr = {a1, a2, a3}
  Policy = {pass, rewrite}
  Export <- MCExport
  NoRoute = NoRoute
  NoTimer = NoTimer
  Mrai = 2
  Tid = {1, 2}
SPECIFICATION Spec
SYMMETRY Symmetry
INVARIANTS
  TypeOK
  ReleasedInTime
  AdjOutIsTold
PROPERTIES
  KeepsPromise
  LostOnlyByOvertaking
  SupersededOnlyByDirectSend
