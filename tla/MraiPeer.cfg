\* Two prefixes share the timer and the list.  No symmetry: liveness is checked.
CONSTANTS
  p1 = p1  p2 = p2
  r1 = r1  r2 = r2
  a1 = a1  a2 = a2  a3 = a3
  pass = pass  rewrite = rewrite
  Route = {r1, r2}
  Attr = {a1, a2, a3}
  Export <- MCExport
  NoRoute = NoRoute
  Off = Off
  Mrai = 2
  Prefix = {p1, p2}
  Policy = {pass, rewrite}
  MaxObuf = 3
SPECIFICATION FairSpec
INVARIANTS
  TypeOK
  NoneStranded
  OneForEachPrefix
  AdjOutIsTold
PROPERTIES
  KeepsPromise
  LostOnlyByOvertaking
  IntervalBetweenDecisions
  DrainsWhenQuiet
