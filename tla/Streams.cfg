SPECIFICATION FairSpec
CONSTANTS
  x1 = x1
  c1 = c1
  Scans = {x1}
  Teams = {c1}
  Views <- SomeViews
  Threads = {t1, t2}
  Streams = {s1, s2}
  MaxCommits = 2
  MaxBusy = 3
  Faults <- AllFaults
INVARIANTS
  TypeOK
  StreamsCatchUp
  InvitationsAreMailed
PROPERTIES
  ScansInOrder
  StreamsHear
