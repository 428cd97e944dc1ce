SPECIFICATION Spec
CONSTANTS
  x1 = x1
  c1 = c1
  Scans = {x1}
  Teams = {c1}
  Views <- SomeViews
  Threads = {t1}
  Streams = {s1}
  MaxCommits = 2
  MaxBusy = 3
  Faults = {}
CHECK_DEADLOCK FALSE
INVARIANT
  InvitationsAreSent
