CONSTANTS
  Names = {n1, n2}
  NotifyNames = {n1}
  AnonKeys = {u1}
  Conns = {c1, c2}
  Domains = {d1, d2}
  DefaultDomain = d1
  MaxQueue = 1
  EventBuffer = 1
  MaxStarts = 3
  MaxEvents = 0
  MaxOps = 2
SPECIFICATION MCSpec
INVARIANTS OneOwner KeptByItsMaker
PROPERTIES  AbandonedAreDisposed
CHECK_DEADLOCK FALSE
