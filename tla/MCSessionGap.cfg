SPECIFICATION OwnersSpec
CONSTANTS
  NotifyNames = {n1}
  Names = {n1}
  AnonKeys = {}
  Conns = {c1}
  Domains = {d1}
  DefaultDomain = d1
  MaxQueue = 2
  EventBuffer = 2
  MaxStarts = 3
  MaxEvents = 2
  MaxOps = 1

CHECK_DEADLOCK FALSE
PROPERTY MissedIsDelivered
