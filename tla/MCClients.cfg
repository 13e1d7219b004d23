SPECIFICATION MCSpec
CONSTANTS
  c1 = c1
  c2 = c2
  Clients = {c1, c2}
  DomainNames = {"a", "b", "default"}
  DefaultDomain = "default"
  ConfigDomains = {}
  PortSpecs <- GelfSpecs
  Ports = {1, 2}
  MaxDomains = 1
  MaxMade = 2
  Callers = {c1}
  MaxBridges = 2
  MaxAttempts = 1
  MaxFired = 1
  MaxRestarts = 1
  Named = TRUE
INVARIANTS ReconnectsInOrder CreationsSound
PROPERTIES ConnectionsServed CallsEnd PortsReleased
CHECK_DEADLOCK FALSE
