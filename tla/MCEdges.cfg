SPECIFICATION MCSpec
CONSTANTS
  p1 = p1
  p2 = p2
  w1 = w1
  w2 = w2
  e1 = e1
  e2 = e2
  h1 = h1
  h2 = h2
  Procs = {p1, p2}
  SeqBlockSize = 1
  Names = {n1}
  Colls = {k1}
  MaxSeq = 3
  MaxBoots = 3
  MaxLost = 1
  Writers = {w1, w2}
  Batches <- SentBatches
  Patterns <- SentPatterns
  MaxKeys = 2
  MaxSigil = 1
  MaxTime = 2
  MaxRequests = 3
  MaxFaults = 2
  Traces = {"t1", "t2"}
  SpanCapacity = 2
  MaxNumber = 4
  Exporters = {e1, e2}
  TraceBatches <- SentTraces
  LogBatches <- SentLogs
  ChannelCapacity = 2
  MaxExports = 3
  MaxWindows = 2
  Threads = {h1, h2}
  Interval = 2
  MaxClock = 5
  MaxHits = 4
SYMMETRY Symmetry
INVARIANTS  DomainDataSound SpansTold ThrottleHolds
CHECK_DEADLOCK FALSE
