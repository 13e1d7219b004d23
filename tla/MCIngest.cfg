CONSTANTS
  Capacity = 2
  MaxSeq = 3
  MaxReceived = 0
  Clients = {c1}
  Contents = {"plain"}
  Traced = {}
  SpanContent = "span"
  Sessions = {1}
  Filters <- EvidenceFilters
  TriggerIds = {1}
  TriggerDefs <- OnceDefs
  InitFilters <- EvidenceInitFilters
  InitTriggers <- Untriggered
  EpochCapacity = 2
  ExportAsks <- EvidenceAsks
  ExportCount = 2
  MaxWindow = 2
  MaxSpans = 0
  MaxOps = 2
  MaxRebinds = 1
SPECIFICATION MCSpec
INVARIANTS PreWindowCaptured WindowsKept  EvidenceSound
PROPERTY OwnWindowOnly
CHECK_DEADLOCK FALSE
