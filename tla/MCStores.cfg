CONSTANTS
  Capacity = 3
  MaxSeq = 4
  MaxReceived = 5
  Readers = {r1, r2, r3}
  Match = {1, 2, 4, 5, 6}
  MaxCount = 2
  ReadKinds = {"counted"}
  MaxOps = 0
  SpanFloors = {}
  c1 = c1
  Clients = {c1, c2}
  r1 = r1
  r2 = r2
  r3 = r3
  t1 = t1
  t2 = t2
SPECIFICATION MCSpec
SYMMETRY Symmetry
INVARIANTS LossFloorExact ClearIsFinal StoredOnce LateNumbersSound RingExact ExactlyOnce LateLossCounted
PROPERTIES FloorsOnlyRise ImplementsStore BookmarksKept
CHECK_DEADLOCK FALSE
