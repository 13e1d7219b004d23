SPECIFICATION FilterSpec
CONSTANTS
  NotKnown = NotKnown
  NotGiven = NotGiven
  Short = Short
  f1 = f1
  w1 = w1
  w2 = w2
INVARIANT BuilderRoundTrips
CHECK_DEADLOCK FALSE
