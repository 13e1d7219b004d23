SPECIFICATION ProfileSpec
CONSTANTS
  NotKnown = NotKnown
  NotGiven = NotGiven
  Short = Short
  f1 = f1
  w1 = w1
  w2 = w2
INVARIANT SelfTimeAsDefined
CHECK_DEADLOCK FALSE
