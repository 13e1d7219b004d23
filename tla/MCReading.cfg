SPECIFICATION MCSpec
CONSTANTS
  NotKnown = NotKnown
  NotGiven = NotGiven
  Short = Short
  f1 = f1
  w1 = w1
  w2 = w2
SYMMETRY Symmetry
INVARIANTS InputsAgree FiltersExact ProfilesExact ComparisonsEarned  CasesReadBack
 
CHECK_DEADLOCK FALSE
