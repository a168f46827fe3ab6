SPECIFICATION Spec
CONSTANTS
  big = big
  small = small
  extract = extract
  classify = classify
  Question = {extract, classify}
  Model = {big, small}
  None = None
  TierOf <- MCTierOf
  ModelOf <- MCModelOf
  MaxRetries = 1
  Threshold = 2
  Reset = 2
  TTL = 2
  MaxEntries = 1
  MaxTime = 3
  MaxCalls = 4
CHECK_DEADLOCK FALSE
INVARIANTS TypeOK BreakerSpares DegradesOnlyOnFailure Accounted AnswersInTime
