SPECIFICATION Spec
CONSTANTS
  o1 = o1
  o2 = o2
  w1 = w1
  w2 = w2
  m1 = m1
  Org = {o1, o2}
  Member = {m1}
  Worker = {w1, w2}
  None = None
  Zone <- MCZone
  Expiry <- MCExpiry
  HoursPerDay = 2
  SendHour = 1
  AlreadyHours = 2
  FreshEvery = 3
  ExpiryWindow = 1
  MaxTime = 2
  MaxFailures = 1
  MaxOpen = 1
SYMMETRY Symmetry
CHECK_DEADLOCK FALSE
INVARIANTS TypeOK OneDigest NobodyForgotten TwoMailsAtMost
