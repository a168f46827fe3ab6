SPECIFICATION Spec
CONSTANTS
  w1 = w1
  w2 = w2
  None = None
  Worker = {w1, w2}
  MinutesPerHour = 2
  HoursPerDay = 1
  MinuteParts <- MCMinuteParts
  HourParts <- MCHourParts
  HealthEvery = 2
  PageSize = 1
  MaxOffset = 1
  Lookback = 9
  MaxRetries = 1
  Budget = 1
  Week = 1
  MinVolume = 1
  MaxTime = 2
  MaxShown = 2
  MaxFailures = 1
  MaxToggles = 1
SYMMETRY Symmetry
CHECK_DEADLOCK FALSE
INVARIANTS TypeOK NothingSkipped GreenIsFresh
PROPERTY TransitionsRecorded
