SPECIFICATION Spec
CONSTANTS
  training = training
  fair = fair
  qualiopi = qualiopi
  town = town
  Notices <- MCNotices
  Filters <- MCFilters
  Companies <- MCCompanies
  Areas <- MCAreas
  None = None
  Star = Star
  Blank = {}
  Runway = 3
  InstantThreshold = 80
  MaxTime = 2
CHECK_DEADLOCK FALSE
INVARIANTS GeographyIsReach
PROPERTY OnlyCloses
