SPECIFICATION Spec
CONSTANTS
  n1 = n1
  n2 = n2
  n3 = n3
  c1 = c1
  c2 = c2
  w1 = w1
  w2 = w2
  Notice = {n1, n2, n3}
  Content = {c1, c2}
  Worker = {w1, w2}
  None = None
  Near <- MCNear
  Same <- MCSame
  SourceVersion <- MCSourceVersion
  Says <- MCSays
  MaxCandidates = 1
  MaxPublished = 3
  MaxAged = 1
  MaxReruns = 1
SYMMETRY MCSymmetry
CHECK_DEADLOCK FALSE
INVARIANTS TypeOK NothingLost UpToDateUnlessLate VersionsAccount
PROPERTIES NoSecondCard StagesKeepContract
