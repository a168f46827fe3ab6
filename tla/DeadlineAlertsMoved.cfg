SPECIFICATION Spec
CONSTANTS
  w1 = w1
  w2 = w2
  s1 = s1
  s2 = s2
  Tender = {tender}
  Sweeper = {w1}
  Sender = {s1}
  NoSource = NoSource
  Offset = {1, 3}
  Critical = 3
  Horizon = 4
  MaxAmends = 1
  MaxAborts = 0
  MaxOutages = 0
INVARIANT CorrectsItself
