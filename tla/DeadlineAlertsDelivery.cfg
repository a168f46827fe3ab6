SPECIFICATION FairSpec
CONSTANTS
  w1 = w1
  w2 = w2
  s1 = s1
  s2 = s2
  Tender = {tender}
  Sweeper = {w1}
  Sender = {s1, s2}
  NoSource = NoSource
  Offset = {1}
  Critical = 1
  Horizon = 2
  MaxAmends = 1
  MaxAborts = 1
  MaxOutages = 1
INVARIANT MailedForCause
PROPERTY DeliveredOnceMailWorks
