SPECIFICATION FairPromptSpec
CONSTANTS
  fetch = fetch
  normalize = normalize
  w1 = w1
  w2 = w2
  Worker = {w1, w2}
  NoWorker = NoWorker
  NoJob = NoJob
  Job <- MCJob
  Root = {fetch}
  Follow <- MCFollow
  Serves <- MCServes
  FetchJob = {fetch}
  MaxAttempts = 2
  Backoff <- MCBackoff
  StaleAfter = 1
  MaxBoots = 3
  Overdue = 1
PROPERTIES KeepsContract EventuallySettled
