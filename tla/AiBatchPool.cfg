CONSTANTS
  BatchCount = 2
  Concurrency = 2
  Retries = 1
  Fanout = 2
  MaxAwaits = 3
SPECIFICATION FairSpec
INVARIANTS SlotsAreCounted OneApplyAtATime RunReportsWhatHappened
PROPERTIES NoBatchAfterStop RunEnds
