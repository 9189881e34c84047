SPECIFICATION FairSpec
CONSTANTS
  Calls = {f1, b1}
  Fg = {f1}
  MaxToken = 2
  Cost = 2
  Cap = 2
  MaxSleep = 2
  Backoffs = {1}
  Attempts = 2
  Parallel = 1
  Minute = 3
INVARIANT MinutesAreMetered
PROPERTY EveryCallEnds
