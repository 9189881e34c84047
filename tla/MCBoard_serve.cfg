SPECIFICATION FairSpec
CONSTANTS
  Requests = {r1, r2, r3}
  PfKeys = {k1}
  Filters = {f1, f2, f3}
  Conns = {c1, c2}
  Cap = 2
  MaxHour = 1
  None = None
INVARIANTS EveryConnectionIsInUse LocksAreSound
PROPERTIES OldestGoFirst EveryCallIsAnswered
