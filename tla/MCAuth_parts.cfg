SPECIFICATION PartsSpec
CONSTANTS
  Accounts = {1, 2, 3, 4, 5}
  Tenants = {1, 2, 3, 4}
  Requests = {1, 2, 3}
  Subs = {s1, s2}
  Units = {u1}
  UnitsOf <- SameNetwork
  Licensed <- SameNetwork
  Calls = {a, b}
  None = None
  Null = Null
  FounderSub = s1
  Budget = 3
  Users = {s1}
  Tokens = {1, 2}
  Visits = {a, b}
  Ttl = 2
  Ceiling = 3
  Interval = 1
  MaxClock = 3
  MaxChanges = 1
  Askers = {a, b}
  Fresh = 1
  Stale = 3
  Patience = 1
  MaxTime = 6
  Addresses = {s1}
  Names = {1, 2}
  Attempts = {a, b}
  PerAddress = 2
  PerName = 3
  Window = 1
  MaxNow = 3
INVARIANTS TypesOK CanSignIn OldPasswordIsOut NothingStaleIsServed BurstIsBounded
PROPERTIES DecidedOnce LinksStick LastSuperAdmin NetworksAreNotDoubled CallsEnd LivesOnce
\* Tokens are used up: a bound.
CHECK_DEADLOCK FALSE
