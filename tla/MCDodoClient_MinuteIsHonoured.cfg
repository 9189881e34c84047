SPECIFICATION Spec
CONSTANTS
  Calls = {f1, f2, f3, f4}
  Fg = {f1, f2, f3, f4}
  MaxToken = 1
  Cost = 2
  Cap = 2
  MaxSleep = 2
  Backoffs = {1}
  Attempts = 1
  Parallel = 1
  Minute = 3
SYMMETRY CallSymmetry
INVARIANT MinuteIsHonoured
