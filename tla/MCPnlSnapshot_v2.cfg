SPECIFICATION Spec
CONSTANTS
  Users = {u1}
  Requests = {r1, r2}
  Methods = {accrual}
  Source = "v2"
  LastMonth = 1
  MaxCurrent = 3
  MaxWindow = 2
  MaxEdits = 1
  NoRow = NoRow
INVARIANTS BuiltAfterRefreshIsFresh FrozenMonthIsOver
SYMMETRY RequestSymmetry
