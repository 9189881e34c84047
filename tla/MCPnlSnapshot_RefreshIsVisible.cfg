SPECIFICATION Spec
CONSTANTS
  Users = {u1}
  Requests = {r1, r2}
  Methods = {accrual}
  Source = "raw"
  LastMonth = 1
  MaxCurrent = 2
  MaxWindow = 1
  MaxEdits = 1
  NoRow = NoRow
INVARIANT RefreshIsVisible
SYMMETRY RequestSymmetry
