SPECIFICATION Spec
CONSTANTS
  Requests = {r1, r2, r3, r4}
  PfKeys = {k1}
  Filters = {f1, f2}
  Conns = {c1, c2}
  Cap = 1
  MaxHour = 1
  None = None
SYMMETRY BoardSymmetry
INVARIANT OneBuildPerKey
