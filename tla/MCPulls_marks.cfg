SPECIFICATION Spec
CONSTANTS
  Users = {u1, u2}
  PfKeys = {k1, k2}
  Syncs = {s1, s2}
  First = {"vouchers"}
  Later <- OneLater
  NoKey = NoKey
  NoUser = NoUser
  FaultSets = {{"database", "restart"}, {"reassign", "warmup", "restart"}}
INVARIANTS MarksKeepPullsApart MarkHasOwner
PROPERTY RatesAreKept
SYMMETRY Symmetries
