SPECIFICATION Spec
CONSTANTS
  Users = {u1}
  PfKeys = {k1}
  Syncs = {s1}
  First = {"productivity", "vouchers", "delivery-stats", "handover-restaurant"}
  Later <- AllLater
  NoKey = NoKey
  NoUser = NoUser
  FaultSets = {{}}
PROPERTY NothingIsLost
