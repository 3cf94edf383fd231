\* Four requests of every kind on two revenues.
SPECIFICATION Spec
CONSTANTS
  t1 = t1
  t2 = t2
  t3 = t3
  t4 = t4
  r1 = r1
  r2 = r2
  Txns = {t1, t2, t3, t4}
  Revenues = {r1, r2}
  HasAccount = {r1}
  HasGateway = {r1}
  ClientStatuses = {"pending", "paid"}
  Kinds <- EveryKind
SYMMETRY Symmetry
INVARIANTS
  TypeOK
  HistoryEndsInStatus
  BookedFollowsHistory
  OneChargePerRevenue
  RevenueFollowsCharge
  KnownDeadlocks
CHECK_DEADLOCK FALSE
