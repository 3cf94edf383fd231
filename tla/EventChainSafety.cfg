\* Three requests of two tenants; tenant c2 does not have account 1.
SPECIFICATION Spec
CONSTANTS
  t1 = t1
  t2 = t2
  t3 = t3
  c1 = c1
  c2 = c2
  Initial = Initial
  Txns = {t1, t2, t3}
  Clients = {c1, c2}
  AccountsOf <- TwoTenants
  Requests <- PaymentsAndTransfers
SYMMETRY Symmetry
INVARIANTS
  TypeOK
  ChainIntact
  DoubleEntry
  RequestAtomic
  OneWriter
PROPERTIES
  CommitsBehind
  ImplementsEventLog
CHECK_DEADLOCK FALSE
