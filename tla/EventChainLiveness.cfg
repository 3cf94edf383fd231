\* Three requests of one tenant, which fight for one row lock.
SPECIFICATION FairSpec
CONSTANTS
  t1 = t1
  t2 = t2
  t3 = t3
  c1 = c1
  c2 = c2
  Initial = Initial
  Txns = {t1, t2, t3}
  Clients = {c1}
  AccountsOf <- OneTenant
  Requests <- PaymentsAndTransfers
PROPERTIES
  EveryRequestEnds
CHECK_DEADLOCK FALSE
