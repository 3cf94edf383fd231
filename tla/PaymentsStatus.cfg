\* Four requests pay and reverse an expense and a revenue.
SPECIFICATION Spec
CONSTANTS
  t1 = t1
  t2 = t2
  t3 = t3
  t4 = t4
  expense = expense
  installment = installment
  revenue = revenue
  invoice = invoice
  Txns = {t1, t2, t3, t4}
  Entities = {expense, revenue}
  KindOf <- MCKindOf
  InitialValue <- MCInitialValue
  Ops <- PayAndReverse
SYMMETRY Symmetry
INVARIANTS
  TypeOK
  StatusFollowsPayments
  CashFollowsPayments
CHECK_DEADLOCK FALSE
