\* Two reversals of one payment at once.
SPECIFICATION Spec
CONSTANTS
  t1 = t1
  t2 = t2
  t3 = t3
  t4 = t4
  expense = expense
  installment = installment
  revenue = revenue
  invoice = invoice
  Txns = {t1, t2, t3}
  Entities = {expense}
  KindOf <- MCKindOf
  InitialValue <- MCInitialValue
  Ops <- PayAndReverse
INVARIANTS
  ReversedOnce
CHECK_DEADLOCK FALSE
