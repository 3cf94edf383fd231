\* Three requests of every kind on an invoice and the two installments of an expense.
SPECIFICATION FairSpec
CONSTANTS
  t1 = t1
  t2 = t2
  t3 = t3
  t4 = t4
  expense = expense
  installment = installment
  revenue = revenue
  invoice = invoice
  Txns = {t1, t2, t3}
  Entities = {expense, installment, invoice}
  KindOf <- MCKindOf
  InitialValue <- MCInitialValue
  Ops <- AllOperations
INVARIANTS
  ReversedIsMarked
  KnownDeadlocks
PROPERTIES
  EveryRequestEnds
CHECK_DEADLOCK FALSE
