\* Two requests of any kind and both jobs, over two months.
SPECIFICATION FairSpec
CHECK_DEADLOCK FALSE
CONSTANTS
  r1 = r1
  r2 = r2
  Requests = {r1, r2}
  Plans <- Cases
  FixedInstallments = 2
  MonthDays = 4
  ClosingDay = 1
  DueDay = 3
  Today = 0
  MaxMonth = 2
  MaxFailures = 1
  Aggregates = {"EXPENSE_RECOGNIZED", "liquid"}
  NoBuild = NoBuild
INVARIANTS
  InvoicesDiffer
  RowOfItsMonth
PROPERTIES
  HistoryStands
  CatchesUp
