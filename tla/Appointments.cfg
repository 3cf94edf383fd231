\* Two requests, the worker's initializers, and one restart at any point.
\* Requests are made once, so everything may come to rest.
SPECIFICATION FairSpec
CHECK_DEADLOCK FALSE
CONSTANTS
  q1 = q1
  q2 = q2
  Requests = {q1, q2}
  Regular <- MCRegular
  Internal <- MCInternal
  System <- MCSystem
  Recurrences = {"daily", "hourly"}
  Default = "daily"
  MaxCrashes = 1
INVARIANTS
  OneScheduler
  SettingsAgree
PROPERTIES
  InternalComesBack
