\* Three requests of any kind about one user or another, one restart.
\* Requests are made once, so everything may come to rest.
SPECIFICATION Spec
CHECK_DEADLOCK FALSE
CONSTANTS
  Requests = {r1, r2, r3}
  Users = {u1, u2}
  First = u1
  NoUser = nobody
  MaxAttempts = 2
  MaxRestarts = 1
SYMMETRY Symmetry
INVARIANTS
  SessionEnds
  ResetOnce
  PasswordKept
