\* Two mails, two workers, one death, two attempts.  The queue may run empty.
SPECIFICATION FairSpec
CHECK_DEADLOCK FALSE
CONSTANTS
  Users = {u1, u2}
  Workers = {w1, w2}
  Nobody = nobody
  MaxAttempts = 2
  MaxDeaths = 1
  LockSettings <- MCLockSettings
INVARIANTS
  NoMailLost
  SentAgainForAReason
  OneWorkerPerMail
PROPERTIES
  EveryMailEnds
