CONSTANTS
  k1 = k1
  r1 = r1
  r2 = r2
  s1 = s1
  s2 = s2
  None = None
  Sessions = {s1, s2}
  Keys = {k1}
  Recs = {r1, r2}
  Requests <- MCRequests
  Quota = 2
  Cron <- MCCron
  MaxTime = 2
  MaxRequests = 3
  MaxCrashes = 1
CHECK_DEADLOCK FALSE
SPECIFICATION Spec
INVARIANTS
  TypeOK
  JobsAreCharged
  QuotaOvershootIsBounded
PROPERTIES
  CursorNeverGoesBack
  TicksAreNotLost
  DueJobsRun
