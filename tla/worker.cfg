CONSTANTS
  j1 = j1
  w1 = w1
  None = None
  Jobs = {j1}
  Workers = {w1}
  Capacity = 2
  MaxClaims = 2
  MaxDrains = 1
  MaxFaults = 1
SPECIFICATION FairSpec
INVARIANTS
  TypeOK
  NoLeaseIsForgotten
  RunningJobsAreReachable
  ShutdownsAreNotBlocked
  CapacityIsKept
PROPERTIES
  DrainsComplete
  GoneWorkersEndOffline
  BeatingWorkersAreOnline
  LeasesEnd
CHECK_DEADLOCK FALSE
