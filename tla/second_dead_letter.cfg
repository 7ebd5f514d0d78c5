CONSTANTS
  j1 = j1
  w1 = w1
  c1 = c1
  u1 = u1
  q1 = q1
  None = None
  Jobs = {j1}
  Workers = {w1}
  Schedulers = {c1}
  Requests = {u1}
  Queues = {q1}
  DlqQueues = {q1}
  RetryPolicy <- DefaultPolicies
  InitialMax = 1
  MaxClaims = 2
  Mortal = {w1}
  MaxRequests = 1
SPECIFICATION FairSpec
PROPERTIES
  CleanClaimsAreResolved
