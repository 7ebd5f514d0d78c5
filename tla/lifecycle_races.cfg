CONSTANTS
  j1 = j1
  w1 = w1
  w2 = w2
  c1 = c1
  u1 = u1
  q1 = q1
  None = None
  Jobs = {j1}
  Workers = {w1, w2}
  Schedulers = {c1}
  Requests = {u1}
  Queues = {q1}
  DlqQueues = {q1}
  RetryPolicy <- DefaultPolicies
  InitialMax = 2
  MaxClaims = 2
  Mortal = {}
  MaxRequests = 1
SYMMETRY Symmetry
SPECIFICATION Spec
INVARIANTS
  TypeOK
  LeaseNamesCurrentAttempt
  LeasedIffActive
  HistoryAgrees
  AttemptsWithinBudget
  SlotsAreBalanced
  AttemptsCanBeEnded
PROPERTIES
  FencedLeases
