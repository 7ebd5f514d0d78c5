CONSTANTS
  n1 = n1
  n2 = n2
  n3 = n3
  None = None
  Nodes = {n1, n2, n3}
  Requests <- MCRequests
  MaxRetries = 1
CHECK_DEADLOCK FALSE
SPECIFICATION Spec
INVARIANTS
  TypeOK
  CyclesAreDetected
  NoReleaseIsLost
  WorkflowIsClosed
  WorkflowsDoNotStall
  DependenciesAreRespected
