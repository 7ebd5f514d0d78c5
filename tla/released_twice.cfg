CONSTANTS
  n1 = n1
  n2 = n2
  n3 = n3
  None = None
  Nodes = {n1, n2, n3}
  Requests <- JoinRequests
  MaxRetries = 0
CHECK_DEADLOCK FALSE
SPECIFICATION Spec
PROPERTIES
  CompletedIsFinal
