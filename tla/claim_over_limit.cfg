CONSTANTS
  j1 = j1
  j2 = j2
  j3 = j3
  w1 = w1
  w2 = w2
  q1 = q1
  q2 = q2
  p1 = p1
  None = None
  Jobs = {j1, j2, j3}
  Workers = {w1, w2}
  Queues = {q1, q2}
  Projects = {p1}
  QueueOf <- MCQueueOf
  Prio <- MCPrio
  Matches <- MCMatches
  Capacity <- MCCapacity
  ProjectOf <- MCProjectOf
  QueueSettings <- FixedSettings
  ProjectLimits <- FixedProject
  Window = 1
  MaxBoost = 1
  MaxAttempts <- MCMaxAttempts
  DefaultLimit = 2
  MaxEdits = 0
SPECIFICATION Spec
INVARIANTS
  QueueLimitIsStrict
