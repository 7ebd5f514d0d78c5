CONSTANTS
  d1 = d1
  d2 = d2
  e1 = e1
  s1 = s1
  s2 = s2
  None = None
  Deliveries = {d1, d2}
  Endpoints = {e1}
  Schedulers = {s1, s2}
  EndpointOf <- MCEndpointOf
  MaxAttempts = 2
  DisableAfter = 2
  Limit = 2
  MaxCrashes = 1
CHECK_DEADLOCK FALSE
SPECIFICATION Spec
INVARIANTS
  TypeOK
  OutcomesAreEarned
  DisabledForFailuresInARow
  UnsharedDeliveriesAreExact
PROPERTIES
  DeliveriesSettle
