CONSTANTS
  Request = {r1, r2}
  HeaderSet <- MCHeaderSet
  Admin = {6}
  Grace = 1
SPECIFICATION Spec
INVARIANTS
  TypeOK
  RawOnlyForAdmins
  OutcomesTellTruth
  MetricsOutliveRequests
PROPERTIES
  DrainSparesRequests
  SignalEndsProcess
CHECK_DEADLOCK FALSE
