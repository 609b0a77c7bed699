CONSTANTS
  n1 = n1
  nsAll = nsAll
  Identity <- MCIdentity
  NoName = ""
  Namespace = {n1}
  NamespaceAll = nsAll
  All = all
  Caller = {k1}
  TTL = 1
  MaxCache = 1
  Role <- MCRole
  Binding <- MCBinding
  Versions <- MCVersions
  FirstVersions <- MCFirstVersions
  EarlyKinds <- MCEarlyKinds
  MaxChanges = 2
  MaxPending = 2
SPECIFICATION Spec
INVARIANTS
  TypeOK
  RevocationOnItsWay
PROPERTIES
  UnconcernedStayCached
  ImplementsAuthorizer
