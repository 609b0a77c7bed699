CONSTANTS
  Identity = {u1}
  Namespace = {n1, n2}
  NamespaceAll = nsAll
  All = all
  Caller = {k1, k2}
  TTL = 2
  MaxCache = 1
SPECIFICATION Spec
SYMMETRY NamespaceSymmetry
INVARIANTS
  TypeOK
  EntriesFresh
  FlightsFresh
  NoSweepWhileCached
PROPERTY AnswersFresh
