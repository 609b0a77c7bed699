CONSTANTS
  u = u
  e = e
  g = g
  n1 = n1
  n2 = n2
  admins = admins
  teams = teams
  typo = typo
  empty = empty
  cut = cut
  Name = {u, e, g}
  NoName = noName
  Namespace = {n1, n2}
  All = all
  Content = {admins, teams, typo, empty, cut}
  Absent = absent
  ParseError = parseError
  Parsed <- MCParsed
  Docs = {admins, teams, typo}
  Torn <- MCTorn
  Identities <- MCIdentities
  Caller = {k1}
  Interval = 2
SPECIFICATION Spec
INVARIANTS
  TypeOK
  AppliedWithinInterval
  FailureIsLoud
  AnswersFromOneMapping
