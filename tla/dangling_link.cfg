CONSTANTS
  c1 = c1
  c2 = c2
  s1 = s1
  s2 = s2
  w = w
  n1 = n1
  n2 = n2
  ChannelID = {noCh, c1, c2}
  NoChannel = noCh
  ServiceID = {noSvc, s1, s2, w}
  NoService = noSvc
  Namespace = {n1, n2}
  NoNS = noNS
  Unknown = unknown
  ChannelTTL = 1
  MaxChannels = 0
  Request = {r1}
  All = all
  Scopes <- ShrinkingScopes
  Messages <- SplitMessages
  RequireBoth = FALSE
  NotifyEmptyScope = TRUE
SPECIFICATION ViewSpec
INVARIANT NoDanglingLink
