CONSTANTS
  ChannelID = {noCh, c1, c2, c3}
  NoChannel = noCh
  ServiceID = {noSvc, s1}
  NoService = noSvc
  Namespace = {n1}
  NoNS = noNS
  Unknown = unknown
  ChannelTTL = 2
  MaxChannels = 2
SPECIFICATION RegistryFairSpec
INVARIANTS
  RegistryTypeOK
  ChannelsBounded
  GaugeTracksChannels
  RetentionBounded
PROPERTIES
  LiveEvictionIsLRU
  IdleChannelsForgotten
