----------------------- MODULE ServiceRegistryProofs -----------------------
(***************************************************************************)
(* Proofs about ServiceRegistry: the map is well typed, stays within the   *)
(* cap, is what the gauge says, and forgets an idle channel in time, for   *)
(* every set of channels, every cap and every TTL.                         *)
(***************************************************************************)
EXTENDS ServiceRegistry, FiniteSetTheorems, TLAPS

-----------------------------------------------------------------------------
(* What the steps do to the map, free of how they do it.                   *)

(* makeRoomLocked only drops channels.                                     *)
LEMMA RoomDropsOnly ==
  ASSUME NEW kept \in makeRoomLocked
  PROVE  kept \subseteq DOMAIN channels
BY DEF makeRoomLocked, Live

(* makeRoomLocked leaves a place below the cap.                            *)
LEMMA RoomForOne ==
  ASSUME MaxChannels > 0, NEW kept \in makeRoomLocked
  PROVE  Cardinality(kept) < MaxChannels
BY RegistryAssumption DEF makeRoomLocked

(* The record a call starts from is well typed and just used.              *)
LEMMA ChannelLockedType ==
  ASSUME RegistryTypeOK, NEW c \in ChannelID
  PROVE  /\ channelLocked(c) \in ChannelServices
         /\ channelLocked(c).idle = 0
<1>1. NewChannel \in ChannelServices /\ NewChannel.idle = 0
  BY RegistryAssumption DEF NewChannel, ChannelServices
<1>2. CASE c \notin DOMAIN channels
  BY <1>1, <1>2 DEF channelLocked
<1>3. CASE c \in DOMAIN channels
  BY <1>3 DEF channelLocked, RegistryTypeOK, ChannelServices
<1> QED BY <1>2, <1>3

(* Storing a record changes one channel and adds no other.                 *)
LEMMA UpsertEffect ==
  ASSUME RegistryTypeOK, NEW c \in ChannelID, NEW ch, Upsert(c, ch)
  PROVE  /\ channels' = [d \in DOMAIN channels' |-> channels'[d]]
         /\ c \in DOMAIN channels'
         /\ DOMAIN channels' \subseteq DOMAIN channels \cup {c}
         /\ channels'[c] = ch
         /\ \A d \in DOMAIN channels' : d # c => channels'[d] = channels[d]
<1>1. CASE /\ c \in DOMAIN channels
           /\ channels' = [channels EXCEPT ![c] = ch]
  BY <1>1 DEF RegistryTypeOK
<1>2. CASE /\ c \notin DOMAIN channels
           /\ \E kept \in makeRoomLocked :
                channels' = [d \in kept \cup {c} |->
                               IF d = c THEN ch ELSE channels[d]]
  BY <1>2, RoomDropsOnly
<1> QED BY <1>1, <1>2 DEF Upsert

(* The bookkeeping facts that are not about one channel's contents.        *)
RegistryInv ==
  RegistryTypeOK /\ ChannelsBounded /\ GaugeTracksChannels /\ RetentionBounded

LEMMA ChannelsFinite ==
  ASSUME RegistryTypeOK
  PROVE  IsFiniteSet(DOMAIN channels)
BY RegistryAssumption, FS_Subset DEF RegistryTypeOK

(* Storing a well typed, just used record preserves all of them.           *)
LEMMA UpsertPreserves ==
  ASSUME RegistryInv, NEW c \in ChannelID \ {NoChannel},
         NEW ch \in ChannelServices, ch.idle = 0,
         Upsert(c, ch), UNCHANGED sweepIn
  PROVE  RegistryInv'
<1> USE RegistryAssumption
<1>1. RegistryTypeOK BY DEF RegistryInv
<1>2. IsFiniteSet(DOMAIN channels) BY <1>1, ChannelsFinite
<1>3. /\ channels' = [d \in DOMAIN channels' |-> channels'[d]]
      /\ c \in DOMAIN channels'
      /\ DOMAIN channels' \subseteq DOMAIN channels \cup {c}
      /\ channels'[c] = ch
      /\ \A d \in DOMAIN channels' : d # c => channels'[d] = channels[d]
  BY <1>1, UpsertEffect
<1>4. DOMAIN channels' \subseteq ChannelID \ {NoChannel}
  BY <1>1, <1>3 DEF RegistryTypeOK
<1>5. channels' \in [DOMAIN channels' -> ChannelServices]
  <2>1. \A d \in DOMAIN channels' : channels'[d] \in ChannelServices
    BY <1>1, <1>3 DEF RegistryTypeOK
  <2> QED BY <1>3, <2>1
<1>6. IsFiniteSet(DOMAIN channels') /\ Cardinality(DOMAIN channels') \in Nat
  BY <1>4, FS_Subset, FS_CardinalityType
<1>7. GaugeTracksChannels'
  <2>1. CASE /\ c \in DOMAIN channels
             /\ channels' = [channels EXCEPT ![c] = ch]
             /\ UNCHANGED trackedChannels
    <3>1. DOMAIN channels' = DOMAIN channels
      BY <1>1, <2>1 DEF RegistryTypeOK
    <3> QED BY <2>1, <3>1 DEF RegistryInv, GaugeTracksChannels
  <2>2. CASE /\ c \notin DOMAIN channels
             /\ \E kept \in makeRoomLocked :
                  /\ channels' = [d \in kept \cup {c} |->
                                    IF d = c THEN ch ELSE channels[d]]
                  /\ trackedChannels' = Cardinality(kept \cup {c})
    BY <2>2 DEF GaugeTracksChannels
  <2> QED BY <2>1, <2>2 DEF Upsert
<1>8. ChannelsBounded'
  <2>1. CASE /\ c \in DOMAIN channels
             /\ channels' = [channels EXCEPT ![c] = ch]
    <3>1. DOMAIN channels' = DOMAIN channels
      BY <1>1, <2>1 DEF RegistryTypeOK
    <3> QED BY <3>1 DEF RegistryInv, ChannelsBounded
  <2>2. CASE /\ c \notin DOMAIN channels
             /\ \E kept \in makeRoomLocked :
                  channels' = [d \in kept \cup {c} |->
                                 IF d = c THEN ch ELSE channels[d]]
    <3>1. PICK kept \in makeRoomLocked :
                 channels' = [d \in kept \cup {c} |->
                                IF d = c THEN ch ELSE channels[d]]
      BY <2>2
    <3>2. kept \subseteq DOMAIN channels /\ c \notin kept
      BY <2>2, RoomDropsOnly
    <3>3. IsFiniteSet(kept)
      BY <1>2, <3>2, FS_Subset
    <3>4. Cardinality(kept \cup {c}) = Cardinality(kept) + 1
      BY <3>2, <3>3, FS_AddElement
    <3>5. Cardinality(kept) \in Nat
      BY <3>3, FS_CardinalityType
    <3>6. MaxChannels > 0 => Cardinality(kept) < MaxChannels
      BY RoomForOne
    <3>7. DOMAIN channels' = kept \cup {c}
      BY <3>1
    <3> QED BY <3>4, <3>5, <3>6, <3>7 DEF ChannelsBounded
  <2> QED BY <2>1, <2>2 DEF Upsert
<1>9. RetentionBounded'
  <2> SUFFICES ASSUME NEW d \in DOMAIN channels'
               PROVE  channels'[d].idle + sweepIn' <= 2 * ChannelTTL
    BY DEF RetentionBounded
  <2>1. sweepIn \in 0..ChannelTTL /\ sweepIn' = sweepIn
    BY <1>1 DEF RegistryTypeOK
  <2>2. CASE d = c
    BY <1>3, <2>1, <2>2
  <2>3. CASE d # c
    BY <1>3, <2>1, <2>3 DEF RegistryInv, RetentionBounded
  <2> QED BY <2>2, <2>3
<1>10. RegistryTypeOK'
  BY <1>1, <1>4, <1>5, <1>6, <1>7 DEF RegistryTypeOK, GaugeTracksChannels
<1> QED BY <1>7, <1>8, <1>9, <1>10 DEF RegistryInv

-----------------------------------------------------------------------------
(* The operations, one by one.                                             *)

LEMMA RememberPreserves ==
  ASSUME RegistryInv, NEW c \in ChannelID, NEW s \in ServiceID,
         NEW ns \in NS, Remember(c, s, ns)
  PROVE  RegistryInv'
<1>1. CASE c = NoChannel \/ s = NoService
  BY <1>1 DEF Remember, RegistryInv, RegistryTypeOK, ChannelsBounded,
              GaugeTracksChannels, RetentionBounded
<1>2. CASE ~(c = NoChannel \/ s = NoService)
  <2> DEFINE ch == [channelLocked(c) EXCEPT !.namespaces[s] = ns]
  <2>1. channelLocked(c) \in ChannelServices /\ channelLocked(c).idle = 0
    BY ChannelLockedType DEF RegistryInv
  <2>2. ch \in ChannelServices /\ ch.idle = 0
    BY <2>1 DEF ChannelServices
  <2>3. Upsert(c, ch) /\ UNCHANGED sweepIn
    BY <1>2 DEF Remember
  <2> HIDE DEF ch
  <2> QED BY <1>2, <2>2, <2>3, UpsertPreserves
<1> QED BY <1>1, <1>2

LEMMA RememberPeerPreserves ==
  ASSUME RegistryInv, NEW c \in ChannelID, NEW s \in ServiceID,
         RememberPeer(c, s)
  PROVE  RegistryInv'
<1>1. CASE c = NoChannel \/ s = NoService
  BY <1>1 DEF RememberPeer, RegistryInv, RegistryTypeOK, ChannelsBounded,
              GaugeTracksChannels, RetentionBounded
<1>2. CASE ~(c = NoChannel \/ s = NoService)
  <2> DEFINE ch == [channelLocked(c) EXCEPT !.peers = @ \cup {s}]
  <2>1. channelLocked(c) \in ChannelServices /\ channelLocked(c).idle = 0
    BY ChannelLockedType DEF RegistryInv
  <2>2. ch \in ChannelServices /\ ch.idle = 0
    BY <2>1 DEF ChannelServices
  <2>3. Upsert(c, ch) /\ UNCHANGED sweepIn
    BY <1>2 DEF RememberPeer
  <2> HIDE DEF ch
  <2> QED BY <1>2, <2>2, <2>3, UpsertPreserves
<1> QED BY <1>1, <1>2

LEMMA MarkPreserves ==
  ASSUME RegistryInv, NEW c \in ChannelID, MarkEmptyScopeNotified(c)
  PROVE  RegistryInv'
<1>1. CASE c = NoChannel
  BY <1>1 DEF MarkEmptyScopeNotified, RegistryInv, RegistryTypeOK,
              ChannelsBounded, GaugeTracksChannels, RetentionBounded
<1>2. CASE c # NoChannel
  <2> DEFINE ch == [channelLocked(c) EXCEPT !.emptyScopeNotified = TRUE]
  <2>1. channelLocked(c) \in ChannelServices /\ channelLocked(c).idle = 0
    BY ChannelLockedType DEF RegistryInv
  <2>2. ch \in ChannelServices /\ ch.idle = 0
    BY <2>1 DEF ChannelServices
  <2>3. Upsert(c, ch) /\ UNCHANGED sweepIn
    BY <1>2 DEF MarkEmptyScopeNotified
  <2> HIDE DEF ch
  <2> QED BY <1>2, <2>2, <2>3, UpsertPreserves
<1> QED BY <1>1, <1>2

LEMMA LookupPreserves ==
  ASSUME RegistryInv, NEW c \in ChannelID, Lookup(c)
  PROVE  RegistryInv'
<1> USE RegistryAssumption DEF RegistryInv
<1>1. DOMAIN channels' = DOMAIN channels
  BY DEF Lookup, RegistryTypeOK
<1>2. \A d \in DOMAIN channels :
        /\ channels'[d] \in ChannelServices
        /\ channels'[d].idle <= channels[d].idle
  BY DEF Lookup, RegistryTypeOK, ChannelServices
<1>3. channels' \in [DOMAIN channels' -> ChannelServices]
  BY <1>1, <1>2 DEF Lookup, RegistryTypeOK
<1>4. RetentionBounded'
  <2> SUFFICES ASSUME NEW d \in DOMAIN channels
               PROVE  channels'[d].idle + sweepIn' <= 2 * ChannelTTL
    BY <1>1 DEF RetentionBounded
  <2>1. channels'[d].idle \in Int /\ channels[d].idle \in Int
    BY <1>2 DEF RegistryTypeOK, ChannelServices
  <2>2. channels[d].idle + sweepIn <= 2 * ChannelTTL
    BY DEF RetentionBounded
  <2>3. sweepIn' = sweepIn /\ sweepIn \in Int
    BY DEF Lookup, RegistryTypeOK
  <2> QED BY <1>2, <2>1, <2>2, <2>3
<1> QED BY <1>1, <1>3, <1>4 DEF Lookup, RegistryTypeOK, ChannelsBounded,
                                GaugeTracksChannels

LEMMA SweepPreserves ==
  ASSUME RegistryInv, Sweep
  PROVE  RegistryInv'
<1> USE RegistryAssumption DEF RegistryInv
<1>1. /\ Live \subseteq DOMAIN channels
      /\ IsFiniteSet(DOMAIN channels)
  BY ChannelsFinite DEF Live
<1>2. /\ IsFiniteSet(Live)
      /\ Cardinality(Live) \in Nat
      /\ Cardinality(DOMAIN channels) \in Nat
      /\ Cardinality(Live) <= Cardinality(DOMAIN channels)
  BY <1>1, FS_Subset, FS_CardinalityType
<1>3. DOMAIN channels' = Live
  BY DEF Sweep
<1>4. ChannelsBounded' /\ GaugeTracksChannels'
  BY <1>2, <1>3 DEF Sweep, ChannelsBounded, GaugeTracksChannels
<1>5. RetentionBounded'
  <2> SUFFICES ASSUME NEW d \in Live
               PROVE  channels'[d].idle + sweepIn' <= 2 * ChannelTTL
    BY <1>3 DEF RetentionBounded
  <2>1. channels'[d] = channels[d] /\ channels[d].idle \in Nat
    BY <1>1 DEF Sweep, RegistryTypeOK, ChannelServices
  <2>2. channels[d].idle <= ChannelTTL
    BY <2>1 DEF Live, Expired
  <2> QED BY <2>1, <2>2 DEF Sweep
<1>6. RegistryTypeOK'
  BY <1>1, <1>2, <1>3 DEF Sweep, RegistryTypeOK
<1> QED BY <1>4, <1>5, <1>6

LEMMA TickPreserves ==
  ASSUME RegistryInv, Tick
  PROVE  RegistryInv'
<1> USE RegistryAssumption DEF RegistryInv
<1>1. DOMAIN channels' = DOMAIN channels
  BY DEF Tick
<1>2. \A d \in DOMAIN channels :
        /\ channels'[d] \in ChannelServices
        /\ channels[d].idle \in Nat
        /\ channels'[d].idle = channels[d].idle + 1
  <2> SUFFICES ASSUME NEW d \in DOMAIN channels
               PROVE  /\ channels'[d] \in ChannelServices
                      /\ channels[d].idle \in Nat
                      /\ channels'[d].idle = channels[d].idle + 1
    OBVIOUS
  <2>1. channels'[d] = [channels[d] EXCEPT !.idle = channels[d].idle + 1]
    BY DEF Tick
  <2>2. channels[d] \in ChannelServices
    BY DEF RegistryTypeOK
  <2> QED BY <2>1, <2>2 DEF ChannelServices
<1>3. sweepIn \in Nat /\ sweepIn' = sweepIn - 1 /\ sweepIn' \in 0..ChannelTTL
  BY DEF Tick, RegistryTypeOK
<1>4. RetentionBounded'
  BY <1>1, <1>2, <1>3 DEF RetentionBounded
<1>5. RegistryTypeOK'
  BY <1>1, <1>2, <1>3 DEF Tick, RegistryTypeOK
<1> QED BY <1>1, <1>4, <1>5 DEF Tick, ChannelsBounded, GaugeTracksChannels

LEMMA InitEstablishes ==
  ASSUME RegistryInit
  PROVE  RegistryInv
<1>1. DOMAIN channels = {} BY DEF RegistryInit
<1>2. Cardinality(DOMAIN channels) = 0 BY <1>1, FS_EmptySet
<1> QED BY <1>1, <1>2, RegistryAssumption
        DEF RegistryInit, RegistryInv, RegistryTypeOK, ChannelsBounded,
            GaugeTracksChannels, RetentionBounded

LEMMA StutterPreserves ==
  ASSUME RegistryInv, UNCHANGED registryVars
  PROVE  RegistryInv'
BY DEF registryVars, RegistryInv, RegistryTypeOK, ChannelsBounded,
       GaugeTracksChannels, RetentionBounded

(* One step of the registry, whoever takes it.                             *)
LEMMA RegistryStep ==
  ASSUME RegistryInv, [RegistryNext]_registryVars
  PROVE  RegistryInv'
<1>1. CASE Call
  BY <1>1, RememberPreserves, RememberPeerPreserves, MarkPreserves,
     LookupPreserves DEF Call
<1>2. CASE Sweep
  BY <1>2, SweepPreserves
<1>3. CASE Tick
  BY <1>3, TickPreserves
<1>4. CASE UNCHANGED registryVars
  BY <1>4, StutterPreserves
<1> QED BY <1>1, <1>2, <1>3, <1>4 DEF RegistryNext

-----------------------------------------------------------------------------
(***************************************************************************)
(* Under calls in any order from any number of goroutines the registry is  *)
(* well typed, holds at most --max-channels channels, is counted by its    *)
(* gauge and keeps no channel idle for more than two TTLs.                 *)
(***************************************************************************)
THEOREM RegistrySafe == RegistrySpec => []RegistryInv
<1>1. RegistryInit => RegistryInv
  BY InitEstablishes
<1>2. RegistryInv /\ [RegistryNext]_registryVars => RegistryInv'
  BY RegistryStep
<1> QED BY <1>1, <1>2, PTL DEF RegistrySpec

(* The map only ever holds well-formed records of channels that have an    *)
(* ID: no operation is let through with the empty one.                     *)
THEOREM RegistryTyped == RegistrySpec => []RegistryTypeOK
<1>1. RegistryInv => RegistryTypeOK BY DEF RegistryInv
<1> QED BY <1>1, RegistrySafe, PTL

(* --max-channels bounds the map at every instant.                         *)
THEOREM RegistryBounded == RegistrySpec => []ChannelsBounded
<1>1. RegistryInv => ChannelsBounded BY DEF RegistryInv
<1> QED BY <1>1, RegistrySafe, PTL

(* The gauge is right between sweeps too.                                  *)
THEOREM RegistryGauged == RegistrySpec => []GaugeTracksChannels
<1>1. RegistryInv => GaugeTracksChannels BY DEF RegistryInv
<1> QED BY <1>1, RegistrySafe, PTL

(* No channel is kept beyond two TTLs of silence.                          *)
THEOREM RegistryForgets == RegistrySpec => []RetentionBounded
<1>1. RegistryInv => RetentionBounded BY DEF RegistryInv
<1> QED BY <1>1, RegistrySafe, PTL

-----------------------------------------------------------------------------
(* The channels dropped to make room are expired, or were not seen after   *)
(* any channel that stays.                                                 *)
LEMMA RoomIsLRU ==
  ASSUME NEW kept \in makeRoomLocked, NEW d \in Live \ kept, NEW k \in kept
  PROVE  channels[k].idle <= channels[d].idle
BY DEF makeRoomLocked, Live

LEMMA UpsertDropsLRU ==
  ASSUME NEW c, NEW ch, Upsert(c, ch),
         NEW d \in Live \ DOMAIN channels',
         NEW k \in DOMAIN channels \cap DOMAIN channels'
  PROVE  channels[k].idle <= channels[d].idle
<1>1. CASE /\ c \in DOMAIN channels
           /\ channels' = [channels EXCEPT ![c] = ch]
  BY <1>1 DEF Live
<1>2. CASE /\ c \notin DOMAIN channels
           /\ \E kept \in makeRoomLocked :
                channels' = [e \in kept \cup {c} |->
                               IF e = c THEN ch ELSE channels[e]]
  <2>1. PICK kept \in makeRoomLocked :
               channels' = [e \in kept \cup {c} |->
                              IF e = c THEN ch ELSE channels[e]]
    BY <1>2
  <2>2. DOMAIN channels' = kept \cup {c}
    BY <2>1
  <2> QED BY <1>2, <2>2, RoomIsLRU
<1> QED BY <1>1, <1>2 DEF Upsert

(***************************************************************************)
(* Whichever operation makes room, a channel that has not expired is       *)
(* dropped only if nothing that stays was seen less recently: one client's *)
(* burst of new channels costs the longest silent ones first.              *)
(***************************************************************************)
THEOREM RegistryEvictsLRU == RegistrySpec => LiveEvictionIsLRU
<1> DEFINE LRU == \A d \in Live \ DOMAIN channels' :
                    \A k \in DOMAIN channels \cap DOMAIN channels' :
                      channels[k].idle <= channels[d].idle
<1>1. ASSUME RegistryNext
      PROVE  LRU
  <2> SUFFICES ASSUME NEW d \in Live \ DOMAIN channels',
                      NEW k \in DOMAIN channels \cap DOMAIN channels'
               PROVE  channels[k].idle <= channels[d].idle
    OBVIOUS
  <2>1. CASE DOMAIN channels' = DOMAIN channels \/ DOMAIN channels' = Live
    BY <2>1 DEF Live
  <2>2. CASE \E c, ch : Upsert(c, ch)
    BY <2>2, UpsertDropsLRU
  <2>3. CASE Sweep \/ Tick
    BY <2>1, <2>3 DEF Sweep, Tick
  <2>4. ASSUME NEW c \in ChannelID, Lookup(c)
        PROVE  DOMAIN channels' = DOMAIN channels
    BY <2>4 DEF Lookup
  <2>5. ASSUME NEW c \in ChannelID, NEW s \in ServiceID, NEW ns \in NS,
               Remember(c, s, ns)
        PROVE  DOMAIN channels' = DOMAIN channels \/ \E ch : Upsert(c, ch)
    BY <2>5 DEF Remember
  <2>6. ASSUME NEW c \in ChannelID, NEW s \in ServiceID, RememberPeer(c, s)
        PROVE  DOMAIN channels' = DOMAIN channels \/ \E ch : Upsert(c, ch)
    BY <2>6 DEF RememberPeer
  <2>7. ASSUME NEW c \in ChannelID, MarkEmptyScopeNotified(c)
        PROVE  DOMAIN channels' = DOMAIN channels \/ \E ch : Upsert(c, ch)
    BY <2>7 DEF MarkEmptyScopeNotified
  <2> QED BY <1>1, <2>1, <2>2, <2>3, <2>4, <2>5, <2>6, <2>7
          DEF RegistryNext, Call
<1>2. [RegistryNext]_registryVars => [LRU]_registryVars
  BY <1>1
<1> QED BY <1>2, PTL DEF RegistrySpec, LiveEvictionIsLRU
=============================================================================
