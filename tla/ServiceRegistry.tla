--------------------------- MODULE ServiceRegistry ---------------------------
(***************************************************************************)
(* The per-channel memory of internal/registry/registry.go.                *)
(*                                                                         *)
(* A customprotocol channel is one client's stream.  For each one the      *)
(* proxy remembers the namespace of every service announced on it, the     *)
(* foreign services that became visible as peers, and whether its caller   *)
(* was already told that it can see nothing.  Every operation runs under   *)
(* one mutex, so each is one action here.                                  *)
(*                                                                         *)
(* Time is relative.  The code compares lastSeen with the clock; the model *)
(* keeps now - lastSeen, the time a channel has been idle, and Tick ages   *)
(* every channel.  The order of two lastSeen values is the reverse of the  *)
(* order of the idle times, and no absolute clock has to be bounded.       *)
(***************************************************************************)
EXTENDS Integers, FiniteSets

CONSTANTS
  ChannelID,    \* channel IDs, the empty one included
  NoChannel,    \* "", the ID of a message that names no channel
  ServiceID,    \* service IDs, the empty one included
  NoService,    \* ""
  Namespace,    \* the cluster's namespaces
  NoNS,         \* "", the namespace of world, host and reserved services
  Unknown,      \* Lookup's "never announced on this channel"
  ChannelTTL,   \* --channel-ttl, in clock ticks
  MaxChannels   \* --max-channels; 0 disables the cap

NS == Namespace \cup {NoNS}

ASSUME RegistryAssumption ==
  /\ NoChannel \in ChannelID
  /\ NoService \in ServiceID
  /\ Unknown \notin NS
  /\ ChannelTTL \in Nat \ {0}     \* time.NewTicker panics on 0
  /\ MaxChannels \in Nat
  /\ IsFiniteSet(ChannelID)

VARIABLES
  channels,         \* the map: a function on the channels that are tracked
  sweepIn,          \* ticks until RunSweeper's ticker fires
  trackedChannels   \* the gauge hubble_authz_tracked_channels

registryVars == <<channels, sweepIn, trackedChannels>>

ChannelServices ==
  [idle: Nat,                                  \* now - lastSeen
   namespaces: [ServiceID -> NS \cup {Unknown}],
   peers: SUBSET ServiceID,
   emptyScopeNotified: BOOLEAN]

NewChannel ==
  [idle |-> 0,
   namespaces |-> [s \in ServiceID |-> Unknown],
   peers |-> {},
   emptyScopeNotified |-> FALSE]

RegistryInit ==
  /\ channels = [c \in {} |-> NewChannel]
  /\ sweepIn = ChannelTTL
  /\ trackedChannels = 0

-----------------------------------------------------------------------------
(* Mutant: the cutoff is two TTLs back.                                    *)
ExpiredTwice(c) == channels[c].idle > 2 * ChannelTTL

(* lastSeen.Before(now - ttl): a channel idle for exactly the TTL survives. *)
Expired(c) == channels[c].idle > ChannelTTL

Live == {c \in DOMAIN channels : ~Expired(c)}

(* Mutant: room is made only once the cap is exceeded.                     *)
MakeRoomOffByOne ==
  IF MaxChannels = 0 \/ Cardinality(DOMAIN channels) <= MaxChannels
  THEN {DOMAIN channels}
  ELSE {Live}

(* Mutant: any live channel may go.                                        *)
MakeRoomArbitrary ==
  IF MaxChannels = 0 \/ Cardinality(DOMAIN channels) < MaxChannels
  THEN {DOMAIN channels}
  ELSE {kept \in SUBSET Live : Cardinality(kept) < MaxChannels}

(***************************************************************************)
(* makeRoomLocked: the sets of channels that may be left once there is     *)
(* room for one more.  The loop deletes a least recently seen channel      *)
(* until the map is below the cap; equal times leave the choice to Go's    *)
(* map order, so what it keeps is some set of cap - 1 live channels none   *)
(* of which was seen before one it deleted.                                *)
(***************************************************************************)
makeRoomLocked ==
  IF MaxChannels = 0 \/ Cardinality(DOMAIN channels) < MaxChannels
  THEN {DOMAIN channels}
  ELSE IF Cardinality(Live) < MaxChannels
  THEN {Live}
  ELSE {kept \in SUBSET Live :
          /\ Cardinality(kept) = MaxChannels - 1
          /\ \A k \in kept, d \in Live \ kept :
               channels[k].idle <= channels[d].idle}

(* The record channelLocked returns, with lastSeen = now.                  *)
channelLocked(c) ==
  IF c \in DOMAIN channels
  THEN [channels[c] EXCEPT !.idle = 0]
  ELSE NewChannel

(* Channel c's record becomes ch.  A channel that is new finds room first  *)
(* and sets the gauge.                                                     *)
Upsert(c, ch) ==
  \/ /\ c \in DOMAIN channels
     /\ channels' = [channels EXCEPT ![c] = ch]
     /\ UNCHANGED trackedChannels
  \/ /\ c \notin DOMAIN channels
     /\ \E kept \in makeRoomLocked :
          /\ channels' = [d \in kept \cup {c} |->
                            IF d = c THEN ch ELSE channels[d]]
          /\ trackedChannels' = Cardinality(kept \cup {c})

(* Mutant: the empty channel ID is a channel like any other.               *)
RememberAnyChannel(c, s, ns) ==
  /\ Upsert(c, [channelLocked(c) EXCEPT !.namespaces[s] = ns])
  /\ UNCHANGED sweepIn

Remember(c, s, ns) ==
  /\ IF c = NoChannel \/ s = NoService
     THEN UNCHANGED <<channels, trackedChannels>>
     ELSE Upsert(c, [channelLocked(c) EXCEPT !.namespaces[s] = ns])
  /\ UNCHANGED sweepIn

RememberPeer(c, s) ==
  /\ IF c = NoChannel \/ s = NoService
     THEN UNCHANGED <<channels, trackedChannels>>
     ELSE Upsert(c, [channelLocked(c) EXCEPT !.peers = @ \cup {s}])
  /\ UNCHANGED sweepIn

(* Mutant: the flag is not looked at.                                      *)
NeedsNoticeAlways(c) == c # NoChannel

(* What MarkEmptyScopeNotified returns: the channel has still to be told.  *)
NeedsNotice(c) ==
  c # NoChannel /\ ~channelLocked(c).emptyScopeNotified

MarkEmptyScopeNotified(c) ==
  /\ IF c = NoChannel
     THEN UNCHANGED <<channels, trackedChannels>>
     ELSE Upsert(c, [channelLocked(c) EXCEPT !.emptyScopeNotified = TRUE])
  /\ UNCHANGED sweepIn

(* IsPeer only reads: unlike Lookup it leaves lastSeen alone.              *)
IsPeer(c, s) == c \in DOMAIN channels /\ s \in channels[c].peers

(* Lookup's two results in one: the namespace recorded, or Unknown.        *)
LookedUp(c, s) ==
  IF c \in DOMAIN channels THEN channels[c].namespaces[s] ELSE Unknown

(* Lookup's effect: reading a channel counts as using it.                  *)
Lookup(c) ==
  /\ channels' = IF c \in DOMAIN channels
                 THEN [channels EXCEPT ![c].idle = 0]
                 ELSE channels
  /\ UNCHANGED <<sweepIn, trackedChannels>>

(* Mutant: a sweep leaves the gauge alone.                                 *)
SweepWithoutGauge ==
  /\ sweepIn = 0
  /\ channels' = [c \in Live |-> channels[c]]
  /\ sweepIn' = ChannelTTL
  /\ UNCHANGED trackedChannels

(* Mutant: RunSweeper is never started.                                    *)
SweepNever ==
  /\ sweepIn < 0
  /\ channels' = [c \in Live |-> channels[c]]
  /\ trackedChannels' = Cardinality(Live)
  /\ sweepIn' = ChannelTTL

(* RunSweeper's ticker fires every ChannelTTL ticks.                       *)
Sweep ==
  /\ sweepIn = 0
  /\ channels' = [c \in Live |-> channels[c]]
  /\ trackedChannels' = Cardinality(Live)
  /\ sweepIn' = ChannelTTL

(* Time passes.  The sweeper's goroutine runs as soon as its ticker fires, *)
(* so the clock does not move past a due sweep.                            *)
Tick ==
  /\ sweepIn > 0
  /\ sweepIn' = sweepIn - 1
  /\ channels' = [c \in DOMAIN channels |->
                    [channels[c] EXCEPT !.idle = @ + 1]]
  /\ UNCHANGED trackedChannels

-----------------------------------------------------------------------------
(* The registry alone, under calls in any order from any goroutine.        *)
Call ==
  \E c \in ChannelID :
    \/ \E s \in ServiceID, ns \in NS : Remember(c, s, ns)
    \/ \E s \in ServiceID : RememberPeer(c, s)
    \/ MarkEmptyScopeNotified(c)
    \/ Lookup(c)

RegistryNext == Call \/ Sweep \/ Tick

RegistrySpec == RegistryInit /\ [][RegistryNext]_registryVars

(* Tickers and the clock always go on; callers owe nothing.                *)
RegistryFairSpec ==
  RegistrySpec /\ WF_registryVars(Sweep) /\ WF_registryVars(Tick)

-----------------------------------------------------------------------------
RegistryTypeOK ==
  /\ DOMAIN channels \subseteq ChannelID \ {NoChannel}
  /\ channels \in [DOMAIN channels -> ChannelServices]
  /\ sweepIn \in 0..ChannelTTL
  /\ trackedChannels \in Nat

(***************************************************************************)
(* --max-channels bounds the map at every instant, whichever operation     *)
(* creates a channel and whatever mix of expired and live channels it      *)
(* finds (registry.go:105-145).                                            *)
(***************************************************************************)
ChannelsBounded ==
  MaxChannels > 0 => Cardinality(DOMAIN channels) <= MaxChannels

(***************************************************************************)
(* The gauge equals the number of tracked channels between sweeps too,     *)
(* although makeRoomLocked deletes channels without setting it             *)
(* (registry.go:100, 227; TestRegistryGaugeUpdatesWithoutASweep).          *)
(***************************************************************************)
GaugeTracksChannels == trackedChannels = Cardinality(DOMAIN channels)

(***************************************************************************)
(* An abandoned channel is gone within two TTLs: it expires after one, and *)
(* the sweep that finds it expired is at most one more away, wherever the  *)
(* ticker's phase fell (registry.go:217-241).                              *)
(***************************************************************************)
RetentionBounded ==
  \A c \in DOMAIN channels :
    channels[c].idle + sweepIn <= 2 * ChannelTTL

(***************************************************************************)
(* A step that drops a channel which has not expired keeps no expired one, *)
(* and none that was seen less recently than the one dropped               *)
(* (registry.go:107-108; TestRegistryPrefersExpiredOverLive,               *)
(* TestRegistryEvictsLeastRecentlyUsedNotOldest).                          *)
(***************************************************************************)
LiveEvictionIsLRU ==
  [][\A d \in Live \ DOMAIN channels' :
       \A k \in DOMAIN channels \cap DOMAIN channels' :
         channels[k].idle <= channels[d].idle]_registryVars

(***************************************************************************)
(* A channel nobody uses any more is eventually forgotten: from any moment *)
(* it is either used again or dropped (registry.go:230-242).               *)
(***************************************************************************)
IdleChannelsForgotten ==
  \A c \in ChannelID :
    (c \in DOMAIN channels /\ channels[c].idle > 0)
      ~> (c \notin DOMAIN channels \/ channels[c].idle = 0)
=============================================================================
