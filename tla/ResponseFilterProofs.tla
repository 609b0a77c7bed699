------------------------ MODULE ResponseFilterProofs ------------------------
(***************************************************************************)
(* Proofs about ResponseFilter: whatever is remembered and whatever is     *)
(* served is justified by what was said on the channel, for any number of  *)
(* requests, channels, services and messages, both policies and any        *)
(* interleaving with sweeps and evictions.                                 *)
(***************************************************************************)
EXTENDS ResponseFilter, ServiceRegistryProofs, SequenceTheorems

-----------------------------------------------------------------------------
(* The inductive invariant, in parts.  A request is judged by its record   *)
(* q: what it is, and what the history says of the facts it carries from   *)
(* one step to the next.                                                   *)

InProgress == {"learn", "peers", "peers-dst", "peers-mark",
               "decide", "decide-dst"}

RequestTyped(q) ==
  /\ q \in {Idle} \cup Forwarded \cup Handling
  /\ q.pc \in InProgress => q.at \in 1..Len(q.body) /\ q.scope # All
  /\ q.pc \in {"peers-dst", "decide-dst"} =>
       q.body[q.at].kind = "service_link_state"

(* A response in progress has put its events and its scope on record; the  *)
(* namespace it looked up for a link's source was announced; the service   *)
(* it is about to record is a peer.                                        *)
RequestGrounded(q) ==
  /\ q.pc \in InProgress =>
       /\ <<q.ch, q.scope>> \in granted
       /\ \A i \in 1..Len(q.body) : <<q.ch, q.body[i]>> \in seen
  /\ q.pc \in {"peers-dst", "decide-dst"} /\ q.src # Unknown =>
       Announced(q.ch, q.body[q.at].src, q.src)
  /\ q.pc = "peers-mark" => PeerOnce(q.ch, q.peer)

RequestJustified(q) ==
  q.pc \notin {"idle", "forwarded"} /\ q.scope # All =>
    \A ev \in q.kept : Justified(q.ch, q.scope, ev)

RequestOK(q) == RequestTyped(q) /\ RequestGrounded(q) /\ RequestJustified(q)

RequestsInv ==
  /\ req = [r \in Request |-> req[r]]
  /\ \A r \in Request : RequestOK(req[r])

HistoryTyped ==
  /\ seen \subseteq ChannelID \X Event
  /\ granted \subseteq ChannelID \X SUBSET NS

ChannelJustified(c, ch) ==
  \A s \in ServiceID :
    /\ ch.namespaces[s] # Unknown => Announced(c, s, ch.namespaces[s])
    /\ s \in ch.peers => PeerOnce(c, s)

FilterInv == RegistryInv /\ RegistryJustified /\ HistoryTyped /\ RequestsInv

LEMMA FilterInvMeaning ==
  FilterInv => FilterTypeOK /\ RegistryJustified /\ KeptJustified
<1> SUFFICES ASSUME FilterInv
             PROVE  FilterTypeOK /\ RegistryJustified /\ KeptJustified
  OBVIOUS
<1>1. \A r \in Request : RequestTyped(req[r]) /\ RequestJustified(req[r])
  BY DEF FilterInv, RequestsInv, RequestOK
<1>2. req \in [Request -> {Idle} \cup Forwarded \cup Handling]
  BY <1>1 DEF FilterInv, RequestsInv, RequestTyped
<1>3. ASSUME NEW r \in Request,
             req[r].pc \notin {"idle", "forwarded", "served"}
      PROVE  req[r].pc \in InProgress
  BY <1>1, <1>3 DEF RequestTyped, Idle, Forwarded, Handling, InProgress
<1>4. FilterTypeOK
  BY <1>1, <1>2, <1>3
     DEF FilterInv, RegistryInv, HistoryTyped, FilterTypeOK, RequestTyped,
         Current
<1>5. KeptJustified
  BY <1>1 DEF KeptJustified, RequestJustified
<1> QED BY <1>4, <1>5 DEF FilterInv

-----------------------------------------------------------------------------
(* Events.                                                                 *)

LEMMA ServiceStateShape ==
  ASSUME NEW ev \in Event, ev.kind = "service_state"
  PROVE  /\ ev.id \in ServiceID /\ ev.ns \in NS
         /\ ev = [kind |-> "service_state", id |-> ev.id, ns |-> ev.ns]
BY DEF Event, ServiceState, ServiceLinkState, Flow, Flows, NamespaceState,
       Namespaces, Notification, NoPermission, UnknownEvent

LEMMA ServiceLinkShape ==
  ASSUME NEW ev \in Event, ev.kind = "service_link_state"
  PROVE  /\ ev.src \in ServiceID /\ ev.dst \in ServiceID
         /\ ev = [kind |-> "service_link_state", src |-> ev.src, dst |-> ev.dst]
BY DEF Event, ServiceState, ServiceLinkState, Flow, Flows, NamespaceState,
       Namespaces, Notification, NoPermission, UnknownEvent

(* The visibility rule of the code meets the one the property states.      *)
LEMMA VisiblePairJustified ==
  ASSUME NEW a, NEW b, NEW scope, namespacePairVisible(a, b, scope)
  PROVE  PairJustified(a, b, scope)
BY FilterAssumption DEF namespacePairVisible, PairJustified

(* eventVisible vouches for what it keeps of the other kinds.              *)
LEMMA PureVisibleJustified ==
  ASSUME NEW ev \in Event, NEW c, NEW scope, NEW e \in PureVisible(ev, scope)
  PROVE  e \in Event /\ Justified(c, scope, e)
<1>1. CASE ev.kind = "flow"
  <2>1. e = ev /\ namespacePairVisible(ev.src, ev.dst, scope)
    BY <1>1 DEF PureVisible
  <2> QED BY <1>1, <2>1, VisiblePairJustified DEF Justified
<1>2. CASE ev.kind = "flows"
  <2> DEFINE keep == {f \in ev.flows : namespacePairVisible(f[1], f[2], scope)}
  <2>1. keep # {} /\ e = [ev EXCEPT !.flows = keep]
    BY <1>2 DEF PureVisible
  <2>2. ev \in Flows
    BY <1>2 DEF Event, ServiceState, ServiceLinkState, Flow, Flows,
       NamespaceState, Namespaces, Notification, NoPermission, UnknownEvent
  <2>3. e.kind = "flows" /\ e.flows = keep /\ e \in Flows
    BY <2>1, <2>2 DEF Flows
  <2>4. \A f \in keep : PairJustified(f[1], f[2], scope)
    BY VisiblePairJustified
  <2> HIDE DEF keep
  <2>5. Justified(c, scope, e)
    BY <2>1, <2>3, <2>4 DEF Justified
  <2> QED BY <2>3, <2>5 DEF Event
<1>3. CASE ev.kind = "namespace_state"
  BY <1>3 DEF PureVisible, Justified
<1>4. CASE ev.kind = "notification"
  BY <1>4 DEF PureVisible, Justified
<1>5. CASE ev.kind \notin {"flow", "flows", "namespace_state", "notification"}
  BY <1>5 DEF PureVisible
<1> QED BY <1>1, <1>2, <1>3, <1>4, <1>5

-----------------------------------------------------------------------------
(* The history only grows, and what it justifies stays justified.          *)

HistoryGrows == seen \subseteq seen' /\ granted \subseteq granted'

LEMMA PeerStays ==
  ASSUME HistoryGrows, NEW c, NEW s, PeerOnce(c, s)
  PROVE  PeerOnce(c, s)'
BY DEF HistoryGrows, PeerOnce, PeerUnder, Linked, Announced

LEMMA JustifiedStays ==
  ASSUME HistoryGrows, NEW c, NEW scope, NEW ev, Justified(c, scope, ev)
  PROVE  Justified(c, scope, ev)'
<1>1. CASE ev.kind = "service_state"
  BY <1>1, PeerStays DEF Justified
<1>2. CASE ev.kind = "service_link_state"
  BY <1>2 DEF Justified, HistoryGrows, Announced, PairJustified
<1>3. CASE ev.kind \notin {"service_state", "service_link_state"}
  BY <1>3 DEF Justified, PairJustified
<1> QED BY <1>1, <1>2, <1>3

LEMMA RequestStays ==
  ASSUME HistoryGrows, NEW q, RequestOK(q)
  PROVE  RequestOK(q)'
<1>1. RequestTyped(q)'
  BY DEF RequestOK, RequestTyped
<1>2. RequestGrounded(q)'
  BY PeerStays DEF RequestOK, RequestGrounded, HistoryGrows, Announced
<1>3. RequestJustified(q)'
  BY JustifiedStays DEF RequestOK, RequestJustified
<1> QED BY <1>1, <1>2, <1>3 DEF RequestOK
-----------------------------------------------------------------------------
(* How a step of one request leaves all of them.                           *)

LEMMA OthersStay ==
  ASSUME RequestsInv, HistoryGrows, NEW r \in Request, NEW q, Goto(r, q),
         RequestOK(q)'
  PROVE  RequestsInv'
<1>1. req' = [req EXCEPT ![r] = q]
  BY DEF Goto
<1>2. \A p \in Request : req'[p] = IF p = r THEN q ELSE req[p]
  BY <1>1 DEF RequestsInv
<1>3. req' = [p \in Request |-> req'[p]]
  BY <1>1 DEF RequestsInv
<1>4. ASSUME NEW p \in Request
      PROVE  RequestOK(req[p])'
  <2>1. RequestOK(req[p])
    BY DEF RequestsInv
  <2>2. PICK old : old = req[p]
    OBVIOUS
  <2>3. RequestOK(old)'
    BY <2>1, <2>2, RequestStays
  <2>4. CASE p = r
    BY <1>2, <2>4
  <2>5. CASE p # r
    BY <1>2, <2>2, <2>3, <2>5
  <2> QED BY <2>4, <2>5
<1> QED BY <1>3, <1>4 DEF RequestsInv
(* The same for a step that adds nothing to the history.                   *)
LEMMA GotoKeeps ==
  ASSUME RequestsInv, UNCHANGED history, NEW r \in Request, NEW q,
         Goto(r, q), RequestOK(q)
  PROVE  RequestsInv'
<1>1. HistoryGrows
  BY DEF history, HistoryGrows
<1>2. RequestOK(q)'
  BY <1>1, RequestStays
<1> QED BY <1>1, <1>2, OthersStay

(* A pass that goes on to its next event, or to the next pass, needs to    *)
(* account only for what it has kept.                                      *)
LEMMA AdvanceKeeps ==
  ASSUME RequestsInv, UNCHANGED history, NEW r \in Request,
         req[r].pc \in InProgress,
         NEW pass \in {"learn", "peers", "decide"},
         NEW next \in {"peers", "decide", "served"},
         NEW kept \in SUBSET Event,
         \A ev \in kept : Justified(req[r].ch, req[r].scope, ev),
         Advance(r, pass, next, kept)
  PROVE  RequestsInv'
<1> DEFINE last == req[r].at = Len(req[r].body)
           q == [req[r] EXCEPT !.pc = IF last THEN next ELSE pass,
                               !.at = IF last THEN 1 ELSE @ + 1,
                               !.kept = kept]
<1>1. RequestOK(req[r])
  BY DEF RequestsInv
<1>2. req[r] \in Handling
  BY <1>1 DEF RequestOK, RequestTyped, Idle, Forwarded, InProgress
<1>3. /\ req[r].at \in 1..Len(req[r].body)
      /\ Len(req[r].body) \in Nat
      /\ req[r].scope # All
  BY <1>1, <1>2, LenProperties DEF RequestOK, RequestTyped, Handling
<1>4. /\ q.pc \in {"learn", "peers", "decide", "served"}
      /\ q.ch = req[r].ch /\ q.scope = req[r].scope /\ q.body = req[r].body
      /\ q.kept = kept
      /\ q.at \in 1..Len(req[r].body)
      /\ q \in Handling
  <2> DEFINE pc == IF last THEN next ELSE pass
             at == IF last THEN 1 ELSE req[r].at + 1
  <2>1. pc \in {"learn", "peers", "decide", "served"}
    OBVIOUS
  <2>2. at \in 1..Len(req[r].body)
    BY <1>3
  <2>3. at \in Nat
    BY <1>3, <2>2
  <2> HIDE DEF pc, at
  <2>4. q = [req[r] EXCEPT !.pc = pc, !.at = at, !.kept = kept]
    BY DEF pc, at
  <2> HIDE DEF q
  <2> QED BY <1>2, <2>1, <2>2, <2>3, <2>4 DEF Handling
<1> HIDE DEF q
<1>5. RequestTyped(q)
  BY <1>3, <1>4 DEF RequestTyped
<1>6. RequestGrounded(q)
  BY <1>1, <1>4 DEF RequestOK, RequestGrounded
<1>7. RequestJustified(q)
  BY <1>4 DEF RequestJustified
<1>8. Goto(r, q)
  BY DEF Advance, q
<1> QED BY <1>5, <1>6, <1>7, <1>8, GotoKeeps DEF RequestOK

-----------------------------------------------------------------------------
(* How the registry's operations leave what it holds justified.            *)

LEMMA LockedJustified ==
  ASSUME RegistryJustified, NEW c
  PROVE  ChannelJustified(c, channelLocked(c))
<1>1. CASE c \in DOMAIN channels
  BY <1>1 DEF RegistryJustified, ChannelJustified, channelLocked
<1>2. CASE c \notin DOMAIN channels
  BY <1>2 DEF ChannelJustified, channelLocked, NewChannel
<1> QED BY <1>1, <1>2

LEMMA UpsertJustified ==
  ASSUME RegistryTypeOK, RegistryJustified, UNCHANGED history,
         NEW c \in ChannelID, NEW ch, ChannelJustified(c, ch), Upsert(c, ch)
  PROVE  RegistryJustified'
<1>1. /\ DOMAIN channels' \subseteq DOMAIN channels \cup {c}
      /\ channels'[c] = ch
      /\ \A d \in DOMAIN channels' : d # c => channels'[d] = channels[d]
  BY UpsertEffect
<1>2. \A d, s, n : /\ Announced(d, s, n) => Announced(d, s, n)'
                   /\ PeerOnce(d, s) => PeerOnce(d, s)'
  BY PeerStays DEF history, HistoryGrows, Announced
<1>3. ASSUME NEW d \in DOMAIN channels', NEW s \in ServiceID
      PROVE  /\ channels'[d].namespaces[s] # Unknown =>
                  Announced(d, s, channels[d].namespaces[s])'
             /\ s \in channels'[d].peers => PeerOnce(d, s)'
  <2>1. CASE d = c
    BY <1>1, <1>2, <2>1 DEF ChannelJustified, Announced
  <2>2. CASE d # c
    BY <1>1, <1>2, <2>2 DEF RegistryJustified, Announced
  <2> QED BY <2>1, <2>2
<1> QED BY <1>3 DEF RegistryJustified

(* A step that stores no new fact leaves what the registry holds           *)
(* justified, also when it forgets channels or the history grows.          *)
LEMMA NoNewFactJustified ==
  ASSUME RegistryJustified, HistoryGrows,
         DOMAIN channels' \subseteq DOMAIN channels,
         \A d \in DOMAIN channels' :
           /\ channels'[d].namespaces = channels[d].namespaces
           /\ channels'[d].peers = channels[d].peers
  PROVE  RegistryJustified'
<1>1. \A d, s, n : /\ Announced(d, s, n) => Announced(d, s, n)'
                   /\ PeerOnce(d, s) => PeerOnce(d, s)'
  BY PeerStays DEF HistoryGrows, Announced
<1>2. ASSUME NEW d \in DOMAIN channels', NEW s \in ServiceID
      PROVE  /\ channels'[d].namespaces[s] # Unknown =>
                  Announced(d, s, channels[d].namespaces[s])'
             /\ s \in channels'[d].peers => PeerOnce(d, s)'
  BY <1>1 DEF RegistryJustified, Announced
<1> QED BY <1>2 DEF RegistryJustified

LEMMA HistoryStays ==
  ASSUME UNCHANGED history
  PROVE  HistoryGrows
BY DEF history, HistoryGrows

LEMMA UntouchedJustified ==
  ASSUME RegistryJustified, HistoryGrows, UNCHANGED channels
  PROVE  RegistryJustified'
BY NoNewFactJustified

LEMMA LookupJustified ==
  ASSUME RegistryTypeOK, RegistryJustified, UNCHANGED history,
         NEW c \in ChannelID, Lookup(c)
  PROVE  RegistryJustified'
<1>1. DOMAIN channels' = DOMAIN channels
  BY DEF Lookup, RegistryTypeOK
<1>2. \A d \in DOMAIN channels :
        channels'[d] = IF d = c THEN [channels[d] EXCEPT !.idle = 0]
                                ELSE channels[d]
  BY DEF Lookup, RegistryTypeOK
<1>3. \A d \in DOMAIN channels : channels[d] \in ChannelServices
  BY DEF RegistryTypeOK
<1>4. \A d \in DOMAIN channels :
        /\ channels'[d].namespaces = channels[d].namespaces
        /\ channels'[d].peers = channels[d].peers
  BY <1>2, <1>3 DEF ChannelServices
<1> QED BY <1>1, <1>4, HistoryStays, NoNewFactJustified

LEMMA SweepJustified ==
  ASSUME RegistryJustified, UNCHANGED history, Sweep
  PROVE  RegistryJustified'
<1>1. /\ DOMAIN channels' = Live
      /\ \A d \in Live : channels'[d] = channels[d]
  BY DEF Sweep
<1> QED BY <1>1, HistoryStays, NoNewFactJustified DEF Live

LEMMA TickJustified ==
  ASSUME RegistryTypeOK, RegistryJustified, UNCHANGED history, Tick
  PROVE  RegistryJustified'
<1>1. DOMAIN channels' = DOMAIN channels
  BY DEF Tick
<1>2. \A d \in DOMAIN channels :
        channels'[d] = [channels[d] EXCEPT !.idle = @ + 1]
  BY DEF Tick
<1>3. \A d \in DOMAIN channels : channels[d] \in ChannelServices
  BY DEF RegistryTypeOK
<1>4. \A d \in DOMAIN channels :
        /\ channels'[d].namespaces = channels[d].namespaces
        /\ channels'[d].peers = channels[d].peers
  BY <1>2, <1>3 DEF ChannelServices
<1> QED BY <1>1, <1>4, HistoryStays, NoNewFactJustified

(* Remember stores what was just announced.                                *)
LEMMA RememberJustified ==
  ASSUME RegistryTypeOK, RegistryJustified, UNCHANGED history,
         NEW c \in ChannelID, NEW s \in ServiceID, NEW ns \in NS,
         Announced(c, s, ns), Remember(c, s, ns)
  PROVE  RegistryJustified'
<1>1. CASE c = NoChannel \/ s = NoService
  BY <1>1, HistoryStays, UntouchedJustified DEF Remember
<1>2. CASE ~(c = NoChannel \/ s = NoService)
  <2> DEFINE ch == [channelLocked(c) EXCEPT !.namespaces[s] = ns]
  <2>1. Upsert(c, ch)
    BY <1>2 DEF Remember
  <2>2. channelLocked(c) \in ChannelServices
    BY ChannelLockedType
  <2>3. /\ ch.peers = channelLocked(c).peers
        /\ \A t \in ServiceID :
             ch.namespaces[t] = IF t = s THEN ns
                                ELSE channelLocked(c).namespaces[t]
    BY <2>2 DEF ChannelServices
  <2> HIDE DEF ch
  <2>4. ChannelJustified(c, ch)
    BY <2>3, LockedJustified DEF ChannelJustified
  <2> QED BY <2>1, <2>4, UpsertJustified
<1> QED BY <1>1, <1>2

(* RememberPeer stores a service that is a peer.                           *)
LEMMA RememberPeerJustified ==
  ASSUME RegistryTypeOK, RegistryJustified, UNCHANGED history,
         NEW c \in ChannelID, NEW s \in ServiceID,
         PeerOnce(c, s), RememberPeer(c, s)
  PROVE  RegistryJustified'
<1>1. CASE c = NoChannel \/ s = NoService
  BY <1>1, HistoryStays, UntouchedJustified DEF RememberPeer
<1>2. CASE ~(c = NoChannel \/ s = NoService)
  <2> DEFINE ch == [channelLocked(c) EXCEPT !.peers = @ \cup {s}]
  <2>1. Upsert(c, ch)
    BY <1>2 DEF RememberPeer
  <2>2. channelLocked(c) \in ChannelServices
    BY ChannelLockedType
  <2>3. /\ ch.peers = channelLocked(c).peers \cup {s}
        /\ ch.namespaces = channelLocked(c).namespaces
    BY <2>2 DEF ChannelServices
  <2> HIDE DEF ch
  <2>4. ChannelJustified(c, ch)
    BY <2>3, LockedJustified DEF ChannelJustified
  <2> QED BY <2>1, <2>4, UpsertJustified
<1> QED BY <1>1, <1>2

LEMMA MarkJustified ==
  ASSUME RegistryTypeOK, RegistryJustified, UNCHANGED history,
         NEW c \in ChannelID, MarkEmptyScopeNotified(c)
  PROVE  RegistryJustified'
<1>1. CASE c = NoChannel
  BY <1>1, HistoryStays, UntouchedJustified DEF MarkEmptyScopeNotified
<1>2. CASE c # NoChannel
  <2> DEFINE ch == [channelLocked(c) EXCEPT !.emptyScopeNotified = TRUE]
  <2>1. Upsert(c, ch)
    BY <1>2 DEF MarkEmptyScopeNotified
  <2>2. channelLocked(c) \in ChannelServices
    BY ChannelLockedType
  <2>3. /\ ch.peers = channelLocked(c).peers
        /\ ch.namespaces = channelLocked(c).namespaces
    BY <2>2 DEF ChannelServices
  <2> HIDE DEF ch
  <2>4. ChannelJustified(c, ch)
    BY <2>3, LockedJustified DEF ChannelJustified
  <2> QED BY <2>1, <2>4, UpsertJustified
<1> QED BY <1>1, <1>2

-----------------------------------------------------------------------------
(* What a request reads from the registry is justified.                    *)

LEMMA LookedUpJustified ==
  ASSUME RegistryTypeOK, RegistryJustified, NEW c, NEW s \in ServiceID
  PROVE  /\ LookedUp(c, s) \in NS \cup {Unknown}
         /\ LookedUp(c, s) # Unknown => Announced(c, s, LookedUp(c, s))
<1>1. CASE c \in DOMAIN channels
  <2>1. channels[c] \in ChannelServices
    BY <1>1 DEF RegistryTypeOK
  <2>2. LookedUp(c, s) = channels[c].namespaces[s]
    BY <1>1 DEF LookedUp
  <2> QED BY <1>1, <2>1, <2>2 DEF RegistryJustified, ChannelServices
<1>2. CASE c \notin DOMAIN channels
  BY <1>2 DEF LookedUp
<1> QED BY <1>1, <1>2

LEMMA IsPeerJustified ==
  ASSUME RegistryJustified, NEW c, NEW s \in ServiceID, IsPeer(c, s)
  PROVE  PeerOnce(c, s)
BY DEF RegistryJustified, IsPeer

(* The far end of a link into the scope is a peer.                         *)
LEMMA NewPeersJustified ==
  ASSUME NEW c, NEW link \in Event, link.kind = "service_link_state",
         <<c, link>> \in seen,
         NEW scope, <<c, scope>> \in granted,
         NEW src \in NS \cup {Unknown}, NEW dst \in NS \cup {Unknown},
         src # Unknown => Announced(c, link.src, src),
         dst # Unknown => Announced(c, link.dst, dst),
         NEW s \in NewPeers(link, src, dst, scope)
  PROVE  s \in ServiceID /\ PeerOnce(c, s)
<1>1. Linked(c, link.src, link.dst)
  BY ServiceLinkShape DEF Linked
<1>2. link.src \in ServiceID /\ link.dst \in ServiceID
  BY ServiceLinkShape
<1>3. /\ src \in NS /\ Announced(c, link.src, src)
      /\ dst \in NS /\ Announced(c, link.dst, dst)
  BY DEF NewPeers
<1>4. CASE s = link.dst /\ src \in scope
  <2>1. PeerUnder(c, s, scope)
    BY <1>1, <1>2, <1>3, <1>4 DEF PeerUnder
  <2> QED BY <1>2, <1>4, <2>1 DEF PeerOnce
<1>5. CASE s = link.src /\ dst \in scope
  <2>1. PeerUnder(c, s, scope)
    BY <1>1, <1>2, <1>3, <1>5 DEF PeerUnder
  <2> QED BY <1>2, <1>5, <2>1 DEF PeerOnce
<1> QED BY <1>4, <1>5 DEF NewPeers

-----------------------------------------------------------------------------
(* Each step of a request is a step of the registry, or leaves it alone,   *)
(* and keeps the rest of the invariant.                                    *)

Keeps ==
  /\ [RegistryNext]_registryVars
  /\ RegistryJustified'
  /\ HistoryTyped'
  /\ RequestsInv'

LEMMA QuietKeeps ==
  ASSUME FilterInv, UNCHANGED <<registryVars, history>>, RequestsInv'
  PROVE  Keeps
<1>1. RegistryJustified'
  BY HistoryStays, UntouchedJustified DEF FilterInv, registryVars
<1> QED BY <1>1 DEF Keeps, FilterInv, history, HistoryTyped

LEMMA LookupKeeps ==
  ASSUME FilterInv, UNCHANGED history, RequestsInv', NEW c \in ChannelID,
         Lookup(c)
  PROVE  Keeps
<1>1. RegistryJustified'
  BY LookupJustified DEF FilterInv, RegistryInv
<1>2. RegistryNext
  BY DEF RegistryNext, Call
<1> QED BY <1>1, <1>2 DEF Keeps, FilterInv, history, HistoryTyped

(* What a response in progress can rely on.                                *)
LEMMA InProgressFacts ==
  ASSUME FilterInv, NEW r \in Request, req[r].pc \in InProgress
  PROVE  /\ RequestOK(req[r])
         /\ req[r] \in Handling
         /\ req[r].ch \in ChannelID
         /\ req[r].at \in 1..Len(req[r].body)
         /\ req[r].scope # All
         /\ req[r].kept \in SUBSET Event
         /\ \A ev \in req[r].kept : Justified(req[r].ch, req[r].scope, ev)
         /\ Current(r) \in Event
         /\ <<req[r].ch, Current(r)>> \in seen
         /\ <<req[r].ch, req[r].scope>> \in granted
<1>1. RequestOK(req[r])
  BY DEF FilterInv, RequestsInv
<1>2. req[r] \in Handling
  BY <1>1 DEF RequestOK, RequestTyped, Idle, Forwarded, InProgress
<1>3. req[r].at \in 1..Len(req[r].body) /\ req[r].scope # All
  BY <1>1 DEF RequestOK, RequestTyped
<1>4. req[r].body \in Seq(Event)
  BY <1>2 DEF Handling
<1>5. Current(r) \in Event
  BY <1>3, <1>4, ElementOfSeq DEF Current
<1>6. /\ <<req[r].ch, req[r].scope>> \in granted
      /\ <<req[r].ch, Current(r)>> \in seen
  BY <1>1, <1>3 DEF RequestOK, RequestGrounded, Current
<1>7. \A ev \in req[r].kept : Justified(req[r].ch, req[r].scope, ev)
  BY <1>1, <1>3 DEF RequestOK, RequestJustified, InProgress
<1> QED BY <1>1, <1>2, <1>3, <1>5, <1>6, <1>7 DEF Handling

LEMMA ServeHTTPKeeps ==
  ASSUME FilterInv, NEW r \in Request, ServeHTTP(r)
  PROVE  Keeps
<1>1. PICK scope \in Scopes : Goto(r, [pc |-> "forwarded", scope |-> scope])
  BY DEF ServeHTTP
<1>2. PICK q : q = [pc |-> "forwarded", scope |-> scope]
  OBVIOUS
<1>3. RequestOK(q)
  BY <1>2, FilterAssumption
     DEF RequestOK, RequestTyped, RequestGrounded, RequestJustified,
         Forwarded, InProgress
<1>4. RequestsInv'
  BY <1>1, <1>2, <1>3, GotoKeeps DEF FilterInv, ServeHTTP
<1> QED BY <1>4, QuietKeeps DEF ServeHTTP

LEMMA IdleKeeps ==
  ASSUME FilterInv, NEW r \in Request, Goto(r, Idle),
         UNCHANGED <<registryVars, history>>
  PROVE  Keeps
<1>1. RequestOK(Idle)
  BY DEF RequestOK, RequestTyped, RequestGrounded, RequestJustified, Idle,
         InProgress
<1>2. RequestsInv'
  BY <1>1, GotoKeeps DEF FilterInv
<1> QED BY <1>2, QuietKeeps

(* A response that is served needs to account only for what it serves.     *)
LEMMA ServedOK ==
  ASSUME NEW m \in Messages, NEW scope \in {All} \cup SUBSET NS,
         NEW kept \in SUBSET Event,
         scope # All => \A ev \in kept : Justified(m.ch, scope, ev)
  PROVE  RequestOK(Served(m, scope, kept))
<1>1. m \in Message
  BY FilterAssumption
<1>2. PICK q : q = Served(m, scope, kept)
  OBVIOUS
<1>3. /\ q \in Handling /\ q.pc = "served"
      /\ q.ch = m.ch /\ q.scope = scope /\ q.kept = kept
  BY <1>1, <1>2, RegistryAssumption DEF Served, Message, Handling
<1> QED BY <1>2, <1>3
        DEF RequestOK, RequestTyped, RequestGrounded, RequestJustified,
            InProgress

(* A request that waits for its response holds a scope.                    *)
LEMMA ForwardedScope ==
  ASSUME FilterInv, NEW r \in Request, req[r].pc = "forwarded"
  PROVE  req[r].scope \in {All} \cup SUBSET NS
<1>1. RequestTyped(req[r])
  BY DEF FilterInv, RequestsInv, RequestOK
<1> QED BY <1>1 DEF RequestTyped, Idle, Forwarded, Handling

LEMMA PassThroughKeeps ==
  ASSUME FilterInv, NEW r \in Request, PassThrough(r)
  PROVE  Keeps
<1>1. PICK m \in Messages :
        /\ \/ req[r].scope = All
           \/ m.events = <<>>
           \/ /\ m.route = "control-stream"
              /\ m.events[1].kind # "namespaces"
        /\ Goto(r, Served(m, req[r].scope,
                          {m.events[i] : i \in 1..Len(m.events)}))
  BY DEF PassThrough
<1> DEFINE kept == {m.events[i] : i \in 1..Len(m.events)}
<1>2. m.events \in Seq(Event)
  BY FilterAssumption DEF Message
<1>3. kept \in SUBSET Event
  BY <1>2, ElementOfSeq
<1>4. ASSUME req[r].scope # All, NEW ev \in kept
      PROVE  Justified(m.ch, req[r].scope, ev)
  <2>1. m.events # <<>>
    BY <1>4
  <2>2. /\ m.route = "control-stream"
        /\ m.events[1].kind # "namespaces"
    BY <1>1, <1>4, <2>1
  <2>3. /\ Len(m.events) = 1
        /\ m.events[1] \in Namespaces \cup Notification
    BY <2>1, <2>2, FilterAssumption
  <2>4. ev.kind = "notification"
    BY <2>2, <2>3 DEF Namespaces, Notification
  <2> QED BY <2>4 DEF Justified
<1>5. PICK q : q = Served(m, req[r].scope, kept)
  OBVIOUS
<1>6. RequestOK(q)
  <2> HIDE DEF kept
  <2> QED BY <1>3, <1>4, <1>5, ForwardedScope, ServedOK DEF PassThrough
<1>7. RequestsInv'
  BY <1>1, <1>5, <1>6, GotoKeeps DEF FilterInv, PassThrough
<1> QED BY <1>7, QuietKeeps DEF PassThrough

LEMMA ControlStreamKeeps ==
  ASSUME FilterInv, NEW r \in Request, filterControlStream(r)
  PROVE  Keeps
<1> DEFINE scope == req[r].scope
           ask == NotifyEmptyScope /\ scope = {}
           picker(m) == [m.events[1] EXCEPT !.names = @ \cap scope]
           kept(m) == IF ask /\ NeedsNotice(m.ch)
                      THEN {[kind |-> "no_permission"]}
                      ELSE {picker(m)}
<1>1. PICK m \in Messages :
        /\ m.route = "control-stream"
        /\ m.events # <<>>
        /\ m.events[1].kind = "namespaces"
        /\ Goto(r, Served(m, scope, kept(m)))
        /\ IF ask THEN MarkEmptyScopeNotified(m.ch)
                  ELSE UNCHANGED registryVars
  BY DEF filterControlStream
<1>2. m.ch \in ChannelID
  BY FilterAssumption DEF Message
<1>3. m.events[1] \in Namespaces
  BY <1>1, FilterAssumption DEF Namespaces, Notification
<1>4. /\ picker(m) \in Event
      /\ picker(m).kind = "namespaces" /\ picker(m).names \subseteq scope
  <2>1. picker(m) \in Namespaces /\ picker(m).names \subseteq scope
    BY <1>3 DEF Namespaces
  <2> QED BY <2>1 DEF Namespaces, Event
<1>5. kept(m) \in SUBSET Event
  BY <1>4 DEF Event, NoPermission
<1>6. ASSUME NEW ev \in kept(m)
      PROVE  Justified(m.ch, scope, ev)
  <2>1. CASE ask /\ ev = [kind |-> "no_permission"]
    BY <2>1 DEF Justified
  <2>2. CASE ev = picker(m)
    <3>1. ev.kind = "namespaces" /\ ev.names \subseteq scope
      BY <1>4, <2>2
    <3> QED BY <3>1 DEF Justified
  <2> QED BY <2>1, <2>2
<1>7. PICK k : k = kept(m)
  OBVIOUS
<1>8. PICK q : q = Served(m, scope, k)
  OBVIOUS
<1>9. RequestOK(q)
  <2> HIDE DEF kept
  <2> QED BY <1>5, <1>6, <1>7, <1>8, ForwardedScope, ServedOK
          DEF filterControlStream
<1>10. RequestsInv'
  BY <1>1, <1>7, <1>8, <1>9, GotoKeeps DEF FilterInv, filterControlStream
<1>11. CASE ask
  <2>1. MarkEmptyScopeNotified(m.ch)
    BY <1>1, <1>11
  <2>2. RegistryJustified'
    BY <1>2, <2>1, MarkJustified DEF FilterInv, RegistryInv,
                                     filterControlStream
  <2>3. RegistryNext
    BY <1>2, <2>1 DEF RegistryNext, Call
  <2> QED BY <1>10, <2>2, <2>3
          DEF Keeps, FilterInv, history, HistoryTyped, filterControlStream
<1>12. CASE ~ask
  <2>1. UNCHANGED <<registryVars, history>>
    BY <1>1, <1>12 DEF filterControlStream
  <2> QED BY <1>10, <2>1, QuietKeeps
<1> QED BY <1>11, <1>12

(* The step that puts a response's events and scope on record.             *)
LEMMA ServiceMapStreamKeeps ==
  ASSUME FilterInv, NEW r \in Request, filterServiceMapStream(r)
  PROVE  Keeps
<1>1. PICK m \in Messages :
        /\ m.events # <<>>
        /\ Goto(r, [Served(m, req[r].scope, {}) EXCEPT !.pc = "learn"])
        /\ granted' = granted \cup {<<m.ch, req[r].scope>>}
        /\ seen' = seen \cup {<<m.ch, m.events[i]>> : i \in 1..Len(m.events)}
  BY DEF filterServiceMapStream
<1>2. req[r].scope \in SUBSET NS
  BY ForwardedScope DEF filterServiceMapStream
<1>3. req[r].scope # All
  BY DEF filterServiceMapStream
<1>4. m.ch \in ChannelID /\ m.events \in Seq(Event)
  BY FilterAssumption DEF Message
<1>5. Len(m.events) \in Nat \ {0}
  BY <1>1, <1>4, EmptySeq, LenProperties
<1>6. PICK scope : scope = req[r].scope
  OBVIOUS
<1>7. PICK q : q = [Served(m, scope, {}) EXCEPT !.pc = "learn"]
  OBVIOUS
<1>8. /\ q \in Handling /\ q.pc = "learn" /\ q.kept = {}
      /\ q.ch = m.ch /\ q.scope = scope /\ q.body = m.events /\ q.at = 1
  BY <1>2, <1>4, <1>6, <1>7, RegistryAssumption DEF Served, Handling
<1>9. RequestTyped(q)'
  BY <1>3, <1>5, <1>6, <1>8 DEF RequestTyped
<1>10. RequestGrounded(q)'
  BY <1>1, <1>6, <1>8 DEF RequestGrounded
<1>11. RequestJustified(q)'
  BY <1>8 DEF RequestJustified
<1>12. HistoryGrows
  BY <1>1 DEF HistoryGrows
<1>13. RequestsInv'
  BY <1>1, <1>6, <1>7, <1>9, <1>10, <1>11, <1>12, OthersStay
     DEF FilterInv, RequestOK
<1>14. HistoryTyped'
  <2>1. \A i \in 1..Len(m.events) : m.events[i] \in Event
    BY <1>4, ElementOfSeq
  <2> QED BY <1>1, <1>2, <1>4, <2>1 DEF FilterInv, HistoryTyped
<1>15. UNCHANGED registryVars
  BY DEF filterServiceMapStream
<1>16. RegistryJustified'
  BY <1>12, <1>15, UntouchedJustified DEF FilterInv, registryVars
<1> QED BY <1>13, <1>14, <1>15, <1>16 DEF Keeps

LEMMA LearnKeeps ==
  ASSUME FilterInv, NEW r \in Request, Learn(r)
  PROVE  Keeps
<1>1. req[r].pc \in InProgress /\ UNCHANGED history
  BY DEF Learn, InProgress
<1>2. RequestsInv'
  <2>1. PICK next \in {"peers", "decide"} : Advance(r, "learn", next, {})
    BY DEF Learn
  <2> QED BY <1>1, <2>1, AdvanceKeeps DEF FilterInv
<1>3. CASE Current(r).kind = "service_state"
  <2>1. PICK c, s, ns : /\ c = req[r].ch
                        /\ s = Current(r).id
                        /\ ns = Current(r).ns
    OBVIOUS
  <2>2. Remember(c, s, ns)
    BY <1>3, <2>1 DEF Learn
  <2>3. /\ c \in ChannelID /\ s \in ServiceID /\ ns \in NS
        /\ Announced(c, s, ns)
    BY <1>1, <1>3, <2>1, InProgressFacts, ServiceStateShape DEF Announced
  <2>4. RegistryJustified'
    BY <1>1, <2>2, <2>3, RememberJustified DEF FilterInv, RegistryInv
  <2>5. RegistryNext
    BY <2>2, <2>3 DEF RegistryNext, Call
  <2> QED BY <1>1, <1>2, <2>4, <2>5
          DEF Keeps, FilterInv, history, HistoryTyped
<1>4. CASE Current(r).kind # "service_state"
  <2>1. UNCHANGED registryVars
    BY <1>4 DEF Learn
  <2> QED BY <1>1, <1>2, <2>1, QuietKeeps
<1> QED BY <1>3, <1>4

(* The first Lookup of a link: what it found is carried to the second.     *)
LEMMA LinkSrcKeeps ==
  ASSUME FilterInv, NEW r \in Request, req[r].pc \in InProgress,
         Current(r).kind = "service_link_state",
         NEW pc \in {"peers-dst", "decide-dst"},
         Lookup(req[r].ch), UNCHANGED history,
         Goto(r, [req[r] EXCEPT !.pc = pc,
                                !.src = LookedUp(req[r].ch, Current(r).src)])
  PROVE  Keeps
<1>1. PICK ns : ns = LookedUp(req[r].ch, Current(r).src)
  OBVIOUS
<1>2. Current(r).src \in ServiceID
  BY InProgressFacts, ServiceLinkShape
<1>3. /\ ns \in NS \cup {Unknown}
      /\ ns # Unknown => Announced(req[r].ch, Current(r).src, ns)
  BY <1>1, <1>2, LookedUpJustified DEF FilterInv, RegistryInv
<1>4. PICK q : q = [req[r] EXCEPT !.pc = pc, !.src = ns]
  OBVIOUS
<1>5. req[r] \in Handling
  BY InProgressFacts
<1>6. /\ q \in Handling /\ q.pc = pc /\ q.src = ns
      /\ q.ch = req[r].ch /\ q.scope = req[r].scope /\ q.body = req[r].body
      /\ q.at = req[r].at /\ q.kept = req[r].kept
  BY <1>3, <1>4, <1>5 DEF Handling
<1>7. RequestTyped(q)
  BY <1>6, InProgressFacts DEF RequestTyped, Current
<1>8. RequestGrounded(q)
  BY <1>3, <1>6, InProgressFacts DEF RequestOK, RequestGrounded, Current
<1>9. RequestJustified(q)
  BY <1>6, InProgressFacts DEF RequestJustified
<1>10. RequestsInv'
  BY <1>1, <1>4, <1>7, <1>8, <1>9, GotoKeeps DEF FilterInv, RequestOK
<1> QED BY <1>10, InProgressFacts, LookupKeeps

LEMMA PeersSrcKeeps ==
  ASSUME FilterInv, NEW r \in Request, PeersSrc(r)
  PROVE  Keeps
BY LinkSrcKeeps DEF PeersSrc, InProgress

LEMMA DecideLinkSrcKeeps ==
  ASSUME FilterInv, NEW r \in Request, DecideLinkSrc(r)
  PROVE  Keeps
BY LinkSrcKeeps DEF DecideLinkSrc, InProgress

(* What the second Lookup of a link knows of both ends.                    *)
LEMMA LinkEndsJustified ==
  ASSUME FilterInv, NEW r \in Request,
         req[r].pc \in {"peers-dst", "decide-dst"}
  PROVE  /\ Current(r).kind = "service_link_state"
         /\ req[r].src \in NS \cup {Unknown}
         /\ req[r].src # Unknown =>
              Announced(req[r].ch, Current(r).src, req[r].src)
         /\ LookedUp(req[r].ch, Current(r).dst) \in NS \cup {Unknown}
         /\ LookedUp(req[r].ch, Current(r).dst) # Unknown =>
              Announced(req[r].ch, Current(r).dst,
                        LookedUp(req[r].ch, Current(r).dst))
<1>1. req[r].pc \in InProgress
  BY DEF InProgress
<1>2. Current(r).kind = "service_link_state"
  BY <1>1, InProgressFacts DEF RequestOK, RequestTyped, Current
<1>3. Current(r).dst \in ServiceID
  BY <1>1, <1>2, InProgressFacts, ServiceLinkShape
<1>4. /\ req[r].src \in NS \cup {Unknown}
      /\ req[r].src # Unknown =>
           Announced(req[r].ch, Current(r).src, req[r].src)
  BY <1>1, InProgressFacts DEF RequestOK, RequestGrounded, Handling, Current
<1> QED BY <1>2, <1>3, <1>4, LookedUpJustified DEF FilterInv, RegistryInv

LEMMA PeersDstKeeps ==
  ASSUME FilterInv, NEW r \in Request, PeersDst(r)
  PROVE  Keeps
<1>1. /\ req[r].pc \in InProgress
      /\ req[r].pc \in {"peers-dst", "decide-dst"}
      /\ UNCHANGED history /\ Lookup(req[r].ch)
  BY DEF PeersDst, InProgress
<1> DEFINE link == Current(r)
           dst == LookedUp(req[r].ch, link.dst)
           new == NewPeers(link, req[r].src, dst, req[r].scope)
<1>2. \A s \in new : s \in ServiceID /\ PeerOnce(req[r].ch, s)
  <2>1. /\ link \in Event
        /\ <<req[r].ch, link>> \in seen
        /\ <<req[r].ch, req[r].scope>> \in granted
    BY <1>1, InProgressFacts
  <2>2. /\ link.kind = "service_link_state"
        /\ req[r].src \in NS \cup {Unknown}
        /\ req[r].src # Unknown => Announced(req[r].ch, link.src, req[r].src)
        /\ dst \in NS \cup {Unknown}
        /\ dst # Unknown => Announced(req[r].ch, link.dst, dst)
    BY <1>1, LinkEndsJustified
  <2> HIDE DEF link, dst
  <2> QED BY <2>1, <2>2, NewPeersJustified
<1>3. RequestsInv'
  <2>1. CASE new = {}
    <3>1. Advance(r, "peers", "decide", {})
      BY <2>1 DEF PeersDst
    <3> QED BY <1>1, <3>1, AdvanceKeeps DEF FilterInv
  <2>2. CASE new # {}
    <3>1. PICK s \in new :
            Goto(r, [req[r] EXCEPT !.pc = "peers-mark", !.peer = s])
      BY <2>2 DEF PeersDst
    <3>2. s \in ServiceID /\ PeerOnce(req[r].ch, s)
      BY <1>2
    <3>3. PICK q : q = [req[r] EXCEPT !.pc = "peers-mark", !.peer = s]
      OBVIOUS
    <3>4. req[r] \in Handling
      BY <1>1, InProgressFacts
    <3>5. /\ q \in Handling /\ q.pc = "peers-mark" /\ q.peer = s
          /\ q.ch = req[r].ch /\ q.scope = req[r].scope
          /\ q.body = req[r].body /\ q.at = req[r].at
          /\ q.kept = req[r].kept
      BY <3>2, <3>3, <3>4 DEF Handling
    <3>6. RequestTyped(q)
      BY <1>1, <3>5, InProgressFacts DEF RequestTyped
    <3>7. RequestGrounded(q)
      BY <1>1, <3>2, <3>5, InProgressFacts DEF RequestOK, RequestGrounded
    <3>8. RequestJustified(q)
      BY <1>1, <3>5, InProgressFacts DEF RequestJustified
    <3> QED BY <1>1, <3>1, <3>3, <3>6, <3>7, <3>8, GotoKeeps
            DEF FilterInv, RequestOK
  <2> QED BY <2>1, <2>2
<1> QED BY <1>1, <1>3, InProgressFacts, LookupKeeps

LEMMA PeersMarkKeeps ==
  ASSUME FilterInv, NEW r \in Request, PeersMark(r)
  PROVE  Keeps
<1>1. req[r].pc \in InProgress /\ UNCHANGED history
  BY DEF PeersMark, InProgress
<1>2. RequestsInv'
  BY <1>1, AdvanceKeeps DEF FilterInv, PeersMark
<1>3. PICK c, s : c = req[r].ch /\ s = req[r].peer
  OBVIOUS
<1>4. c \in ChannelID /\ s \in ServiceID /\ PeerOnce(c, s)
  BY <1>1, <1>3, InProgressFacts
     DEF RequestOK, RequestGrounded, Handling, PeersMark
<1>5. RememberPeer(c, s)
  BY <1>3 DEF PeersMark
<1>6. RegistryJustified'
  BY <1>1, <1>4, <1>5, RememberPeerJustified DEF FilterInv, RegistryInv
<1>7. RegistryNext
  BY <1>4, <1>5 DEF RegistryNext, Call
<1> QED BY <1>1, <1>2, <1>6, <1>7
        DEF Keeps, FilterInv, history, HistoryTyped

LEMMA PeersSkipKeeps ==
  ASSUME FilterInv, NEW r \in Request, PeersSkip(r)
  PROVE  Keeps
<1>1. req[r].pc \in InProgress /\ UNCHANGED history
  BY DEF PeersSkip, InProgress
<1>2. RequestsInv'
  BY <1>1, AdvanceKeeps DEF FilterInv, PeersSkip
<1> QED BY <1>2, QuietKeeps DEF PeersSkip

LEMMA DecideServiceKeeps ==
  ASSUME FilterInv, NEW r \in Request, DecideService(r)
  PROVE  Keeps
<1>1. req[r].pc \in InProgress /\ UNCHANGED history
  BY DEF DecideService, InProgress
<1> DEFINE ev == Current(r)
<1>2. PICK kept : /\ Advance(r, "decide", "served", kept)
                  /\ kept = IF ServiceVisible(req[r].ch, ev, req[r].scope)
                            THEN req[r].kept \cup {ev}
                            ELSE req[r].kept
  BY DEF DecideService
<1>3. ev \in Event /\ ev.kind = "service_state" /\ ev.id \in ServiceID
  BY <1>1, InProgressFacts, ServiceStateShape DEF DecideService
<1>4. ServiceVisible(req[r].ch, ev, req[r].scope)
        => Justified(req[r].ch, req[r].scope, ev)
  BY <1>3, IsPeerJustified DEF FilterInv, ServiceVisible, Justified
<1> HIDE DEF ev
<1>5. /\ kept \in SUBSET Event
      /\ \A e \in kept : Justified(req[r].ch, req[r].scope, e)
  BY <1>1, <1>2, <1>3, <1>4, InProgressFacts
<1>6. RequestsInv'
  BY <1>1, <1>2, <1>5, AdvanceKeeps DEF FilterInv
<1> QED BY <1>6, QuietKeeps DEF DecideService

LEMMA DecideLinkDstKeeps ==
  ASSUME FilterInv, NEW r \in Request, DecideLinkDst(r)
  PROVE  Keeps
<1>1. /\ req[r].pc \in InProgress
      /\ req[r].pc \in {"peers-dst", "decide-dst"}
      /\ UNCHANGED history /\ Lookup(req[r].ch)
  BY DEF DecideLinkDst, InProgress
<1> DEFINE ev == Current(r)
           dst == LookedUp(req[r].ch, ev.dst)
<1>2. PICK kept : /\ Advance(r, "decide", "served", kept)
                  /\ kept = IF LinkVisible(req[r].src, dst, req[r].scope)
                            THEN req[r].kept \cup {ev}
                            ELSE req[r].kept
  BY DEF DecideLinkDst
<1>3. /\ ev.kind = "service_link_state"
      /\ req[r].src \in NS \cup {Unknown}
      /\ req[r].src # Unknown => Announced(req[r].ch, ev.src, req[r].src)
      /\ dst \in NS \cup {Unknown}
      /\ dst # Unknown => Announced(req[r].ch, ev.dst, dst)
  BY <1>1, LinkEndsJustified
<1>4. ev \in Event
  BY <1>1, InProgressFacts
<1> HIDE DEF ev, dst
<1>5. ASSUME LinkVisible(req[r].src, dst, req[r].scope)
      PROVE  Justified(req[r].ch, req[r].scope, ev)
  <2>1. /\ req[r].src \in NS /\ Announced(req[r].ch, ev.src, req[r].src)
        /\ dst \in NS /\ Announced(req[r].ch, ev.dst, dst)
    BY <1>3, <1>5 DEF LinkVisible
  <2>2. PairJustified(req[r].src, dst, req[r].scope)
    BY <1>5, VisiblePairJustified DEF LinkVisible
  <2> QED BY <1>3, <2>1, <2>2 DEF Justified
<1>6. /\ kept \in SUBSET Event
      /\ \A e \in kept : Justified(req[r].ch, req[r].scope, e)
  BY <1>1, <1>2, <1>4, <1>5, InProgressFacts
<1>7. RequestsInv'
  BY <1>1, <1>2, <1>6, AdvanceKeeps DEF FilterInv
<1> QED BY <1>1, <1>7, InProgressFacts, LookupKeeps

LEMMA DecideOtherKeeps ==
  ASSUME FilterInv, NEW r \in Request, DecideOther(r)
  PROVE  Keeps
<1>1. req[r].pc \in InProgress /\ UNCHANGED history
  BY DEF DecideOther, InProgress
<1>2. PICK kept : /\ Advance(r, "decide", "served", kept)
                  /\ kept = req[r].kept
                              \cup PureVisible(Current(r), req[r].scope)
  BY DEF DecideOther
<1>3. \A e \in PureVisible(Current(r), req[r].scope) :
        e \in Event /\ Justified(req[r].ch, req[r].scope, e)
  BY <1>1, InProgressFacts, PureVisibleJustified
<1>4. /\ kept \in SUBSET Event
      /\ \A e \in kept : Justified(req[r].ch, req[r].scope, e)
  BY <1>1, <1>2, <1>3, InProgressFacts
<1>5. RequestsInv'
  BY <1>1, <1>2, <1>4, AdvanceKeeps DEF FilterInv
<1> QED BY <1>5, QuietKeeps DEF DecideOther

(* A step that no request takes leaves them all.                           *)
LEMMA IdleRequestsStay ==
  ASSUME RequestsInv, HistoryGrows, UNCHANGED req
  PROVE  RequestsInv'
<1>1. ASSUME NEW p \in Request
      PROVE  RequestOK(req[p])'
  <2>1. PICK q : q = req[p]
    OBVIOUS
  <2>2. RequestOK(q)'
    BY <2>1, RequestStays DEF RequestsInv
  <2> QED BY <2>1, <2>2
<1> QED BY <1>1 DEF RequestsInv

LEMMA ClockKeeps ==
  ASSUME FilterInv, Clock
  PROVE  Keeps
<1>1. UNCHANGED history /\ UNCHANGED req
  BY DEF Clock, filterVars
<1>2. RequestsInv'
  BY <1>1, HistoryStays, IdleRequestsStay DEF FilterInv
<1>3. RegistryJustified'
  BY <1>1, SweepJustified, TickJustified DEF FilterInv, RegistryInv, Clock
<1> QED BY <1>1, <1>2, <1>3
        DEF Keeps, FilterInv, history, HistoryTyped, Clock, RegistryNext

LEMMA FilterStep ==
  ASSUME FilterInv, [FilterNext]_vars
  PROVE  FilterInv' /\ [RegistryNext]_registryVars
<1>1. ASSUME NEW r \in Request, Handle(r)
      PROVE  Keeps
  <2>1. CASE Filtering(r)
    BY <2>1, ServeHTTPKeeps, PassThroughKeeps, IdleKeeps, ControlStreamKeeps,
       ServiceMapStreamKeeps, LearnKeeps, PeersSrcKeeps, PeersDstKeeps,
       PeersMarkKeeps, PeersSkipKeeps, DecideServiceKeeps,
       DecideLinkSrcKeeps, DecideLinkDstKeeps, DecideOtherKeeps
       DEF Filtering, ErrorHandler
  <2>2. CASE Finish(r)
    BY <2>2, IdleKeeps DEF Finish
  <2> QED BY <1>1, <2>1, <2>2 DEF Handle
<1>2. ASSUME UNCHANGED vars
      PROVE  Keeps
  <2>1. UNCHANGED <<registryVars, history>> /\ UNCHANGED req
    BY <1>2 DEF vars, filterVars
  <2>2. RequestsInv'
    BY <2>1, HistoryStays, IdleRequestsStay DEF FilterInv
  <2> QED BY <2>1, <2>2, QuietKeeps
<1>3. Keeps
  BY <1>1, <1>2, ClockKeeps DEF FilterNext
<1> QED BY <1>3, RegistryStep DEF Keeps, FilterInv

LEMMA FilterInitOK ==
  ASSUME FilterInit
  PROVE  FilterInv
<1>1. RegistryInv
  BY InitEstablishes DEF FilterInit
<1>2. RegistryJustified
  BY DEF FilterInit, RegistryInit, RegistryJustified
<1>3. RequestsInv
  BY DEF FilterInit, RequestsInv, RequestOK, RequestTyped, RequestGrounded,
         RequestJustified, Idle, InProgress
<1> QED BY <1>1, <1>2, <1>3 DEF FilterInit, FilterInv, HistoryTyped
-----------------------------------------------------------------------------
(* The inductive invariant, for any number of requests, channels, services *)
(* and messages.                                                           *)
THEOREM FilterSafe == FilterSpec => []FilterInv
<1>1. FilterInit => FilterInv
  BY FilterInitOK
<1>2. FilterInv /\ [FilterNext]_vars => FilterInv'
  BY FilterStep
<1> QED BY <1>1, <1>2, PTL DEF FilterSpec

(* The filter calls the registry only as the registry allows: what holds   *)
(* of the registry under calls in any order (its cap, its gauge, its       *)
(* retention, the order of its evictions) holds of it under the filter     *)
(* (proxy.go and uifilter.go call nothing but its exported methods).       *)
THEOREM FilterUsesRegistry == FilterSpec => RegistrySpec
<1>1. FilterInit => RegistryInit
  BY DEF FilterInit
<1>2. FilterInv /\ [FilterNext]_vars => [RegistryNext]_registryVars
  BY FilterStep
<1> QED BY <1>1, <1>2, FilterSafe, PTL DEF FilterSpec, RegistrySpec

(* Each handler is in a state of the code, with an event of its response   *)
(* at hand in every pass.                                                  *)
THEOREM FilterTyped == FilterSpec => []FilterTypeOK
<1>1. FilterInv => FilterTypeOK
  BY FilterInvMeaning
<1> QED BY <1>1, FilterSafe, PTL

(* What the registry holds for a channel was said on that channel.         *)
THEOREM RegistryTruthful == FilterSpec => []RegistryJustified
<1>1. FilterInv => RegistryJustified
  BY FilterInvMeaning
<1> QED BY <1>1, FilterSafe, PTL

(* A scoped caller is served only what the announcements on its channel    *)
(* justify under its scope, whatever runs in between.                      *)
THEOREM ServedJustified == FilterSpec => []KeptJustified
<1>1. FilterInv => KeptJustified
  BY FilterInvMeaning
<1> QED BY <1>1, FilterSafe, PTL

-----------------------------------------------------------------------------
(* The notice of an empty scope.  A mark lives as long as its channel, and *)
(* only the step that marks a channel hands the notice out; for that a     *)
(* response in progress must not hold a notice of its own.                 *)

LEMMA UpsertKeepsMark ==
  ASSUME RegistryTypeOK, NEW d, Marked(d), d \in DOMAIN channels',
         NEW c \in ChannelID, NEW ch, Upsert(c, ch),
         channelLocked(c).emptyScopeNotified => ch.emptyScopeNotified
  PROVE  Marked(d)'
<1>1. CASE d = c
  <2>1. channels[c] \in ChannelServices
    BY <1>1 DEF Marked, RegistryTypeOK
  <2>2. channelLocked(c).emptyScopeNotified
    BY <1>1, <2>1 DEF Marked, channelLocked, ChannelServices
  <2> QED BY <1>1, <2>2, UpsertEffect DEF Marked
<1>2. CASE d # c
  BY <1>2, UpsertEffect DEF Marked
<1> QED BY <1>1, <1>2

LEMMA MarkLives ==
  ASSUME RegistryInv, [RegistryNext]_registryVars, NEW d, Marked(d),
         d \in DOMAIN channels'
  PROVE  Marked(d)'
<1>1. RegistryTypeOK
  BY DEF RegistryInv
<1>2. channels[d] \in ChannelServices /\ d \in DOMAIN channels
  BY <1>1 DEF Marked, RegistryTypeOK
<1>3. CASE UNCHANGED channels
  BY <1>3 DEF Marked
<1>4. ASSUME NEW c \in ChannelID, NEW s \in ServiceID, NEW ns \in NS,
             Remember(c, s, ns)
      PROVE  Marked(d)'
  <2> DEFINE ch == [channelLocked(c) EXCEPT !.namespaces[s] = ns]
  <2>1. UNCHANGED channels \/ Upsert(c, ch)
    BY <1>4 DEF Remember
  <2>2. ch.emptyScopeNotified = channelLocked(c).emptyScopeNotified
    BY <1>1, ChannelLockedType DEF ChannelServices
  <2> HIDE DEF ch
  <2> QED BY <1>1, <1>3, <2>1, <2>2, UpsertKeepsMark
<1>5. ASSUME NEW c \in ChannelID, NEW s \in ServiceID, RememberPeer(c, s)
      PROVE  Marked(d)'
  <2> DEFINE ch == [channelLocked(c) EXCEPT !.peers = @ \cup {s}]
  <2>1. UNCHANGED channels \/ Upsert(c, ch)
    BY <1>5 DEF RememberPeer
  <2>2. ch.emptyScopeNotified = channelLocked(c).emptyScopeNotified
    BY <1>1, ChannelLockedType DEF ChannelServices
  <2> HIDE DEF ch
  <2> QED BY <1>1, <1>3, <2>1, <2>2, UpsertKeepsMark
<1>6. ASSUME NEW c \in ChannelID, MarkEmptyScopeNotified(c)
      PROVE  Marked(d)'
  <2> DEFINE ch == [channelLocked(c) EXCEPT !.emptyScopeNotified = TRUE]
  <2>1. UNCHANGED channels \/ Upsert(c, ch)
    BY <1>6 DEF MarkEmptyScopeNotified
  <2>2. ch.emptyScopeNotified
    BY <1>1, ChannelLockedType DEF ChannelServices
  <2> HIDE DEF ch
  <2> QED BY <1>1, <1>3, <2>1, <2>2, UpsertKeepsMark
<1>7. ASSUME NEW c \in ChannelID, Lookup(c)
      PROVE  Marked(d)'
  <2>1. channels'[d] = IF d = c THEN [channels[d] EXCEPT !.idle = 0]
                                ELSE channels[d]
    BY <1>1, <1>2, <1>7 DEF Lookup, RegistryTypeOK
  <2> QED BY <1>2, <2>1 DEF Marked, ChannelServices
<1>8. CASE Sweep
  BY <1>8 DEF Sweep, Marked
<1>9. CASE Tick
  <2>1. channels'[d] = [channels[d] EXCEPT !.idle = @ + 1]
    BY <1>2, <1>9 DEF Tick
  <2> QED BY <1>2, <2>1 DEF Marked, ChannelServices
<1> QED BY <1>3, <1>4, <1>5, <1>6, <1>7, <1>8, <1>9
        DEF RegistryNext, Call, registryVars

(* Handing the notice out marks a channel that was not marked.             *)
LEMMA NoticeMarks ==
  ASSUME RegistryInv, NEW c \in ChannelID, NeedsNotice(c),
         MarkEmptyScopeNotified(c)
  PROVE  ~Marked(c) /\ Marked(c)'
<1> DEFINE ch == [channelLocked(c) EXCEPT !.emptyScopeNotified = TRUE]
<1>1. RegistryTypeOK
  BY DEF RegistryInv
<1>2. Upsert(c, ch)
  BY DEF NeedsNotice, MarkEmptyScopeNotified
<1>3. ch.emptyScopeNotified
  BY <1>1, ChannelLockedType DEF ChannelServices
<1> HIDE DEF ch
<1>4. Marked(c)'
  BY <1>1, <1>2, <1>3, UpsertEffect DEF Marked
<1>5. ~Marked(c)
  <2> SUFFICES ASSUME Marked(c) PROVE FALSE
    OBVIOUS
  <2>1. channels[c] \in ChannelServices
    BY <1>1 DEF Marked, RegistryTypeOK
  <2> QED BY <2>1 DEF Marked, NeedsNotice, channelLocked, ChannelServices
<1> QED BY <1>4, <1>5

NoticeFree(kept) == \A ev \in kept : ev.kind # "no_permission"

PassesNoticeFree ==
  \A r \in Request : req[r].pc \in InProgress => NoticeFree(req[r].kept)

(* What a step of request r owes: its passes hold no notice, and if it now *)
(* serves one then its channel is marked by this very step.                *)
NoticeDue(r) ==
  /\ req'[r].pc \in InProgress => NoticeFree(req'[r].kept)
  /\ \A c \in ChannelID : HoldsNotice(r, c)' => ~Marked(c) /\ Marked(c)'

LEMMA GotoEffect ==
  ASSUME FilterInv, NEW r \in Request, NEW q, Goto(r, q)
  PROVE  /\ req'[r] = q
         /\ \A p \in Request : p # r => req'[p] = req[p]
BY DEF FilterInv, RequestsInv, Goto

LEMMA UnnoticedDue ==
  ASSUME FilterInv, NEW r \in Request, NEW q, Goto(r, q),
         q.pc \in {"idle", "forwarded"} \/ NoticeFree(q.kept)
  PROVE  NoticeDue(r)
<1>1. req'[r] = q
  BY GotoEffect
<1> QED BY <1>1 DEF NoticeDue, NoticeFree, HoldsNotice, InProgress

LEMMA AdvanceDue ==
  ASSUME FilterInv, NEW r \in Request, req[r].pc \in InProgress,
         NEW pass, NEW next, NEW kept, NoticeFree(kept),
         Advance(r, pass, next, kept)
  PROVE  NoticeDue(r)
<1> DEFINE last == req[r].at = Len(req[r].body)
<1>1. PICK pc, at, q : /\ q = [req[r] EXCEPT !.pc = pc, !.at = at,
                                             !.kept = kept]
                       /\ pc = IF last THEN next ELSE pass
                       /\ at = IF last THEN 1 ELSE req[r].at + 1
  OBVIOUS
<1>2. Goto(r, q)
  BY <1>1 DEF Advance
<1>3. req[r] \in Handling
  BY InProgressFacts
<1>4. q.kept = kept
  BY <1>1, <1>3 DEF Handling
<1> QED BY <1>2, <1>4, UnnoticedDue

(* eventVisible never makes a notice.                                      *)
LEMMA PureVisibleNoticeFree ==
  ASSUME NEW ev \in Event, NEW scope
  PROVE  NoticeFree(PureVisible(ev, scope))
<1> SUFFICES ASSUME NEW e \in PureVisible(ev, scope)
             PROVE  e.kind # "no_permission"
  BY DEF NoticeFree
<1>1. CASE ev.kind = "flows"
  <2>1. PICK keep : e = [ev EXCEPT !.flows = keep]
    BY <1>1 DEF PureVisible
  <2>2. ev \in Flows
    BY <1>1 DEF Event, ServiceState, ServiceLinkState, Flow, Flows,
       NamespaceState, Namespaces, Notification, NoPermission, UnknownEvent
  <2> QED BY <2>1, <2>2 DEF Flows
<1>2. CASE ev.kind # "flows"
  BY <1>2 DEF PureVisible
<1> QED BY <1>1, <1>2

(* The backend's messages hold no notice.                                  *)
LEMMA MessageNoticeFree ==
  ASSUME NEW m \in Messages
  PROVE  NoticeFree({m.events[i] : i \in 1..Len(m.events)})
<1> SUFFICES ASSUME NEW i \in 1..Len(m.events)
             PROVE  m.events[i].kind # "no_permission"
  BY DEF NoticeFree
<1>1. m \in Message /\ m.events \in Seq(Event) /\ m.events[i] \in Event
  BY FilterAssumption, ElementOfSeq DEF Message
<1>2. CASE m.route = "control-stream"
  <2>1. m.events # <<>>
    OBVIOUS
  <2>2. Len(m.events) = 1 /\ m.events[1] \in Namespaces \cup Notification
    BY <1>2, <2>1, FilterAssumption
  <2> QED BY <2>2 DEF Namespaces, Notification
<1>3. CASE m.route # "control-stream"
  <2>1. m.events[i] \notin NoPermission
    BY <1>3, FilterAssumption
  <2> QED BY <1>1, <2>1 DEF Event, ServiceState, ServiceLinkState, Flow,
       Flows, NamespaceState, Namespaces, Notification, NoPermission,
       UnknownEvent
<1> QED BY <1>2, <1>3

LEMMA ControlStreamDue ==
  ASSUME FilterInv, NEW r \in Request, filterControlStream(r)
  PROVE  NoticeDue(r)
<1> DEFINE scope == req[r].scope
           ask == NotifyEmptyScope /\ scope = {}
           picker(m) == [m.events[1] EXCEPT !.names = @ \cap scope]
           kept(m) == IF ask /\ NeedsNotice(m.ch)
                      THEN {[kind |-> "no_permission"]}
                      ELSE {picker(m)}
<1>1. PICK m \in Messages :
        /\ m.route = "control-stream"
        /\ m.events # <<>>
        /\ m.events[1].kind = "namespaces"
        /\ Goto(r, Served(m, scope, kept(m)))
        /\ IF ask THEN MarkEmptyScopeNotified(m.ch)
                  ELSE UNCHANGED registryVars
  BY DEF filterControlStream
<1>2. m.ch \in ChannelID
  BY FilterAssumption DEF Message
<1>3. m.events[1] \in Namespaces
  BY <1>1, FilterAssumption DEF Namespaces, Notification
<1>4. picker(m).kind = "namespaces"
  BY <1>3 DEF Namespaces
<1>5. CASE ask /\ NeedsNotice(m.ch)
  <2>1. ~Marked(m.ch) /\ Marked(m.ch)'
    BY <1>1, <1>2, <1>5, NoticeMarks DEF FilterInv
  <2>2. req'[r].pc = "served" /\ req'[r].ch = m.ch
    BY <1>1, GotoEffect DEF Served
  <2>3. ASSUME NEW c, HoldsNotice(r, c)'
        PROVE  ~Marked(c) /\ Marked(c)'
    <3>1. c = m.ch
      BY <2>2, <2>3 DEF HoldsNotice
    <3> QED BY <2>1, <3>1
  <2> QED BY <2>2, <2>3 DEF NoticeDue, InProgress
<1>6. CASE ~(ask /\ NeedsNotice(m.ch))
  <2>1. PICK q : q = Served(m, scope, {picker(m)})
    OBVIOUS
  <2>2. Goto(r, q)
    BY <1>1, <1>6, <2>1
  <2>3. q.kept = {picker(m)}
    BY <2>1 DEF Served
  <2>4. NoticeFree(q.kept)
    BY <1>4, <2>3 DEF NoticeFree
  <2> QED BY <2>2, <2>4, UnnoticedDue
<1> QED BY <1>5, <1>6

LEMMA HandleDue ==
  ASSUME FilterInv, PassesNoticeFree, NEW r \in Request, Handle(r)
  PROVE  NoticeDue(r) /\ \A p \in Request : p # r => req'[p] = req[p]
<1>1. NoticeFree({})
  BY DEF NoticeFree
<1>2. CASE ServeHTTP(r)
  <2>1. PICK scope : Goto(r, [pc |-> "forwarded", scope |-> scope])
    BY <1>2 DEF ServeHTTP
  <2>2. PICK q : q = [pc |-> "forwarded", scope |-> scope]
    OBVIOUS
  <2> QED BY <2>1, <2>2, UnnoticedDue, GotoEffect
<1>3. CASE PassThrough(r)
  <2>1. PICK m \in Messages :
          Goto(r, Served(m, req[r].scope,
                         {m.events[i] : i \in 1..Len(m.events)}))
    BY <1>3 DEF PassThrough
  <2>2. PICK kept : kept = {m.events[i] : i \in 1..Len(m.events)}
    OBVIOUS
  <2>3. PICK q : q = Served(m, req[r].scope, kept)
    OBVIOUS
  <2>4. NoticeFree(q.kept)
    BY <2>2, <2>3, MessageNoticeFree DEF Served
  <2> QED BY <2>1, <2>2, <2>3, <2>4, UnnoticedDue, GotoEffect
<1>4. CASE ErrorHandler(r) \/ Finish(r)
  <2>1. Goto(r, Idle) /\ Idle.pc = "idle"
    BY <1>4 DEF ErrorHandler, Finish, Idle
  <2> QED BY <2>1, UnnoticedDue, GotoEffect
<1>5. CASE filterControlStream(r)
  <2>1. PICK q : Goto(r, q)
    BY <1>5 DEF filterControlStream
  <2> QED BY <1>5, <2>1, ControlStreamDue, GotoEffect
<1>6. CASE filterServiceMapStream(r)
  <2>1. PICK m, q :
          /\ m \in Messages /\ Goto(r, q)
          /\ q = [Served(m, req[r].scope, {}) EXCEPT !.pc = "learn"]
    BY <1>6 DEF filterServiceMapStream
  <2>2. q.kept = {}
    BY <2>1 DEF Served
  <2> QED BY <1>1, <2>1, <2>2, UnnoticedDue, GotoEffect
<1>7. ASSUME req[r].pc \in InProgress,
             NEW pass, NEW next, NEW kept, NoticeFree(kept),
             Advance(r, pass, next, kept)
      PROVE  NoticeDue(r) /\ \A p \in Request : p # r => req'[p] = req[p]
  <2>1. PICK q : Goto(r, q)
    BY <1>7 DEF Advance
  <2> QED BY <1>7, <2>1, AdvanceDue, GotoEffect
<1>8. ASSUME req[r].pc \in InProgress,
             NEW q, Goto(r, q), q.kept = req[r].kept
      PROVE  NoticeDue(r) /\ \A p \in Request : p # r => req'[p] = req[p]
  BY <1>8, UnnoticedDue, GotoEffect DEF PassesNoticeFree
<1>9. ASSUME req[r].pc \in InProgress, NEW pc, NEW src,
             Goto(r, [req[r] EXCEPT !.pc = pc, !.src = src])
      PROVE  NoticeDue(r) /\ \A p \in Request : p # r => req'[p] = req[p]
  <2>1. PICK q : q = [req[r] EXCEPT !.pc = pc, !.src = src]
    OBVIOUS
  <2>2. req[r] \in Handling
    BY <1>9, InProgressFacts
  <2>3. q.kept = req[r].kept
    BY <2>1, <2>2 DEF Handling
  <2> QED BY <1>8, <1>9, <2>1, <2>3
<1>10. CASE Learn(r)
  BY <1>1, <1>7, <1>10 DEF Learn, InProgress
<1>11. CASE PeersSrc(r) \/ DecideLinkSrc(r)
  BY <1>9, <1>11 DEF PeersSrc, DecideLinkSrc, InProgress
<1>12. CASE PeersDst(r)
  <2>1. req[r].pc \in InProgress
    BY <1>12 DEF PeersDst, InProgress
  <2>2. CASE Advance(r, "peers", "decide", {})
    BY <1>1, <1>7, <2>1, <2>2
  <2>3. CASE ~Advance(r, "peers", "decide", {})
    <3>1. PICK s, q : /\ q = [req[r] EXCEPT !.pc = "peers-mark", !.peer = s]
                      /\ Goto(r, q)
      BY <1>12, <2>3 DEF PeersDst
    <3>2. req[r] \in Handling
      BY <2>1, InProgressFacts
    <3>3. q.kept = req[r].kept
      BY <3>1, <3>2 DEF Handling
    <3> QED BY <1>8, <2>1, <3>1, <3>3
  <2> QED BY <2>2, <2>3
<1>13. CASE PeersMark(r) \/ PeersSkip(r)
  BY <1>1, <1>7, <1>13 DEF PeersMark, PeersSkip, InProgress
<1>14. ASSUME req[r].pc \in InProgress, Current(r).kind # "no_permission"
       PROVE  NoticeFree(req[r].kept) /\ NoticeFree(req[r].kept \cup {Current(r)})
  BY <1>14 DEF PassesNoticeFree, NoticeFree
<1>15. CASE DecideService(r)
  <2>1. req[r].pc \in InProgress /\ Current(r).kind = "service_state"
    BY <1>15 DEF DecideService, InProgress
  <2>2. PICK kept \in {req[r].kept, req[r].kept \cup {Current(r)}} :
          Advance(r, "decide", "served", kept)
    BY <1>15 DEF DecideService
  <2> QED BY <1>7, <1>14, <2>1, <2>2
<1>16. CASE DecideLinkDst(r)
  <2>1. req[r].pc \in InProgress /\ Current(r).kind = "service_link_state"
    BY <1>16, LinkEndsJustified DEF DecideLinkDst, InProgress
  <2>2. PICK kept \in {req[r].kept, req[r].kept \cup {Current(r)}} :
          Advance(r, "decide", "served", kept)
    BY <1>16 DEF DecideLinkDst
  <2> QED BY <1>7, <1>14, <2>1, <2>2
<1>17. CASE DecideOther(r)
  <2>1. req[r].pc \in InProgress
    BY <1>17 DEF DecideOther, InProgress
  <2>2. NoticeFree(PureVisible(Current(r), req[r].scope))
    BY <2>1, InProgressFacts, PureVisibleNoticeFree
  <2>3. NoticeFree(req[r].kept \cup PureVisible(Current(r), req[r].scope))
    BY <2>1, <2>2 DEF PassesNoticeFree, NoticeFree
  <2> QED BY <1>7, <1>17, <2>1, <2>3 DEF DecideOther
<1> QED BY <1>2, <1>3, <1>4, <1>5, <1>6, <1>10, <1>11, <1>12, <1>13, <1>15,
           <1>16, <1>17 DEF Handle, Filtering

NoticeOnce(c) ==
  /\ (\E r \in Request : HoldsNotice(r, c)' /\ ~HoldsNotice(r, c)) =>
       ~Marked(c) /\ Marked(c)'
  /\ Marked(c) /\ c \in DOMAIN channels' => Marked(c)'

LEMMA NoticeStep ==
  ASSUME FilterInv, PassesNoticeFree, [FilterNext]_vars
  PROVE  PassesNoticeFree' /\ \A c \in ChannelID : NoticeOnce(c)
<1>1. \A c \in ChannelID : Marked(c) /\ c \in DOMAIN channels' => Marked(c)'
  BY FilterStep, MarkLives DEF FilterInv
<1>2. ASSUME NEW r \in Request, Handle(r)
      PROVE  PassesNoticeFree' /\ \A c \in ChannelID : NoticeOnce(c)
  <2>1. NoticeDue(r) /\ \A p \in Request : p # r => req'[p] = req[p]
    BY <1>2, HandleDue
  <2>2. PassesNoticeFree'
    BY <2>1 DEF PassesNoticeFree, NoticeDue
  <2>3. ASSUME NEW c \in ChannelID, NEW p \in Request,
               HoldsNotice(p, c)', ~HoldsNotice(p, c)
        PROVE  ~Marked(c) /\ Marked(c)'
    <3>1. p = r
      BY <2>1, <2>3 DEF HoldsNotice
    <3> QED BY <2>1, <2>3, <3>1 DEF NoticeDue
  <2> QED BY <1>1, <2>2, <2>3 DEF NoticeOnce
<1>3. ASSUME UNCHANGED req
      PROVE  PassesNoticeFree' /\ \A c \in ChannelID : NoticeOnce(c)
  BY <1>1, <1>3 DEF PassesNoticeFree, NoticeOnce, HoldsNotice
<1> QED BY <1>2, <1>3 DEF FilterNext, Clock, vars, filterVars

(* A channel is told once that its caller sees nothing for as long as it   *)
(* is remembered, however many polls race: MarkEmptyScopeNotified tests    *)
(* and sets the mark under one lock (registry.go:161-184).                 *)
THEOREM ToldOnce == FilterSpec => NoticeOncePerChannel
<1>1. FilterInit => PassesNoticeFree
  BY DEF FilterInit, PassesNoticeFree, Idle, InProgress
<1>2. FilterInv /\ PassesNoticeFree /\ [FilterNext]_vars => PassesNoticeFree'
  BY NoticeStep
<1>3. FilterInv /\ PassesNoticeFree /\ [FilterNext]_vars =>
        [\A c \in ChannelID : NoticeOnce(c)]_vars
  BY NoticeStep
<1>4. FilterSpec => [][\A c \in ChannelID : NoticeOnce(c)]_vars
  BY <1>1, <1>2, <1>3, FilterSafe, PTL DEF FilterSpec
<1> QED BY <1>4 DEF NoticeOncePerChannel, NoticeOnce

=============================================================================
