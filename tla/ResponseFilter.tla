--------------------------- MODULE ResponseFilter ---------------------------
(***************************************************************************)
(* What a scoped caller is shown: proxy.filterResponse, filterBody,        *)
(* filterControlStream, filterServiceMapStream and eventVisible            *)
(* (internal/proxy), over the shared ServiceRegistry.                      *)
(*                                                                         *)
(* Many requests are handled at once, each in its own goroutine.  The      *)
(* registry's mutex is taken once per call and not for a whole response,   *)
(* so every step below makes at most one registry call: between two steps  *)
(* of one response another response, a sweep or an eviction may come.      *)
(*                                                                         *)
(* A request's scope is read once, before the request is forwarded to the  *)
(* backend, and used when its response arrives.  The authorizer may answer *)
(* anything at each request: that is the grant changing between requests.  *)
(***************************************************************************)
EXTENDS ServiceRegistry, Sequences

CONSTANTS
  Request,            \* handler goroutines
  All,                \* Scope{All: true}
  Scopes,             \* the scopes the authorizer answers with
  Messages,           \* the responses the backend sends
  RequireBoth,        \* --require-both-endpoints
  NotifyEmptyScope    \* --notify-empty-scope

-----------------------------------------------------------------------------
(* One customprotocol message.  A control-stream body is a oneof: the list *)
(* of namespaces or a notification, here one event.  An empty sequence is  *)
(* an empty body, which is also what a service-map response without events *)
(* is marshalled to.                                                       *)
ServiceState == [kind: {"service_state"}, id: ServiceID, ns: NS]
ServiceLinkState ==
  [kind: {"service_link_state"}, src: ServiceID, dst: ServiceID]
Flow == [kind: {"flow"}, src: NS, dst: NS]
Flows == [kind: {"flows"}, flows: SUBSET (NS \X NS)]
NamespaceState == [kind: {"namespace_state"}, ns: NS]
Namespaces == [kind: {"namespaces"}, names: SUBSET NS]
Notification == [kind: {"notification"}]
NoPermission == [kind: {"no_permission"}]
UnknownEvent == [kind: {"unknown"}]

Event == ServiceState \cup ServiceLinkState \cup Flow \cup Flows
           \cup NamespaceState \cup Namespaces \cup Notification
           \cup NoPermission \cup UnknownEvent

Message ==
  [route: {"control-stream", "service-map-stream", "other"},
   ch: ChannelID,
   events: Seq(Event)]

(* Namespace lists travel on the control stream alone, and "no_permission" *)
(* is the notice the proxy writes: the backend's own are notifications.    *)
ASSUME FilterAssumption ==
  /\ \A scope \in SUBSET NS : scope # All
  /\ Scopes \subseteq {All} \cup SUBSET NS
  /\ Messages \subseteq Message
  /\ \A m \in Messages :
       /\ m.route = "control-stream" /\ m.events # <<>> =>
            /\ Len(m.events) = 1
            /\ m.events[1] \in Namespaces \cup Notification
       /\ m.route # "control-stream" =>
            \A i \in 1..Len(m.events) :
              m.events[i] \notin Namespaces \cup NoPermission
  /\ RequireBoth \in BOOLEAN
  /\ NotifyEmptyScope \in BOOLEAN

VARIABLES
  req,      \* the local state of each handler
  seen,     \* history: <<channel, event>> that service-map passes read
  granted   \* history: <<channel, scope>> those passes filtered for

history == <<seen, granted>>
filterVars == <<req, history>>
vars == <<registryVars, filterVars>>

Idle == [pc |-> "idle"]

(* at: the index of the event the current pass looks at.                   *)
(* src: srcNS, srcKnown.  peer: the argument of the coming RememberPeer.   *)
Handling ==
  [pc: {"learn", "peers", "peers-dst", "peers-mark",
        "decide", "decide-dst", "served"},
   ch: ChannelID,
   scope: {All} \cup SUBSET NS,
   body: Seq(Event),
   at: Nat,
   src: NS \cup {Unknown},
   peer: ServiceID,
   kept: SUBSET Event]

Forwarded == [pc: {"forwarded"}, scope: {All} \cup SUBSET NS]

-----------------------------------------------------------------------------
(* Mutant: --require-both-endpoints is ignored.                            *)
EitherEndVisible(src, dst, allowed) ==
  \E n \in {src, dst} : n # NoNS /\ n \in allowed

(* filter.go: the visibility rule for the two namespaces an item connects. *)
namespacePairVisible(src, dst, allowed) ==
  LET srcOK == src # NoNS /\ src \in allowed
      dstOK == dst # NoNS /\ dst \in allowed
  IN  IF RequireBoth
      THEN /\ src = NoNS \/ src \in allowed
           /\ dst = NoNS \/ dst \in allowed
           /\ srcOK \/ dstOK
      ELSE srcOK \/ dstOK

(* Mutant: every foreign destination of a link becomes a peer.             *)
NewPeersUnscoped(link, src, dst, allowed) ==
  IF src = Unknown \/ dst = Unknown \/ dst \in allowed
  THEN {}
  ELSE {link.dst}

(* Pass 1b, once both ends are known: the ends that become peers.  Exactly *)
(* one end in scope makes the other a peer, so there is at most one.       *)
NewPeers(link, src, dst, allowed) ==
  IF src = Unknown \/ dst = Unknown
  THEN {}
  ELSE {s \in {link.src, link.dst} :
          \/ s = link.dst /\ src \in allowed /\ dst \notin allowed
          \/ s = link.src /\ dst \in allowed /\ src \notin allowed}

(* eventVisible for the kinds that need no registry: what is left of the   *)
(* event, or nothing.  A batch of flows is trimmed to the visible ones.    *)
PureVisible(ev, allowed) ==
  CASE ev.kind = "flow" ->
         {e \in {ev} : namespacePairVisible(e.src, e.dst, allowed)}
    [] ev.kind = "flows" ->
         LET keep == {f \in ev.flows :
                        namespacePairVisible(f[1], f[2], allowed)}
         IN  IF keep = {} THEN {} ELSE {[ev EXCEPT !.flows = keep]}
    [] ev.kind = "namespace_state" -> {e \in {ev} : e.ns \in allowed}
    [] ev.kind = "notification" -> {ev}
    [] OTHER -> {}

-----------------------------------------------------------------------------
FilterInit ==
  /\ RegistryInit
  /\ req = [r \in Request |-> Idle]
  /\ seen = {}
  /\ granted = {}

Goto(r, state) == req' = [req EXCEPT ![r] = state]

(* Mutant: a pass runs one event too far.                                  *)
AdvanceTooFar(r, pass, next, kept) ==
  LET last == req[r].at > Len(req[r].body)
  IN  Goto(r, [req[r] EXCEPT !.pc = IF last THEN next ELSE pass,
                             !.at = IF last THEN 1 ELSE @ + 1,
                             !.kept = kept])

(* The next event of this pass, or the first one of the next pass.         *)
Advance(r, pass, next, kept) ==
  LET last == req[r].at = Len(req[r].body)
  IN  Goto(r, [req[r] EXCEPT !.pc = IF last THEN next ELSE pass,
                             !.at = IF last THEN 1 ELSE @ + 1,
                             !.kept = kept])

Current(r) == req[r].body[req[r].at]

(* ServeHTTP: the scope is resolved, then the request is forwarded.        *)
ServeHTTP(r) ==
  /\ req[r].pc = "idle"
  /\ \E scope \in Scopes : Goto(r, [pc |-> "forwarded", scope |-> scope])
  /\ UNCHANGED <<registryVars, history>>

Served(m, scope, kept) ==
  [pc |-> "served", ch |-> m.ch, scope |-> scope, body |-> m.events, at |-> 1,
   src |-> Unknown, peer |-> NoService, kept |-> kept]

(* A response that is served as it came: the caller is unrestricted, the   *)
(* body is empty, or a control-stream message holds no namespace list.     *)
PassThrough(r) ==
  /\ req[r].pc = "forwarded"
  /\ \E m \in Messages :
       /\ \/ req[r].scope = All
          \/ m.events = <<>>
          \/ /\ m.route = "control-stream"
             /\ m.events[1].kind # "namespaces"
       /\ Goto(r, Served(m, req[r].scope,
                         {m.events[i] : i \in 1..Len(m.events)}))
  /\ UNCHANGED <<registryVars, history>>

(* A namespace list for a scoped caller, or the notice that replaces it.   *)
filterControlStream(r) ==
  /\ req[r].pc = "forwarded"
  /\ req[r].scope # All
  /\ \E m \in Messages :
       /\ m.route = "control-stream"
       /\ m.events # <<>>
       /\ m.events[1].kind = "namespaces"
       /\ LET scope == req[r].scope
              ask == NotifyEmptyScope /\ scope = {}
              picker == [m.events[1] EXCEPT !.names = @ \cap scope]
          IN  /\ Goto(r, Served(m, scope,
                                IF ask /\ NeedsNotice(m.ch)
                                THEN {[kind |-> "no_permission"]}
                                ELSE {picker}))
              /\ IF ask THEN MarkEmptyScopeNotified(m.ch)
                        ELSE UNCHANGED registryVars
  /\ UNCHANGED history

(* filterServiceMapStream begins.                                          *)
filterServiceMapStream(r) ==
  /\ req[r].pc = "forwarded"
  /\ req[r].scope # All
  /\ \E m \in Messages :
       /\ m.route = "service-map-stream"
       /\ m.events # <<>>
       /\ Goto(r, [Served(m, req[r].scope, {}) EXCEPT !.pc = "learn"])
       /\ granted' = granted \cup {<<m.ch, req[r].scope>>}
       /\ seen' = seen \cup {<<m.ch, m.events[i]>> : i \in 1..Len(m.events)}
  /\ UNCHANGED registryVars

(* No response to filter, or none the filter vouches for: an unknown       *)
(* route, a content type, size or encoding that is refused, a backend that *)
(* failed, a client that left during the poll.  The caller gets no body,   *)
(* or the backend's own error page, which is relayed and names nothing.    *)
ErrorHandler(r) ==
  /\ req[r].pc = "forwarded"
  /\ Goto(r, Idle)
  /\ UNCHANGED <<registryVars, history>>

(* Pass 1: every service of the response, forbidden ones too.              *)
Learn(r) ==
  /\ req[r].pc = "learn"
  /\ Advance(r, "learn", IF RequireBoth THEN "decide" ELSE "peers", {})
  /\ IF Current(r).kind = "service_state"
     THEN Remember(req[r].ch, Current(r).id, Current(r).ns)
     ELSE UNCHANGED registryVars
  /\ UNCHANGED history

(* Pass 1b, lenient only: the two Lookups and the RememberPeer of a link.  *)
PeersSrc(r) ==
  /\ req[r].pc = "peers"
  /\ Current(r).kind = "service_link_state"
  /\ Lookup(req[r].ch)
  /\ Goto(r, [req[r] EXCEPT !.pc = "peers-dst",
                            !.src = LookedUp(req[r].ch, Current(r).src)])
  /\ UNCHANGED history

PeersDst(r) ==
  /\ req[r].pc = "peers-dst"
  /\ Lookup(req[r].ch)
  /\ LET link == Current(r)
         new == NewPeers(link, req[r].src, LookedUp(req[r].ch, link.dst),
                         req[r].scope)
     IN  IF new = {}
         THEN Advance(r, "peers", "decide", {})
         ELSE \E s \in new :
                Goto(r, [req[r] EXCEPT !.pc = "peers-mark", !.peer = s])
  /\ UNCHANGED history

PeersMark(r) ==
  /\ req[r].pc = "peers-mark"
  /\ RememberPeer(req[r].ch, req[r].peer)
  /\ Advance(r, "peers", "decide", {})
  /\ UNCHANGED history

PeersSkip(r) ==
  /\ req[r].pc = "peers"
  /\ Current(r).kind # "service_link_state"
  /\ Advance(r, "peers", "decide", {})
  /\ UNCHANGED <<registryVars, history>>

(* Pass 2.  A service is in scope or, under the lenient policy, a peer.    *)
ServiceVisible(c, ev, allowed) ==
  ev.ns \in allowed \/ (~RequireBoth /\ IsPeer(c, ev.id))

DecideService(r) ==
  /\ req[r].pc = "decide"
  /\ Current(r).kind = "service_state"
  /\ Advance(r, "decide", "served",
             IF ServiceVisible(req[r].ch, Current(r), req[r].scope)
             THEN req[r].kept \cup {Current(r)}
             ELSE req[r].kept)
  /\ UNCHANGED <<registryVars, history>>

DecideLinkSrc(r) ==
  /\ req[r].pc = "decide"
  /\ Current(r).kind = "service_link_state"
  /\ Lookup(req[r].ch)
  /\ Goto(r, [req[r] EXCEPT !.pc = "decide-dst",
                            !.src = LookedUp(req[r].ch, Current(r).src)])
  /\ UNCHANGED history

(* Mutant: an unknown endpoint counts as a foreign one.                    *)
LinkVisibleUnknown(src, dst, allowed) ==
  namespacePairVisible(src, dst, allowed)

(* An endpoint never announced on this channel could be anywhere: drop.    *)
LinkVisible(src, dst, allowed) ==
  /\ src # Unknown
  /\ dst # Unknown
  /\ namespacePairVisible(src, dst, allowed)

DecideLinkDst(r) ==
  /\ req[r].pc = "decide-dst"
  /\ Lookup(req[r].ch)
  /\ Advance(r, "decide", "served",
             IF LinkVisible(req[r].src, LookedUp(req[r].ch, Current(r).dst),
                            req[r].scope)
             THEN req[r].kept \cup {Current(r)}
             ELSE req[r].kept)
  /\ UNCHANGED history

DecideOther(r) ==
  /\ req[r].pc = "decide"
  /\ Current(r).kind \notin {"service_state", "service_link_state"}
  /\ Advance(r, "decide", "served",
             req[r].kept \cup PureVisible(Current(r), req[r].scope))
  /\ UNCHANGED <<registryVars, history>>

(* The response leaves the proxy: written to the client, or to nobody when *)
(* the client has left.  Neither undoes what the registry recorded.        *)
Finish(r) ==
  /\ req[r].pc = "served"
  /\ Goto(r, Idle)
  /\ UNCHANGED <<registryVars, history>>

(* One step of a handler before its response leaves the proxy.             *)
Filtering(r) ==
  \/ ServeHTTP(r) \/ PassThrough(r) \/ ErrorHandler(r)
  \/ filterControlStream(r) \/ filterServiceMapStream(r)
  \/ Learn(r)
  \/ PeersSrc(r) \/ PeersDst(r) \/ PeersMark(r) \/ PeersSkip(r)
  \/ DecideService(r) \/ DecideLinkSrc(r) \/ DecideLinkDst(r)
  \/ DecideOther(r)

Handle(r) == Filtering(r) \/ Finish(r)

Clock == (Sweep \/ Tick) /\ UNCHANGED filterVars

FilterNext == (\E r \in Request : Handle(r)) \/ Clock

FilterSpec == FilterInit /\ [][FilterNext]_vars

-----------------------------------------------------------------------------
FilterTypeOK ==
  /\ RegistryTypeOK
  /\ req \in [Request -> {Idle} \cup Forwarded \cup Handling]
  /\ \A r \in Request :
       req[r].pc \notin {"idle", "forwarded", "served"} =>
         /\ req[r].at \in 1..Len(req[r].body)
         /\ req[r].scope # All
  /\ \A r \in Request :
       req[r].pc \in {"peers-dst", "decide-dst"} =>
         Current(r).kind = "service_link_state"
  /\ seen \subseteq ChannelID \X Event
  /\ granted \subseteq ChannelID \X SUBSET NS

(* What a channel's history says, independently of the registry.           *)
Announced(c, s, n) ==
  <<c, [kind |-> "service_state", id |-> s, ns |-> n]>> \in seen

Linked(c, s, t) ==
  <<c, [kind |-> "service_link_state", src |-> s, dst |-> t]>> \in seen

(* s is one end of a link whose other end lies in the given scope.         *)
PeerUnder(c, s, scope) ==
  \E t \in ServiceID, n \in NS :
    /\ Linked(c, s, t) \/ Linked(c, t, s)
    /\ Announced(c, t, n)
    /\ n \in scope

PeerOnce(c, s) == \E g \in granted : g[1] = c /\ PeerUnder(c, s, g[2])

PairJustified(a, b, scope) ==
  /\ \E n \in {a, b} : n # NoNS /\ n \in scope
  /\ RequireBoth => {a, b} \subseteq scope \cup {NoNS}

Justified(c, scope, ev) ==
  CASE ev.kind = "service_state" ->
         ev.ns \in scope \/ (~RequireBoth /\ PeerOnce(c, ev.id))
    [] ev.kind = "service_link_state" ->
         \E a, b \in NS : /\ Announced(c, ev.src, a)
                          /\ Announced(c, ev.dst, b)
                          /\ PairJustified(a, b, scope)
    [] ev.kind = "flow" -> PairJustified(ev.src, ev.dst, scope)
    [] ev.kind = "flows" ->
         /\ ev.flows # {}
         /\ \A f \in ev.flows : PairJustified(f[1], f[2], scope)
    [] ev.kind = "namespace_state" -> ev.ns \in scope
    [] ev.kind = "namespaces" -> ev.names \subseteq scope
    [] ev.kind = "no_permission" -> scope = {}
    [] ev.kind = "notification" -> TRUE
    [] OTHER -> FALSE

(***************************************************************************)
(* What the registry holds for a channel was said on that channel: "one    *)
(* user's service map never informs another's" (registry.go:25-26), also   *)
(* after the channel was evicted in the middle of a response and created   *)
(* again by a later pass of it.                                            *)
(***************************************************************************)
RegistryJustified ==
  \A c \in DOMAIN channels, s \in ServiceID :
    /\ channels[c].namespaces[s] # Unknown =>
         Announced(c, s, channels[c].namespaces[s])
    /\ s \in channels[c].peers => PeerOnce(c, s)

(***************************************************************************)
(* Whatever the interleaving with other responses, sweeps and evictions, a *)
(* scoped caller is served only events that the announcements made on its  *)
(* own channel justify under the scope its request was resolved to: a link *)
(* only between announced services and by the visibility rule, a foreign   *)
(* service only as the far end of a link into a scope of this channel, and *)
(* neither an unknown endpoint nor, when both ends are required, a foreign *)
(* namespace (uifilter.go:165-306, filter.go:18-28).                       *)
(***************************************************************************)
KeptJustified ==
  \A r \in Request :
    req[r].pc \notin {"idle", "forwarded"} /\ req[r].scope # All =>
      \A ev \in req[r].kept : Justified(req[r].ch, req[r].scope, ev)

HoldsNotice(r, c) ==
  req[r].pc = "served" /\ req[r].ch = c /\ [kind |-> "no_permission"] \in req[r].kept

Marked(c) == c \in DOMAIN channels /\ channels[c].emptyScopeNotified

(***************************************************************************)
(* A channel is told once that its caller sees nothing for as long as it   *)
(* is remembered, however many polls race: no step gives a request the     *)
(* notice for a channel that is marked, the step that gives it marks the   *)
(* channel, and a mark lives as long as its channel (registry.go:161-184;  *)
(* the UI does not deduplicate).                                           *)
(***************************************************************************)
NoticeOncePerChannel ==
  [][\A c \in ChannelID :
       /\ (\E r \in Request : HoldsNotice(r, c)' /\ ~HoldsNotice(r, c)) =>
            ~Marked(c) /\ Marked(c)'
       /\ Marked(c) /\ c \in DOMAIN channels' => Marked(c)']_vars

(***************************************************************************)
(* README.md:706-709 of a session whose scope shrank: "service-map         *)
(* responses are filtered per message against the caller's current scope.  *)
(* Only the list is stale, never the data."  So a foreign service is       *)
(* served only as the peer of something in this request's own scope.       *)
(***************************************************************************)
PeersFollowScope ==
  \A r \in Request :
    req[r].pc \notin {"idle", "forwarded"} /\ req[r].scope # All =>
      \A ev \in req[r].kept :
        ev.kind = "service_state" =>
          ev.ns \in req[r].scope \/ PeerUnder(req[r].ch, ev.id, req[r].scope)

=============================================================================
