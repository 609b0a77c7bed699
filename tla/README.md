# Verification of hubble-authz-proxy

hubble-authz-proxy stands between the Hubble UI's browser code and its backend.
It decides, for every request, which namespaces the caller may see, and removes
everything else from the responses. This directory holds TLA+ models of the
parts of it that keep state or run concurrently, the TLC runs that check them
on small instances, and TLAPS proofs of the properties that matter most for
instances of any size. Paths below are relative to the repository's root.

## 1. The system

| part | state it keeps | operations | who calls it |
|---|---|---|---|
| service registry, `internal/registry/registry.go` | per channel: the namespace of each announced service, the peers, the "was told" mark, last use; a gauge | `Remember`, `RememberPeer`, `MarkEmptyScopeNotified`, `Lookup`, `IsPeer`, `RunSweeper` | every handler goroutine, the sweeper |
| response filter, `internal/proxy/{uifilter,filter}.go` | none of its own; the locals of a response in progress | `filterControlStream`, `filterServiceMapStream` (learn, mark peers, decide), `eventVisible` | the proxy's `ModifyResponse` |
| request pipeline, `internal/proxy/{proxy,envelope}.go` | the request's scope, carried in its context | `ServeHTTP`, `filterResponse`, `errorHandler` | net/http, one goroutine per request |
| RBAC authorizer, `internal/authz/rbac/rbac.go` | cache of scopes with expiry, the singleflight group | `AllowedNamespaces`, `resolve`, `store`, `RunSweeper` | `ServeHTTP` |
| RBAC watch, `internal/authz/rbac/watch.go` | informers and listers over bindings, roles and namespaces | eviction of cached scopes when a grant is seen to change | client-go, the cache |
| static authorizer, `internal/authz/authz.go` | the mapping in force and the hash of its file | `AllowedNamespaces`, `RunReloader`/`reload` | `ServeHTTP`, the reloader |
| identity, `internal/identity/identity.go` | none | reads the caller from request headers | `ServeHTTP` |
| metrics, logging | counters, gauges, the handler | - | everything |
| lifecycle, `cmd/hubble-authz-proxy` | the process: listeners, background goroutines | start-up, drain on SIGTERM | - |

How they interact. `ServeHTTP` reads the identity and asks the authorizer for a
scope; the request, a poll that may last long, is then forwarded with that
scope in its context. When the response arrives, `filterResponse` decodes the
envelope, picks the filter by the route, and the filter consults the registry
for the channel the message names. Registry and authorizers are the only shared
state. Each protects itself with one mutex held for one call, never for a whole
response or resolution. The watch takes the RBAC authorizer's mutex to evict.

What is hard about it:

- a response is filtered by many separate registry calls, between which other
  polls of the same channel, other clients' channels (eviction at
  `--max-channels`) and the sweeper run;
- the scope a response is filtered for is older than the response, and what the
  registry remembers may be older still;
- a resolution is many API calls, in parallel, while grants change, under a
  deadline, shared by everyone who asks meanwhile;
- what the watch hears of the cluster is late, out of order between kinds of
  object and sometimes lost, while sweeps ask the cluster itself;
- the mapping file is written by something else while it is read;
- clients leave at any moment, and what was recorded for them is not undone;
- a signal may come at any point of any request.

What makes each part correct: the registry stays within its cap, forgets what
is abandoned, evicts in LRU order and reports its size truthfully. The filter
serves nothing that the channel's own history does not justify under the
request's scope. An authorizer's answer is a real one and not older than its
bound, a failure is never mistaken for a smaller scope, and every call returns.
With the watch on, a revocation the cache does not know of yet is at least on its
way. A request is answered with what its caller may see or not at all, counted
for what became of it, and spared by the drain, which ends.

`PROJECT.json` lists, under `hazards`, each place in the code where one of these
can go wrong in a way a unit test would hardly reach, with the properties that
cover it.

## 2. The modules

```
ServiceRegistry  <-- ResponseFilter  <-- ClientView
      ^                    ^
ServiceRegistryProofs <-- ResponseFilterProofs

RBACAuthorizer   <-- RBACAuthorizerProofs
      ^ implements         ^ uses          (INSTANCE ... WITH may <- May,
                                             namespaces <- ExistingNamespaces)
RBACWatch        <-- RBACWatchProofs

StaticAuthorizer <-- StaticAuthorizerProofs

Identity         <-- ProxyServer
      ^                    ^
IdentityProofs   <-- ProxyServerProofs
```

An arrow points from a module to one it extends or instantiates. Each module `M`
that is run has an `MCM` beside it, its instance for TLC.

`PROJECT.json`'s `map` gives the source lines of every definition. Names are the
code's where there is one. Operators whose comment begins with "Mutant" are
deliberately wrong variants of the definition that follows them; no
specification uses them, they show that each property can fail.

**ServiceRegistry.** One action per method, because each holds the mutex for its
whole body. `channels` is a function on the tracked channels. Time is kept as
`now - lastSeen`, so no clock has to be bounded. `makeRoomLocked` is the set of
outcomes its loop can have: expired channels go first, then the least recently
seen, and equal times are left to Go's map order. `IsPeer` only reads, `Lookup`
also touches, as in the code. `Sweep` fires when its ticker is due.

**ResponseFilter** composes any number of handlers with the registry. A handler
resolves its scope (`ServeHTTP`), later meets a response, and takes one step per
registry call: `Learn` (pass 1), `PeersSrc`, `PeersDst`, `PeersMark` (pass 1b,
only without `--require-both-endpoints`), `DecideService`, `DecideLinkSrc`,
`DecideLinkDst`, `DecideOther` (pass 2). Events are the protocol's oneof with
only the names that decide visibility. `seen` and `granted` are history: what
was announced on each channel and for which scopes it was filtered. The
properties judge what is served against the history and not against the
registry, which is the thing in doubt.

**ClientView** adds to ResponseFilter what became of a response: delivered, or
lost with its client. The UI accumulates responses, so what it shows is the
union of those delivered.

**RBACAuthorizer.** `may` is the cluster's RBAC and `namespaces` the namespaces
there are; both change at any time, a namespace going only after the bindings in
it. A call hits the cache or misses; after a miss it joins or starts the flight of
its identity (`Do`), which re-checks the cache, asks the cluster-wide question
(`Probe`), lists the namespaces after a no (`List`), reviews each of them in any
order (`Review`), and stores or fails. Each of these calls is a step of its own and
answered from the cluster of its moment. `lag` is history: for each question and
answer, how long ago that answer was last right. Of a namespace that does not
exist, no is right whatever the grants are, since the list leaves it out.

`Invalidate` is what others may do to the cache: drop entries.

**RBACWatch.** Here RBAC is what it is made of: namespaces, roles and bindings
(`objects`), and `May` and `ExistingNamespaces` compute from them what
RBACAuthorizer keeps in `may` and `namespaces`.
`informers` has, for each of the five kinds once its initial list is in, the
changes its handler has not run for, and how many of them the indexer behind the
listers holds already. The steps are a change in the cluster (`ChangeObject`),
the initial list (`InitialList`), a change reaching the indexer (`Deliver`), a
broken watch that lists again and so merges or loses changes (`Relist`), the
handler (`Handle`), and the two ends of the start-up (`Activate`, `GiveUp`, which
is also how the watch ends). `Evicted`, `Bound` and `Matched` are the handlers,
the reverse lookups and `invalidateSubjects`. The authorizer's steps are
RBACAuthorizer's own, through the instance. `trimForWatchCache` shows in what the
handlers may look at: which object it is, what it refers to, its subjects.
`blind` is history: the entries and flights whose correction the code itself
leaves to the TTL (watch.go:39-44), because a sweep straddled the event, nobody
saw it, or a sweep reviewed a namespace that was listed before it was deleted and
whose deletion had been handled since. `Concerns` and `OnItsWay` are about one
entry: the deletion of a namespace concerns a scope that has it. Reading the
listers and evicting is one step: a binding that changes in between has its own
event coming, which evicts on its own.

**Identity.** `From`, `splitGroups`, `cacheKey`, `firstNonEmpty`. Names are
numbers, which can be compared and sorted; 0 is the empty one.

**ProxyServer.** The process (`phase`, the signal, the grace period, the metrics
listener and a scrape of it) and each request in it. A connection is accepted only
while the process serves (`Accept`), but the request on it may come later, during
the drain too (`ServeHTTP`), or never (`ConnectionEnds`). Then come the scope
(`Authorized`, `AuthzFails`), the backend (`BackendAnswers`, `BackendFails`), the
two halves of `filterResponse` around the read of the body, the `ErrorHandler`
(`Handled`), and the copying ReverseProxy does. `body` is what the caller is sent:
`"raw"` is the backend's own, and it is raw for assets, for unrestricted callers,
and for everybody when the backend's status is not 200 (proxy.go:210-212); `resp`
remembers which. A copy that fails leaves part of it sent: the request ends
`"aborted"` if its caller has left, `"truncated"` if the backend's body broke off,
in both cases by a panic that bypasses the `ErrorHandler`. `counted` is what the
request added to `hubble_authz_requests_total`: `filtered` is counted at admission
and a failure in addition to it. `Drained` is the end of `srv.Shutdown`,
`StopMetrics` the start of `metricsSrv.Shutdown` and `Return` its end, which waits
for a scrape with what the first has left of the grace period.

**StaticAuthorizer.** File contents are abstract values with what they parse to.
A reload is two steps, the read and the swap, and the file may change in
between. A lookup is several steps, since it works on the copy it took under the
lock after releasing it.

Abstractions common to all: strings are values with the empty one kept apart
where the code treats it specially; messages are what the filter looks at;
logs and wording are left out, and so are counters except those whose labels the
documentation tells operators to rely on: the registry's gauge, the reload label,
the outcomes of requests.

**Time.** The clock ticks in units of which a TTL is a few. It waits for timers
that are due and for computation that takes no API call: a sweep whose ticker
fired, a reload between read and swap, a result on its way from `store` to the
waiters. This assumes that local computation takes less than a tick, which for
TTLs of minutes it does. API calls and backend polls take any time. Durations
that the properties bound (`2 * TTL`) are where the history counters stop, so
no bound of the model hides a longer one.

## 3. The runs

Twelve runs, all with `tlc -config X.cfg M`.

| run | module | instance | what it shows |
|---|---|---|---|
| `registry` | MCServiceRegistry | 3 channels for 2 places, TTL 2 | cap, gauge, retention below two TTLs, LRU order of live evictions, and that abandoned channels are forgotten |
| `filter_lenient` | MCResponseFilter | 2 concurrent requests, 2 channels for 1 place, scopes `{n1}` and `{}` | under the lenient policy nothing is remembered (`RegistryJustified`) or served (`KeptJustified`) that the channel's history does not justify |
| `filter_strict` | MCResponseFilter | as above, every kind of event on both routes, restricted, empty and unrestricted scopes, services of no namespace, an unknown route | `KeptJustified` under `--require-both-endpoints`; one empty-scope notice for each life of a channel |
| `rbac_fresh` | MCRBACAuthorizer | 1 identity, 2 namespaces, 2 callers, TTL 2 | answers are less than two TTLs stale; no resolution beside a valid entry |
| `rbac_limits` | MCRBACAuthorizer | 2 identities for a cache of 1, 2 callers, TTL 1 | cache bound, eviction of expired entries, every call returns |
| `static` | MCStaticAuthorizer | 2 good files, 1 that does not parse, 2 half-written contents, Interval 2 | edits apply within an interval, failures are reported, no answer mixes mappings |
| `rbac_watch` | MCRBACWatch | 1 identity known by email and one group, 1 namespace, a Role and a ClusterRole of one name with a binding each, 2 initial clusters, 2 changes, TTL 1 | a revocation the cache misses is on its way (`RevocationOnItsWay`); an event evicts only whom it concerns; the composition implements RBACAuthorizer, also if the watch never becomes active or gives up |
| `proxy` | MCProxyServer | 2 requests, 3 sets of headers, every kind of backend response, a scrape, Grace 1 | no body with status 200 reaches a restricted caller unfiltered; outcomes are true; the drain spares requests and scrapes, is observable, and ends |
| `peers_stale`, `dangling_link`, `notice_lost`, `static_torn` | | | each violates one sentence of the documentation; section 5 |

Why these bounds. The registry's interesting cases need one channel more than
the cap, and a time at which some channels have expired, some are live and some
were seen at the same moment: TTL 2 with three channels has them all. The
filter's need two requests that can be in different passes of the same channel,
and a second channel that can evict it in between: one place for two channels
makes every creation an eviction. Responses include links before and without
the services they name, the ordering the two passes exist for. The authorizer's
freshness needs one review before and one after a grant changes (two
namespaces), a caller that misses before and one that joins (two callers), and a
TTL long enough for a change in the middle of a sweep (2); its cap needs more
identities than places. In the static run a mapping that differs from the other
on every caller makes a mixed answer visible. The watch's races need a change, a
second one that could mask it or arrive first, and a sweep between them: two
changes, of which both may be pending. Bindings by user and by group, roles of
one name and two kinds, and a service account named like the user cover the
matching. One informer lists late (`EarlyKinds`), so that calls and changes come
before it. `ClusterRoleBinding` is the one, because what it misses is widest.
Of the two initial clusters one grants everything, so that two changes can take
away, and one next to nothing, so that they can delete a namespace and then grant
it: the case that needs a sweep to outlive a deletion.
The proxy's need two callers of one cache who differ in what their key must
tell apart, one of whom may see everything, a connection that waits at the signal
for its request while the other's is under way, and a grace period that can end
before, between or after the ends of both and of a scrape: one tick does.

Symmetry is used where no liveness property is checked and no constant of the
instance names an element of the set: requests in the filter runs, namespaces
and callers in `rbac_fresh`.

Only `proxy` turns deadlock checking off, because the process exits. Everywhere
else time, callers and the backend always have a next step.

**Fairness.** Safety runs assume none. `IdleChannelsForgotten` assumes that the
clock advances and that `RunSweeper`'s goroutine runs when its ticker fires.
`EveryCallReturns` assumes the same of the authorizer's timers and goroutines,
and strong fairness of the clock: an instant in which some result is on its way
interrupts the clock's being enabled, and time passes nevertheless. Nothing is
assumed of the API server. A review it never answers is ended by the deadline
that `sweepCtx` carries, and that is the property's point. Callers need not
call, nor read their answers. `SignalEndsProcess` assumes that `run`'s goroutine
runs and that the clock advances. Of the backend, of callers and of scrapes it
assumes nothing: a poll that never ends is the case the deadline is for.

**Refinement.** `ImplementsAuthorizer` is `A!Spec`, RBACAuthorizer's
specification with `may` and `namespaces` computed from the objects. A change of
an object is a step of `ChangeGrants` or `ChangeNamespace` or changes neither, a
handler is `Invalidate`, the rest of the watch stutters. So what is proved of RBACAuthorizer holds with the
watch on, whatever it misses: it is, as watch.go:42 says, "a pure latency
optimization".

## 4. The proofs

Checked by `tlapm` in seven modules, for every value of the constants that meets
the named assumptions. Every safety invariant, every action property and the
refinement that the runs check have a theorem; `PROJECT.json` pairs them.

What is assumed of the constants. `RegistryAssumption`, `RBACAssumption`,
`StaticAssumption`: TTLs and intervals are positive, because `time.NewTicker`
panics on 0; the sets that are counted are finite; reserved values are distinct
from ordinary ones. `FilterAssumption`: scopes are sets of namespaces or `All`,
and a message carries on each route the kinds of event the protocol has for it.
`ServerAssumption`: headers are a user, an email and lists of groups, with
numbers for names. `WatchAssumption`: roles and bindings look as Kubernetes makes
them (a Role and a RoleBinding have a namespace, a ClusterRole and its binding
none), the bindings are finitely many, and what RBACAuthorizer assumes.

*ServiceRegistryProofs.* `RegistryInv`, the conjunction of types, cap, gauge and
retention, is inductive as it stands; `RegistrySafe` proves it, and
`RegistryTyped`, `RegistryBounded`, `RegistryGauged`, `RegistryForgets` draw the
single properties from it. The work is in one lemma, `UpsertEffect`: whatever set
`makeRoomLocked` keeps, the channels after the call are kept ones or the new
one, and there are no more than the cap. Every operation that creates a channel
is an instance of it. Retention holds because `idle + sweepIn` does not change
when the clock ticks, and a sweep, the only step that raises `sweepIn`, leaves
nothing idle beyond a TTL. `RegistryEvictsLRU` is about steps: of those only
`makeRoomLocked` drops a channel that has not expired, and each set it may keep
is closed under "seen more recently".

*ResponseFilterProofs.* `FilterInv` is the registry's invariant and, of each
request, what its place in the passes implies. Its events and its scope are in
the history (`RequestGrounded`), the source it looked up was announced on its
channel, the peer it is about to record is one by the history, and everything
kept so far is justified. `KeptJustified` alone is not inductive: between two
registry calls of one response, what the first one returned is in a local, and
the invariant says why it may be relied on although the channel may be gone by
then. `FilterSafe` proves `FilterInv`; `FilterTyped`, `RegistryTruthful` and
`ServedJustified` follow. `FilterUsesRegistry` shows that the composition refines
the registry's own specification, so that `RegistrySafe` and `RegistryEvictsLRU`
hold of the registry in its use. `ToldOnce` is about steps: a notice is put into a
response only where the mark was not set and is, and until the channel is
forgotten nothing takes a mark away.

*RBACAuthorizerProofs.* `AnswersFresh` is an action property, and no state
predicate it mentions is inductive. `RBACInv` adds what is known of facts before
they are answers. `FlightsFresh`: in a sweep, the reviews answered so far are no
older than the time the sweep has used, `TTL - left`. `EntriesFresh`: a cached
scope is no older than a TTL plus the time its entry has used,
`2 * TTL - left`. `LagCurrent` ties the history to the present: what is right
now has no lag, a no of a missing namespace included, which is what a list without
it says. A tick ages the
facts and what they are bounded by alike; a store hands one bound over to the
next, and needs the deadline (`left >= 0`); a hit needs `left > 0`, which is
where `2 * TTL - 1` comes from. `RBACSafe` proves `RBACInv`, and from it follow
`RBACAnswersFresh`, `RBACCacheBounded`, `RBACExpiredEvicted`,
`RBACNoSweepWhileCached`, `RBACTyped`, `RBACEntriesFresh` and `RBACFlightsFresh`.
They are about any sequence of evictions by a watch too: `Invalidate` of any set
of identities is one of the actions.

*RBACWatchProofs.* Three results.

- `WatchImplements`, the refinement, action by action (`StepRefines`). The module
  instantiates RBACAuthorizerProofs with the same `may <- May`, so its theorems
  are there to be used: `WatchedAuthorizerSafe` carries `RBACInv` over, which the
  refinement needs in turn (a change of an object that changes no grant must
  leave `lag` alone), and `WatchedAnswersFresh` carries `AnswersFresh` over. That
  grants are made only where there is a namespace, and that a namespace goes after
  its bindings, is the invariant `Housed` of the cluster's objects.
- `WatchEvictsConcerned`. Whom the lister's version of a binding names, the
  binding names now or a pending change says it did (`ListedNames`), and the
  reverse lookup finds exactly the bindings of the role (`BoundTo`).
- `WatchCorrects`, which is `RevocationOnItsWay`. The invariant `CoverInv` extends
  it to the time before the watch is active but all informers have listed, and
  to sweeps, whose result will be an entry. Two facts carry it. A change takes away
  only what it is on its way for (`ChangeCovers`). And the handler that runs for a
  change evicts everyone for whom no other change is coming (`HandlingCovers`):
  when a role's handler does not find a subject through the lister, the binding's
  own change has not reached the indexer, hence is still pending
  (`ListedOrPending`). For that `WatchTypes` has, besides types, that the last
  change the indexer has not seen is what the object holds now (`Current`).

The first attempt at `WatchCorrects` failed, for a reason that was in the model:
it forgave too little and too much. A sweep may review, under a cluster-wide grant
just made, a namespace from its list that is gone and whose deletion has been
handled; no event corrects that, only the TTL, and the one initial cluster of the
run could not show it. And a change on its way counted for an entry if it
concerned another scope of the same identity. `Sweeping` now blinds the one,
`Concerns` takes the scope, and the run has the second cluster.

*StaticAuthorizerProofs.* `StaticInv` adds to the properties that the mapping in
force is the one its hash stands for (`SumMatches`), that a reload between read
and swap holds the file's content unless the file has changed since
(`ReadCurrent`), and that a call in progress works on a mapping that was in
force during it (`CallsOnOneMapping`). From `StaticSafe` follow
`StaticAppliesEdits`, `StaticFailsLoudly`, `StaticAnswersFromOne` and
`StaticTyped`.

*IdentityProofs.* `KeyTellsCallersApart`: identities that come from headers share
a key only if they have the same names and the same groups. `KeyIgnoresHeaderOrder`
is the converse for reordered groups. Both need that `Sort` sorts, which is an
existence proof (`Exchange` improves a permutation by one place), and that
`splitGroups` returns no empty name, for lists of any length. The library's
induction theorems cannot be used, since they take the property as an operator;
these inductions go over the set of lengths for which the property holds, with
`UpTo`, which rests on the well-foundedness of `<`.

*ProxyServerProofs.* `ServerInv` says what the record of a request implies at each
point of its life (`Story`), that a kept scope is the one granted to everybody with
its key (`ScopesInv`, the place where `KeyTellsCallersApart` is used), and that the
drain ends because no connection is open or its time is up (`DrainInv`). From
`ServerSafe` follow `ServerTyped`, `RawBodiesForAdmins`, `MetricsTellTruth`,
`MetricsOutlive` and, about steps, `DrainSpares`. `RawBodiesForAdmins` is about
responses with status 200. Others are relayed to restricted callers as they came,
because "errors carry no flow data" (proxy.go:211). Whether the backend keeps to
that is an assumption of the code, and the formula excepts it by name.
`MetricsTellTruth` says nothing of a response that was sent in part; section 5 does.

Only model-checked: the liveness properties `IdleChannelsForgotten`,
`EveryCallReturns` and `SignalEndsProcess`, because fairness and ENABLED are outside
what the provers handle; and the four properties of section 5, which do not hold.

## 5. Where the code and its documentation differ

Four have a run that TLC must find violated, with a short counterexample.

- `peers_stale`. A peer is remembered for the life of its channel, whatever
  happens to the scope that made it one. README.md:706-709 says of a scope that
  shrank that responses follow "the caller's current scope". A service of a
  namespace the caller no longer reaches is still shown if it became a peer
  while an earlier, wider scope was in force.
- `dangling_link`. README.md:68-70 says that a foreign service is shown "once
  something inside your scope links to it". That holds within a response. A
  foreign service announced in an earlier response than the first link to it is
  dropped when announced and not shown later, so the link has no node.
- `notice_lost`. A channel is marked as told while its response is still being
  built. If the client leaves before the response is written, it is not told at
  all while the channel lives, which the comment at registry.go:161-167 calls
  "the bug this exists to fix".
- `static_torn`. README.md:396-399: "A half-written file must not become a
  cluster-wide lockout". A torn file that does not parse is kept out. One that is
  empty parses, as an empty mapping, and replaces the last good one until the
  next reload.

A fifth was found while modelling, and has no run of its own.

- Disconnects. README.md:674 says "Client disconnects are classified, not hidden",
  and proxy.go:272-274 that ReverseProxy "surfaces each through ErrorHandler". It
  does while the backend has not answered and while `filterResponse` reads the
  body. A caller who leaves while the answer is being copied makes ReverseProxy
  panic with `http.ErrAbortHandler`, which net/http recovers (`CopyFails`, the
  requests that end `"aborted"`): the `ErrorHandler` is not called, its test for
  that error (proxy.go:284) is never reached this way, and the request stays
  counted as filtered or passed through. The rate of `client_gone` that the README
  tells operators to alert on misses it. `OutcomesTellTruth` therefore says nothing
  of a response that was sent in part.

Also read: README.md:105-107 says that an event of an unknown kind
makes the response a 502. `eventVisible` drops the event and serves the rest, as
the model does. Nothing unvouched for is served either way. README.md:443-445
says that `authz.cacheTTL` is what a longer TTL costs in noticing a revocation;
the bound the code has, and `AnswersFresh` states, is two, since a resolution may
take a TTL and its result lives another. proxy.go:33-35 says that "whatever the
backend sends back is filtered"; a response with a status other than 200 is relayed
as it came, on the assumption that it carries no flow data (proxy.go:210-212).
`RawOnlyForAdmins` states that exception.

## 6. What is not modelled

- `logging`, the chart, the build scripts and flag parsing: no state, or not
  program logic. `PresentIn`, `OtherFamilyIn` and `Expecting` only word a log line.
- The envelope's JSON and protobuf: a response decodes or it does not, and is too
  large or not (`Response` of ProxyServer). Beyond that ResponseFilter has the
  decoded message.
- In `store`, the map order in which one valid entry is evicted is any; in
  `resolve`, the limit on parallel reviews is left out, since answers come in
  any order without it too.
- Resyncs of informers: the period is 0. Aggregated ClusterRoles: the API server
  rewrites them, which is a change like any other.
- The start-up timeout of the watch may pass at any time in the model, since what
  races it (the API server) has no speed of its own.
- At a signal the sweepers, the reloader and the watch stop while requests go on.
  ProxyServer has the requests; that the caches are no longer swept in that time
  shows in no answer, because `Valid` and `makeRoomLocked` look at the times
  themselves. A second signal changes nothing.
- A connection carries one request in the model; a kept-alive one that is idle is
  like one that was just accepted. `Shutdown` closes an idle one at once and a new
  one after a while or not; `ConnectionEnds` may come at any time, or not at all.
- `ServeHTTP` tests an authorizer's error for a caller who left (proxy.go:168-172).
  No error that can come is one: a sweep's context is detached from its caller's,
  and the static authorizer has no errors. `AuthzFails` is the other branch.

## 7. Plan

Done: every component that keeps state or runs concurrently, and a proof of every
property that the runs find to hold and that is no liveness property. What is left:

1. ClientView's steps are ResponseFilter's or leave it alone: with that stated,
   `FilterSafe` holds of what clients are sent.
2. ProxyServer's `scopes` is a cache without time. That RBACAuthorizer, keyed by
   `cacheKey`, implements it while grants do not change would join the two.
