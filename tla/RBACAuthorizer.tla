--------------------------- MODULE RBACAuthorizer ---------------------------
(***************************************************************************)
(* The RBAC authorizer of internal/authz/rbac/rbac.go: scopes resolved by  *)
(* SubjectAccessReviews, cached per identity, concurrent misses collapsed  *)
(* by singleflight.                                                        *)
(*                                                                         *)
(* A resolution is a long sequence of API calls during which grants come   *)
(* and go.  The history variable lag says, for each question the API       *)
(* server is asked and each answer, how many ticks ago that answer was     *)
(* last the right one; what a caller is told is judged against it.         *)
(*                                                                         *)
(* Time is relative: cache entries, resolutions and the sweeper's ticker   *)
(* each count down.  The clock waits for what takes no time of its own: a  *)
(* timer that is due, a result on its way from store to the waiters.       *)
(***************************************************************************)
EXTENDS Integers, FiniteSets

CONSTANTS
  Identity,       \* callers' identities, up to the order of their groups
  Namespace,      \* names of namespaces
  NamespaceAll,   \* "", the cluster-scoped question
  All,            \* Scope{All: true}
  Caller,         \* handler goroutines
  TTL,            \* --rbac-ttl, in clock ticks
  MaxCache        \* maxCache

Question == Namespace \cup {NamespaceAll}
Scope == {All} \cup SUBSET Namespace

ASSUME RBACAssumption ==
  /\ NamespaceAll \notin Namespace
  /\ \A scope \in SUBSET Namespace : scope # All
  /\ TTL \in Nat \ {0}            \* time.NewTicker panics on 0
  /\ MaxCache \in Nat \ {0}
  /\ IsFiniteSet(Identity)

VARIABLES
  may,        \* cluster RBAC: where each identity may list pods
  namespaces, \* the namespaces there are
  lag,        \* history: ticks since each answer was last right, up to 2 TTL
  cache,      \* identity -> its entry, for the identities that have one
  evictIn,    \* ticks until RunSweeper's ticker fires
  flights,    \* singleflight: identity -> the resolution in progress
  callers     \* where each AllowedNamespaces call is

clusterVars == <<may, namespaces, lag>>
vars == <<may, namespaces, lag, cache, evictIn, flights, callers>>

(* left: expires - now.  *)
Entry == [scope: Scope, left: Int]

(* todo: namespaces still to be reviewed.  left: time to sweepCtx's        *)
(* deadline.                                                               *)
Flight ==
  [phase: {"recheck", "probe", "list", "sweep", "done", "failed"},
   scope: Scope, todo: SUBSET Namespace, left: 0..TTL]

CallState ==
  [pc: {"idle"}]
    \cup [pc: {"missed", "waiting", "failed"}, id: Identity]
    \cup [pc: {"answered"}, id: Identity, scope: Scope]

Put(f, x, v) == [y \in DOMAIN f \cup {x} |-> IF y = x THEN v ELSE f[y]]
Restricted(f, S) == [x \in S |-> f[x]]

-----------------------------------------------------------------------------
(* External: what a SubjectAccessReview answers.  A cluster-wide grant     *)
(* covers every namespace.                                                 *)
CanListPods(grants, id, q) ==
  q \in grants[id] \/ NamespaceAll \in grants[id]

(* No is right, too, of a namespace that does not exist.                   *)
Right(grants, existing, id, q, b) ==
  \/ b = CanListPods(grants, id, q)
  \/ ~b /\ q \in Namespace \ existing

(* The history once the cluster is this: what is right now is not late.    *)
Relag(grants, existing) ==
  [id \in Identity |-> [q \in Question |-> [b \in BOOLEAN |->
     IF Right(grants, existing, id, q, b) THEN 0 ELSE lag[id][q][b]]]]

(* External: an administrator changes what some identities may do, where   *)
(* there is a namespace or everywhere.  One binding may name a group.      *)
ChangeGrants ==
  \E grants \in [Identity -> SUBSET (namespaces \cup {NamespaceAll})] :
    /\ grants # may
    /\ may' = grants
    /\ lag' = Relag(grants, namespaces)
    /\ UNCHANGED <<namespaces, cache, evictIn, flights, callers>>

(* External: a namespace is created, or goes after the bindings in it.     *)
ChangeNamespace(n) ==
  /\ \A id \in Identity : n \notin may[id]
  /\ namespaces' = IF n \in namespaces THEN namespaces \ {n}
                   ELSE namespaces \cup {n}
  /\ lag' = Relag(may, namespaces')
  /\ UNCHANGED <<may, cache, evictIn, flights, callers>>

-----------------------------------------------------------------------------
(* Mutant: an entry still counts at the instant it expires.                *)
ValidAtExpiry(id) == id \in DOMAIN cache /\ cache[id].left >= 0

Valid(id) == id \in DOMAIN cache /\ cache[id].left > 0

ValidKeys == {id \in DOMAIN cache : cache[id].left > 0}

(* AllowedNamespaces: a hit answers at once, a miss goes on to group.Do.   *)
AllowedNamespaces(k, id) ==
  /\ callers[k].pc = "idle"
  /\ callers' = [callers EXCEPT ![k] =
       IF Valid(id)
       THEN [pc |-> "answered", id |-> id, scope |-> cache[id].scope]
       ELSE [pc |-> "missed", id |-> id]]
  /\ UNCHANGED <<clusterVars, cache, evictIn, flights>>

(* group.Do: join the flight of this key, or start it.  The cache may have *)
(* been filled since the miss.                                             *)
Do(k) ==
  /\ callers[k].pc = "missed"
  /\ LET id == callers[k].id
     IN  /\ callers' = [callers EXCEPT ![k] = [pc |-> "waiting", id |-> id]]
         /\ flights' =
              IF id \in DOMAIN flights
              THEN flights
              ELSE Put(flights, id, [phase |-> "recheck", scope |-> {},
                                     todo |-> {}, left |-> TTL])
  /\ UNCHANGED <<clusterVars, cache, evictIn>>

Fly(id, f) == flights' = [flights EXCEPT ![id] = f]

InPhase(id, phase) == id \in DOMAIN flights /\ flights[id].phase = phase

Resolving(id) == \E phase \in {"probe", "list", "sweep"} : InPhase(id, phase)

(* Mutant: the flight trusts the miss that led to it.                      *)
RecheckNothing(id) ==
  /\ InPhase(id, "recheck")
  /\ Fly(id, [flights[id] EXCEPT !.phase = "probe", !.left = TTL])
  /\ UNCHANGED <<clusterVars, cache, evictIn, callers>>

(* The re-check inside the flight; then sweepCtx's time starts.            *)
Recheck(id) ==
  /\ InPhase(id, "recheck")
  /\ Fly(id, IF Valid(id)
             THEN [flights[id] EXCEPT !.phase = "done",
                                      !.scope = cache[id].scope]
             ELSE [flights[id] EXCEPT !.phase = "probe", !.left = TTL])
  /\ UNCHANGED <<clusterVars, cache, evictIn, callers>>

(* Mutant: a cluster-wide yes does not end the resolution.                 *)
ProbeAndGoOn(id) ==
  /\ InPhase(id, "probe")
  /\ Fly(id, [flights[id] EXCEPT
                !.phase = "list",
                !.scope = IF CanListPods(may, id, NamespaceAll) THEN All
                          ELSE @])
  /\ UNCHANGED <<clusterVars, cache, evictIn, callers>>

(* resolve: the cluster-scoped review ...                                  *)
Probe(id) ==
  /\ InPhase(id, "probe")
  /\ Fly(id, IF CanListPods(may, id, NamespaceAll)
             THEN [flights[id] EXCEPT !.phase = "sweep", !.scope = All]
             ELSE [flights[id] EXCEPT !.phase = "list"])
  /\ UNCHANGED <<clusterVars, cache, evictIn, callers>>

(* ... and after a no, the namespace list.  The cluster may have changed.  *)
List(id) ==
  /\ InPhase(id, "list")
  /\ Fly(id, [flights[id] EXCEPT !.phase = "sweep", !.todo = namespaces])
  /\ UNCHANGED <<clusterVars, cache, evictIn, callers>>

(* One of the parallel reviews is answered.                                *)
Review(id, n) ==
  /\ InPhase(id, "sweep")
  /\ n \in flights[id].todo
  /\ Fly(id, [flights[id] EXCEPT
                !.todo = @ \ {n},
                !.scope = IF CanListPods(may, id, n) THEN @ \cup {n} ELSE @])
  /\ UNCHANGED <<clusterVars, cache, evictIn, callers>>

(* Mutant: a resolution that fails answers with what it has.               *)
FailWithPartial(id) ==
  /\ Resolving(id)
  /\ Fly(id, [flights[id] EXCEPT !.phase = "done"])
  /\ UNCHANGED <<clusterVars, cache, evictIn, callers>>

(* Mutant: the sweep has no deadline.                                      *)
FailInTime(id) ==
  /\ Resolving(id)
  /\ flights[id].left > 0
  /\ Fly(id, [flights[id] EXCEPT !.phase = "failed"])
  /\ UNCHANGED <<clusterVars, cache, evictIn, callers>>

(* A review or the list fails, or sweepCtx's deadline passes: the whole    *)
(* resolution fails and nothing is stored.                                 *)
Fail(id) ==
  /\ Resolving(id)
  /\ Fly(id, [flights[id] EXCEPT !.phase = "failed"])
  /\ UNCHANGED <<clusterVars, cache, evictIn, callers>>

(* Mutant: only expired entries make room.                                 *)
MakeRoomExpired ==
  IF Cardinality(DOMAIN cache) < MaxCache THEN {DOMAIN cache} ELSE {ValidKeys}

(* The sets of keys store may leave in the cache before it adds one.       *)
MakeRoom ==
  IF Cardinality(DOMAIN cache) < MaxCache
  THEN {DOMAIN cache}
  ELSE IF Cardinality(ValidKeys) < MaxCache
  THEN {ValidKeys}
  ELSE {kept \in SUBSET ValidKeys : Cardinality(kept) = MaxCache - 1}

(* Mutant: an entry outlives its TTL by a tick.                            *)
StoreLonger(id) ==
  /\ InPhase(id, "sweep")
  /\ flights[id].todo = {}
  /\ \E kept \in MakeRoom :
       cache' = Put(Restricted(cache, kept), id,
                    [scope |-> flights[id].scope, left |-> TTL + 1])
  /\ Fly(id, [flights[id] EXCEPT !.phase = "done"])
  /\ UNCHANGED <<clusterVars, evictIn, callers>>

(* Every review answered: store under the lock.  The deadline may fall     *)
(* between the last answer and here; resolve has returned by then.         *)
Store(id) ==
  /\ InPhase(id, "sweep")
  /\ flights[id].todo = {}
  /\ \E kept \in MakeRoom :
       cache' = Put(Restricted(cache, kept), id,
                    [scope |-> flights[id].scope, left |-> TTL])
  /\ Fly(id, [flights[id] EXCEPT !.phase = "done"])
  /\ UNCHANGED <<clusterVars, evictIn, callers>>

(* group.Do returns, to the leader and to everybody who joined.            *)
Land(id) ==
  /\ InPhase(id, "done") \/ InPhase(id, "failed")
  /\ flights' = Restricted(flights, DOMAIN flights \ {id})
  /\ callers' = [k \in Caller |->
       IF callers[k].pc = "waiting" /\ callers[k].id = id
       THEN IF flights[id].phase = "done"
            THEN [pc |-> "answered", id |-> id, scope |-> flights[id].scope]
            ELSE [pc |-> "failed", id |-> id]
       ELSE callers[k]]
  /\ UNCHANGED <<clusterVars, cache, evictIn>>

(* The handler has used the answer and is done.                            *)
Finish(k) ==
  /\ callers[k].pc \in {"answered", "failed"}
  /\ callers' = [callers EXCEPT ![k] = [pc |-> "idle"]]
  /\ UNCHANGED <<clusterVars, cache, evictIn, flights>>

(* Mutant: the sweeper drops nothing.                                      *)
EvictNothing ==
  /\ evictIn = 0
  /\ evictIn' = TTL
  /\ UNCHANGED <<clusterVars, cache, flights, callers>>

(* RunSweeper.  *)
Evict ==
  /\ evictIn = 0
  /\ cache' = Restricted(cache, ValidKeys)
  /\ evictIn' = TTL
  /\ UNCHANGED <<clusterVars, flights, callers>>

(* RunWatch's handlers drop entries too.  Which ones is RBACWatch's        *)
(* concern; here it may be any.                                            *)
Invalidate(ids) ==
  /\ cache' = Restricted(cache, DOMAIN cache \ ids)
  /\ UNCHANGED <<clusterVars, evictIn, flights, callers>>

(* Nothing that takes no time is pending.  *)
ClockMayMove ==
  /\ evictIn > 0
  /\ \A id \in DOMAIN flights : Resolving(id) /\ flights[id].left > 0

Tick ==
  /\ ClockMayMove
  /\ evictIn' = evictIn - 1
  /\ cache' = [id \in DOMAIN cache |-> [cache[id] EXCEPT !.left = @ - 1]]
  /\ flights' = [id \in DOMAIN flights |->
                   [flights[id] EXCEPT !.left = @ - 1]]
  /\ lag' = [id \in Identity |-> [q \in Question |-> [b \in BOOLEAN |->
               IF Right(may, namespaces, id, q, b) THEN 0
               ELSE IF lag[id][q][b] < 2 * TTL THEN lag[id][q][b] + 1
               ELSE 2 * TTL]]]
  /\ UNCHANGED <<may, namespaces, callers>>

-----------------------------------------------------------------------------
Init ==
  /\ namespaces \in SUBSET Namespace
  /\ may \in [Identity -> SUBSET (namespaces \cup {NamespaceAll})]
  /\ lag = [id \in Identity |-> [q \in Question |-> [b \in BOOLEAN |->
              IF Right(may, namespaces, id, q, b) THEN 0 ELSE 2 * TTL]]]
  /\ cache = [id \in {} |-> 0]
  /\ evictIn = TTL
  /\ flights = [id \in {} |-> 0]
  /\ callers = [k \in Caller |-> [pc |-> "idle"]]

Next ==
  \/ \E id \in Identity :
       \/ \E k \in Caller : AllowedNamespaces(k, id)
       \/ Recheck(id) \/ Probe(id) \/ List(id)
       \/ Fail(id) \/ Store(id) \/ Land(id)
       \/ \E n \in Namespace : Review(id, n)
  \/ \E k \in Caller : Do(k) \/ Finish(k)
  \/ \E ids \in SUBSET Identity : Invalidate(ids)
  \/ ChangeGrants \/ \E n \in Namespace : ChangeNamespace(n)
  \/ Evict
  \/ Tick

Spec == Init /\ [][Next]_vars

(* Goroutines and timers go on, and time passes however busy they are (an  *)
(* instant with work to do in it comes and goes: strong fairness).  The    *)
(* API server owes no answer: a resolution it ignores fails at its         *)
(* deadline.                                                               *)
Deadline(id) == Resolving(id) /\ flights[id].left = 0 /\ Fail(id)

FairSpec ==
  /\ Spec
  /\ SF_vars(Tick) /\ WF_vars(Evict)
  /\ \A k \in Caller : WF_vars(Do(k))
  /\ \A id \in Identity :
       WF_vars(Recheck(id)) /\ WF_vars(Land(id)) /\ WF_vars(Deadline(id))

-----------------------------------------------------------------------------
(* Nothing is in scope before it was reviewed.                             *)
FlightShape(f) ==
  /\ f.phase \in {"recheck", "probe", "list"} => f.scope = {} /\ f.todo = {}
  /\ IF f.scope = All THEN f.todo = {} ELSE f.scope \cap f.todo = {}

TypeOK ==
  /\ namespaces \subseteq Namespace
  /\ may \in [Identity -> SUBSET (namespaces \cup {NamespaceAll})]
  /\ lag \in [Identity -> [Question -> [BOOLEAN -> 0..(2 * TTL)]]]
  /\ DOMAIN cache \subseteq Identity
  /\ cache \in [DOMAIN cache -> Entry]
  /\ evictIn \in 0..TTL
  /\ DOMAIN flights \subseteq Identity
  /\ flights \in [DOMAIN flights -> Flight]
  /\ \A id \in DOMAIN flights : FlightShape(flights[id])
  /\ callers \in [Caller -> CallState]

(* Each thing the scope says was right at some moment of the last d ticks. *)
RightWithin(id, scope, d) ==
  IF scope = All
  THEN lag[id][NamespaceAll][TRUE] <= d
  ELSE \A n \in Namespace : lag[id][n][(n \in scope)] <= d

(***************************************************************************)
(* Every answer, from the cache, the re-check or a flight, is made of      *)
(* facts each of which was true less than two TTLs ago: the reviews and    *)
(* the list are at most one TTL old when the sweep ends (its deadline) and *)
(* an entry lives one more.  It bounds how long revoked access is still    *)
(* shown and how long granted access is not, and it fails if a partial     *)
(* sweep is ever stored (rbac.go:124-137, 155-168, 188-193, 218-245).      *)
(***************************************************************************)
AnswersFresh ==
  [][\A k \in Caller :
       callers'[k].pc = "answered" /\ callers[k].pc # "answered" =>
         RightWithin(callers'[k].id, callers'[k].scope, 2 * TTL - 1)]_vars

(* The history variable counts from the present.                           *)
LagCurrent ==
  \A id \in Identity, q \in Question, b \in BOOLEAN :
    Right(may, namespaces, id, q, b) => lag[id][q][b] = 0

(***************************************************************************)
(* The state behind AnswersFresh, which makes it inductive: the age of a   *)
(* fact is bounded by the time its sweep and its entry have used up.       *)
(***************************************************************************)
EntriesFresh ==
  \A id \in DOMAIN cache :
    RightWithin(id, cache[id].scope, 2 * TTL - cache[id].left)

FlightsFresh ==
  \A id \in DOMAIN flights :
    LET f == flights[id]
    IN  /\ f.phase = "sweep" =>
             IF f.scope = All
             THEN lag[id][NamespaceAll][TRUE] <= TTL - f.left
             ELSE \A n \in Namespace \ f.todo :
                    lag[id][n][(n \in f.scope)] <= TTL - f.left
        /\ f.phase = "done" => RightWithin(id, f.scope, 2 * TTL - 1)

(***************************************************************************)
(* "The cache is bounded" (rbac.go:44): never more entries than maxCache,  *)
(* however many identities resolve at once.                                *)
(***************************************************************************)
CacheBounded == Cardinality(DOMAIN cache) <= MaxCache

(***************************************************************************)
(* No sweep of the API server runs for an identity that has a valid entry, *)
(* although callers miss, pause and join at any time: what singleflight    *)
(* and the re-check are there for (rbac.go:120-129).                       *)
(***************************************************************************)
NoSweepWhileCached == \A id \in Identity : ~(Resolving(id) /\ Valid(id))

(***************************************************************************)
(* An entry outlives its expiry by less than one period of the sweeper, so *)
(* idle identities do not pin memory (rbac.go:256-275).                    *)
(***************************************************************************)
ExpiredEntriesEvicted ==
  \A id \in DOMAIN cache : cache[id].left > evictIn - TTL

(***************************************************************************)
(* Every call returns, with an answer or an error, even if the API server  *)
(* never replies and whoever else comes and goes: the flight's deadline    *)
(* frees everyone who joined it (rbac.go:120-131).                         *)
(***************************************************************************)
EveryCallReturns ==
  \A k \in Caller :
    callers[k].pc \in {"missed", "waiting"}
      ~> callers[k].pc \in {"answered", "failed"}
=============================================================================
