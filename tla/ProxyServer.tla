---------------------------- MODULE ProxyServer ----------------------------
(***************************************************************************)
(* The life of the process (run of cmd/hubble-authz-proxy/root.go) and of  *)
(* the requests in it (ServeHTTP, filterResponse and the ErrorHandler of   *)
(* internal/proxy/proxy.go around httputil.ReverseProxy).                  *)
(*                                                                         *)
(* Callers come with headers, leave when they like, and share scopes that  *)
(* the authorizer keeps under cacheKey.  The backend may be slow, wrong or *)
(* dead, and a signal may come at any time.  How a body is filtered is     *)
(* ResponseFilter's business, how a scope is resolved RBACAuthorizer's.    *)
(***************************************************************************)
EXTENDS Identity, FiniteSets

CONSTANTS
  Request,    \* the requests of a behaviour
  HeaderSet,  \* what requests carry: [user, email, groups]
  Admin,      \* names that may see everything, users' or groups'
  Grace       \* --shutdown-timeout, in clock ticks

ASSUME ServerAssumption ==
  /\ HeaderSet \subseteq [user: Nat, email: Nat, groups: Seq(Seq(Nat))]
  /\ Grace \in Nat

VARIABLES
  phase,      \* run: "starting", "serving", "draining", "stopping", "exited"
  code,       \* the exit code
  signalled,  \* SIGTERM has come: ctx is cancelled
  graceIn,    \* time left of shutdownCtx
  metrics,    \* the metrics listener: "none", "up", "failed" or "closed"
  scraping,   \* a scrape of the metrics is in flight
  scopes,     \* cacheKey -> the scope the authorizer keeps for it
  reqs        \* each request

serverVars == <<phase, code, signalled, graceIn, metrics, scraping>>
vars == <<serverVars, scopes, reqs>>

Failure == {"unauthenticated", "authz_error", "client_gone", "upstream_error",
            "response_too_large"}
Outcome == Failure \cup {"filtered", "passthrough"}

(* What the backend may send: an error status, a content type, a size or   *)
(* an envelope the filter refuses, or what it should.                      *)
Response == {"error", "alien", "huge", "garbled", "good"}

(* body: what the caller is sent, "raw" if it is the backend's own.  gone: *)
(* the caller has left.                                                    *)
NewRequest ==
  [pc |-> "new", path |-> "api", id |-> NoIdentity, scope |-> "none",
   resp |-> "none", body |-> "none", counted |-> {}, gone |-> FALSE]

InFlight == {r \in Request :
               reqs[r].pc \in {"resolving", "backend", "reading", "copying"}}

(* The connections Shutdown waits for.                                     *)
Open == InFlight \cup {r \in Request : reqs[r].pc = "accepted"}

At(r, pc) == reqs[r].pc = pc

Become(r, q) == reqs' = [reqs EXCEPT ![r] = q] /\ UNCHANGED serverVars

-----------------------------------------------------------------------------
(* External: net/http accepts a connection for a request that may come.    *)
Accept(r) ==
  /\ phase = "serving" /\ At(r, "new")
  /\ Become(r, [reqs[r] EXCEPT !.pc = "accepted"])
  /\ UNCHANGED scopes

(* None comes: the caller, ReadHeaderTimeout or Shutdown closes it.        *)
ConnectionEnds(r) ==
  /\ At(r, "accepted")
  /\ Become(r, [reqs[r] EXCEPT !.pc = "closed"])
  /\ UNCHANGED scopes

(* ServeHTTP up to the authorizer.  Nobody asks who fetches an asset.  On  *)
(* a connection accepted before the drain a request is served during it,   *)
(* too.                                                                    *)
ServeHTTP(r, path, h) ==
  /\ At(r, "accepted")
  /\ LET q == [reqs[r] EXCEPT !.path = path]
         id == From(h)
     IN  Become(r,
           IF path = "asset"
           THEN [q EXCEPT !.pc = "backend", !.counted = {"passthrough"}]
           ELSE IF id = NoIdentity
           THEN [q EXCEPT !.pc = "done", !.counted = {"unauthenticated"},
                          !.body = "401"]
           ELSE [q EXCEPT !.pc = "resolving", !.id = id])
  /\ UNCHANGED scopes

(* External: what the cluster lets a caller see.                           *)
Granted(id) ==
  IF ({userName(id)} \cup Range(id.groups)) \cap Admin # {} THEN "all"
  ELSE "some"

(* AllowedNamespaces answers: with what is kept under the key, by a sweep  *)
(* of its own or one it joined, and then the request is forwarded.  A      *)
(* caller who has left does not stop it.                                   *)
Authorized(r) ==
  /\ At(r, "resolving")
  /\ LET key == cacheKey(reqs[r].id)
         scope == IF key \in DOMAIN scopes THEN scopes[key]
                  ELSE Granted(reqs[r].id)
     IN  /\ scopes' = [k \in DOMAIN scopes \cup {key} |->
                         IF k = key THEN scope ELSE scopes[k]]
         /\ Become(r, [reqs[r] EXCEPT !.pc = "backend", !.scope = scope,
                                      !.counted = @ \cup {"filtered"}])

(* Mutant: that nothing was resolved is kept like a scope.                 *)
AuthzFailsCached(r) ==
  /\ At(r, "resolving")
  /\ Become(r, [reqs[r] EXCEPT !.pc = "done", !.body = "500",
                               !.counted = @ \cup {"authz_error"}])
  /\ scopes' = [k \in DOMAIN scopes \cup {cacheKey(reqs[r].id)} |->
                  IF k \in DOMAIN scopes THEN scopes[k] ELSE "none"]

(* It fails.  Neither authorizer fails because the caller left.            *)
AuthzFails(r) ==
  /\ At(r, "resolving")
  /\ Become(r, [reqs[r] EXCEPT !.pc = "done", !.body = "500",
                               !.counted = @ \cup {"authz_error"}])
  /\ UNCHANGED scopes

(* Entries expire, and are evicted.                                        *)
ForgetScope(key) ==
  /\ scopes' = [k \in DOMAIN scopes \ {key} |-> scopes[k]]
  /\ UNCHANGED <<serverVars, reqs>>

(* Mutant: nothing is returned after a client's leaving is counted.        *)
HandledTwice(q, err) ==
  CASE err = "canceled" ->
         [q EXCEPT !.pc = "done", !.body = "502",
                   !.counted = @ \cup {"client_gone", "upstream_error"}]
    [] err = "too_large" ->
         [q EXCEPT !.pc = "done", !.body = "502",
                   !.counted = @ \cup {"response_too_large"}]
    [] OTHER -> [q EXCEPT !.pc = "done", !.body = "502",
                          !.counted = @ \cup {"upstream_error"}]

(* ErrorHandler: q as it leaves it.                                        *)
Handled(q, err) ==
  CASE err = "canceled" ->
         [q EXCEPT !.pc = "done", !.counted = @ \cup {"client_gone"}]
    [] err = "too_large" ->
         [q EXCEPT !.pc = "done", !.body = "502",
                   !.counted = @ \cup {"response_too_large"}]
    [] OTHER -> [q EXCEPT !.pc = "done", !.body = "502",
                          !.counted = @ \cup {"upstream_error"}]

(* The transport or the reading of a body fails.  A caller's leaving       *)
(* cancels the request's context, and with it both.                        *)
BackendFails(r) ==
  /\ At(r, "backend") \/ At(r, "reading")
  /\ \E err \in {"upstream"} \cup (IF reqs[r].gone THEN {"canceled"} ELSE {}) :
       Become(r, Handled(reqs[r], err))
  /\ UNCHANGED scopes

(* filterResponse until it reads the body.  An error is relayed as it is.  *)
filterResponse(q, resp) ==
  IF q.path = "asset" \/ q.scope = "all" \/ resp = "error"
  THEN [q EXCEPT !.pc = "copying", !.resp = resp, !.body = "raw"]
  ELSE IF resp = "alien" THEN Handled(q, "content type")
  ELSE [q EXCEPT !.pc = "reading", !.resp = resp]

BackendAnswers(r, resp) ==
  /\ At(r, "backend")
  /\ Become(r, filterResponse(reqs[r], resp))
  /\ UNCHANGED scopes

(* filterResponse from there on.                                           *)
Filtered(q) ==
  CASE q.resp = "huge" -> Handled(q, "too_large")
    [] q.resp = "garbled" -> Handled(q, "decode")
    [] OTHER -> [q EXCEPT !.pc = "copying", !.body = "filtered"]

BodyRead(r) ==
  /\ At(r, "reading")
  /\ Become(r, Filtered(reqs[r]))
  /\ UNCHANGED scopes

(* ReverseProxy copies the body ...                                        *)
Copied(r) ==
  /\ At(r, "copying")
  /\ Become(r, [reqs[r] EXCEPT !.pc = "done"])
  /\ UNCHANGED scopes

(* ... or part of it: the caller has left, or the backend's body breaks    *)
(* off.  It panics with ErrAbortHandler, past the ErrorHandler.            *)
CopyFails(r) ==
  /\ At(r, "copying")
  /\ reqs[r].gone \/ reqs[r].body = "raw"
  /\ Become(r, [reqs[r] EXCEPT !.pc = IF reqs[r].gone THEN "aborted"
                                      ELSE "truncated"])
  /\ UNCHANGED scopes

(* External.  *)
ClientLeaves(r) ==
  /\ r \in InFlight /\ ~reqs[r].gone
  /\ Become(r, [reqs[r] EXCEPT !.gone = TRUE])
  /\ UNCHANGED scopes

-----------------------------------------------------------------------------
Exit(c) ==
  /\ phase' = "exited" /\ code' = c
  /\ reqs' = [r \in Request |->
       IF r \in Open THEN [reqs[r] EXCEPT !.pc = "killed"] ELSE reqs[r]]

(* run until the listeners are up.                                         *)
Start ==
  /\ phase = "starting"
  /\ phase' = "serving"
  /\ UNCHANGED <<code, signalled, graceIn, metrics, scraping, scopes, reqs>>

(* A bad --backend or --authz, or the authorizer cannot start.             *)
StartFails ==
  /\ phase = "starting"
  /\ Exit(1)
  /\ UNCHANGED <<signalled, graceIn, metrics, scraping, scopes>>

(* The metrics listener stops on its own, which is only logged.            *)
MetricsFail ==
  /\ phase # "exited" /\ metrics = "up"
  /\ metrics' = "failed"
  /\ UNCHANGED <<phase, code, signalled, graceIn, scraping, scopes, reqs>>

(* External: somebody reads the metrics ...                                *)
Scrape ==
  /\ phase \notin {"starting", "exited"} /\ metrics = "up" /\ ~scraping
  /\ scraping' = TRUE
  /\ UNCHANGED <<phase, code, signalled, graceIn, metrics, scopes, reqs>>

(* ... and has read them.                                                  *)
ScrapeEnds ==
  /\ phase # "exited" /\ scraping
  /\ scraping' = FALSE
  /\ UNCHANGED <<phase, code, signalled, graceIn, metrics, scopes, reqs>>

(* ListenAndServe returns an error.                                        *)
ServeFails ==
  /\ phase = "serving"
  /\ Exit(1)
  /\ UNCHANGED <<signalled, graceIn, metrics, scraping, scopes>>

(* External.  Another signal changes nothing: ctx is cancelled already.    *)
Signal ==
  /\ phase # "exited" /\ ~signalled
  /\ signalled' = TRUE
  /\ UNCHANGED <<phase, code, graceIn, metrics, scraping, scopes, reqs>>

(* Mutant: the metrics listener is shut down first.                        *)
DrainMetricsToo ==
  /\ phase = "serving" /\ signalled
  /\ phase' = "draining" /\ graceIn' = Grace
  /\ metrics' = IF metrics = "up" THEN "closed" ELSE metrics
  /\ UNCHANGED <<code, signalled, scraping, scopes, reqs>>

(* srv.Shutdown closes the listener.                                       *)
Drain ==
  /\ phase = "serving" /\ signalled
  /\ phase' = "draining" /\ graceIn' = Grace
  /\ UNCHANGED <<code, signalled, metrics, scraping, scopes, reqs>>

(* Mutant: Shutdown has no deadline.                                       *)
DrainedFully ==
  /\ phase = "draining"
  /\ Open = {}
  /\ phase' = "stopping"
  /\ UNCHANGED <<code, signalled, graceIn, metrics, scraping, scopes, reqs>>

(* Mutant: Shutdown does not wait.                                         *)
DrainedAtOnce ==
  /\ phase = "draining"
  /\ phase' = "stopping"
  /\ UNCHANGED <<code, signalled, graceIn, metrics, scraping, scopes, reqs>>

(* It returns when nothing is open, or when shutdownCtx is done.           *)
Drained ==
  /\ phase = "draining"
  /\ Open = {} \/ graceIn = 0
  /\ phase' = "stopping"
  /\ UNCHANGED <<code, signalled, graceIn, metrics, scraping, scopes, reqs>>

(* metricsSrv.Shutdown closes the other listener ...                       *)
StopMetrics ==
  /\ phase = "stopping" /\ metrics = "up"
  /\ metrics' = "closed"
  /\ UNCHANGED <<phase, code, signalled, graceIn, scraping, scopes, reqs>>

(* ... and waits for a scrape with what is left of the same time.          *)
Return ==
  /\ phase = "stopping" /\ metrics # "up"
  /\ scraping => graceIn = 0
  /\ Exit(0)
  /\ UNCHANGED <<signalled, graceIn, metrics, scraping, scopes>>

Tick ==
  /\ phase \in {"draining", "stopping"} /\ graceIn > 0
  /\ graceIn' = graceIn - 1
  /\ UNCHANGED <<phase, code, signalled, metrics, scraping, scopes, reqs>>

-----------------------------------------------------------------------------
Init ==
  /\ phase = "starting" /\ code = 0 /\ signalled = FALSE /\ graceIn = 0
  /\ metrics \in {"none", "up"}      \* none: --metrics-listen is empty
  /\ scraping = FALSE
  /\ scopes = [k \in {} |-> "none"]
  /\ reqs = [r \in Request |-> NewRequest]

Serving(r) ==
  /\ phase # "exited"
  /\ \/ Accept(r) \/ ConnectionEnds(r)
     \/ \E path \in {"api", "asset"}, h \in HeaderSet : ServeHTTP(r, path, h)
     \/ Authorized(r) \/ AuthzFails(r)
     \/ \E resp \in Response : BackendAnswers(r, resp)
     \/ BackendFails(r) \/ BodyRead(r)
     \/ Copied(r) \/ CopyFails(r)
     \/ ClientLeaves(r)

Next ==
  \/ \E r \in Request : Serving(r)
  \/ \E key \in DOMAIN scopes : ForgetScope(key)
  \/ Start \/ StartFails \/ MetricsFail \/ ServeFails
  \/ Scrape \/ ScrapeEnds
  \/ Signal \/ Drain \/ Drained \/ StopMetrics \/ Return
  \/ Tick

(* run goes on and time passes.  Neither the backend nor a caller owes     *)
(* anything.                                                               *)
Spec ==
  /\ Init /\ [][Next]_vars
  /\ WF_vars(Start \/ StartFails) /\ WF_vars(Drain) /\ WF_vars(Drained)
  /\ WF_vars(StopMetrics) /\ WF_vars(Return) /\ WF_vars(Tick)

-----------------------------------------------------------------------------
(* What goes out with the backend's status and is no error of the proxy's. *)
Sent == {"raw", "filtered"}

TypeOK ==
  /\ phase \in {"starting", "serving", "draining", "stopping", "exited"}
  /\ code \in {0, 1} /\ signalled \in BOOLEAN /\ graceIn \in 0..Grace
  /\ metrics \in {"none", "up", "failed", "closed"} /\ scraping \in BOOLEAN
  /\ \A k \in DOMAIN scopes : scopes[k] \in {"all", "some"}
  /\ \A r \in Request :
       LET q == reqs[r]
       IN  /\ q.pc \in {"new", "accepted", "closed", "resolving", "backend",
                        "reading", "copying", "done", "aborted", "truncated",
                        "killed"}
           /\ q.counted \subseteq Outcome
           /\ q.pc \in {"reading", "copying"} => q.resp \in Response
           /\ q.pc = "copying" <=> q.body \in Sent /\ r \in InFlight

(***************************************************************************)
(* What the backend sent on an API route reaches a caller unfiltered, in   *)
(* whole or in part, only if that caller may see everything, whoever       *)
(* shares the cache with them.  The one exception is a response whose      *)
(* status is not 200: it is relayed to everyone as it is, on the           *)
(* assumption that "errors carry no flow data" (proxy.go:210-212), which   *)
(* is the backend's to keep (proxy.go:193-242, rbac.go:277-284,            *)
(* identity.go:68-93).                                                     *)
(***************************************************************************)
RawOnlyForAdmins ==
  \A r \in Request :
    LET q == reqs[r]
    IN  q.body = "raw" /\ q.path = "api" /\ q.resp # "error" =>
          Granted(q.id) = "all"

(***************************************************************************)
(* The metrics tell the story of a request: it fails in at most one way; a *)
(* backend's answer that was sent in full is no failure, and what the      *)
(* proxy refused is one; client_gone is about callers who left.  Nothing   *)
(* is said of a response that was sent in part: its failure is not counted *)
(* (proxy.go:101-128, 139-183; README.md:680-688).                         *)
(***************************************************************************)
OutcomesTellTruth ==
  \A r \in Request :
    LET q == reqs[r]
        failures == q.counted \cap Failure
    IN  /\ Cardinality(failures) <= 1
        /\ "client_gone" \in failures => q.gone
        /\ q.pc = "done" => (failures = {} <=> q.body \in Sent)
        /\ Cardinality(q.counted \ Failure) <= 1

(***************************************************************************)
(* "killing them mid-flight surfaces as errors in the browser during every *)
(* rollout" (root.go:111-114): a request, or a scrape of the metrics, dies *)
(* with the process only if the grace period is used up or the listener    *)
(* failed, even if it arrived during the drain.                            *)
(***************************************************************************)
DrainSparesRequests ==
  [][/\ phase # "exited" /\ phase' = "exited"
     /\ InFlight # {} \/ scraping
     => graceIn = 0 \/ code' = 1]_vars

(***************************************************************************)
(* The drain is observable: the metrics listener, unless it failed, is     *)
(* there as long as a request is and its time is not up                    *)
(* (root.go:199-210).                                                      *)
(***************************************************************************)
MetricsOutliveRequests ==
  metrics = "closed" => InFlight = {} \/ graceIn = 0

(***************************************************************************)
(* After a signal the process exits, whether or not the backend answers,   *)
(* the callers leave and the scrapes end (root.go:199-213).                *)
(***************************************************************************)
SignalEndsProcess == signalled ~> phase = "exited"
=============================================================================
