-------------------------- MODULE ProxyServerProofs --------------------------
(***************************************************************************)
(* Proofs about ProxyServer: a raw body goes to those who may see it, the  *)
(* metrics tell what happened and a drain spares the requests it can, for  *)
(* any number of requests, any headers and any grace period.               *)
(***************************************************************************)
EXTENDS ProxyServer, IdentityProofs

-----------------------------------------------------------------------------
(* The inductive invariant, in parts.  A request is judged by its record.  *)

Ongoing == {"resolving", "backend", "reading", "copying"}
Held == Ongoing \cup {"accepted"}
Waiting == {"new", "accepted", "closed"}
CutShort == {"aborted", "truncated"}

RequestType ==
  [pc: Ongoing \cup Waiting \cup CutShort \cup {"done", "killed"},
   path: {"api", "asset"},
   id: Identities,
   scope: {"none", "all", "some"},
   resp: Response \cup {"none"},
   body: Sent \cup {"none", "401", "500", "502"},
   counted: SUBSET Outcome,
   gone: BOOLEAN]

(* What is counted of a request that was let through.                      *)
LetThrough == {{"filtered"}, {"passthrough"}}

Story(q) ==
  /\ q.pc \in Waiting \cup {"resolving", "backend", "reading"} =>
       q.body = "none"
  /\ q.pc \in CutShort \cup {"copying"} => q.body \in Sent
  /\ q.pc \in {"reading", "copying"} => q.resp \in Response
  /\ q.pc \in Waiting \cup {"resolving"} => q.counted = {}
  /\ q.pc \in CutShort \cup {"backend", "reading", "copying"} =>
       q.counted \in LetThrough
  /\ q.pc = "killed" => q.counted \in LetThrough \cup {{}}
  /\ q.pc = "done" =>
       \/ q.body \in Sent /\ q.counted \in LetThrough
       \/ /\ q.body \notin Sent
          /\ \E failure \in Failure, before \in LetThrough \cup {{}} :
               /\ q.counted = before \cup {failure}
               /\ failure = "client_gone" => q.gone

(* Once a scope is known it is the caller's own, and only "all" lets a     *)
(* body of an API route pass as it is, unless it is an error's.            *)
OwnScope(q) ==
  /\ q.pc \in Waiting => q.scope = "none"
  /\ q.path = "api" /\ q.scope # "none" => q.scope = Granted(q.id)
  /\ q.path = "api" /\ q.body = "raw" => q.scope = "all" \/ q.resp = "error"

RequestOK(q) == q \in RequestType /\ Story(q) /\ OwnScope(q)

RequestsInv ==
  /\ reqs = [r \in Request |-> reqs[r]]
  /\ \A r \in Request : RequestOK(reqs[r])

(* What is kept under a key is right for everyone who has the key.         *)
ScopesInv ==
  \A k \in DOMAIN scopes :
    /\ scopes[k] \in {"all", "some"}
    /\ \A id \in Identities : cacheKey(id) = k => scopes[k] = Granted(id)

(* Shutdown returned because nothing was left or its time was up, and the  *)
(* metrics listener is closed only after that.                             *)
DrainInv ==
  /\ phase \in {"starting", "serving", "draining", "stopping", "exited"}
  /\ code \in {0, 1} /\ signalled \in BOOLEAN /\ graceIn \in 0..Grace
  /\ metrics \in {"none", "up", "failed", "closed"} /\ scraping \in BOOLEAN
  /\ phase = "stopping" => Open = {} \/ graceIn = 0
  /\ phase = "exited" => Open = {}
  /\ metrics = "closed" => phase \in {"stopping", "exited"}

ServerInv == RequestsInv /\ ScopesInv /\ DrainInv

-----------------------------------------------------------------------------
(* What the invariant says of the properties.                              *)

LEMMA AtMostOne ==
  ASSUME NEW x
  PROVE  Cardinality({x}) <= 1 /\ Cardinality({}) <= 1
<1>1. Cardinality({x}) = 1
  BY FS_Singleton, Zenon
<1>2. Cardinality({}) = 0
  BY FS_EmptySet, Zenon
<1> QED BY <1>1, <1>2

LEMMA StoryIsTrue ==
  ASSUME NEW q, q \in RequestType, Story(q)
  PROVE  LET failures == q.counted \cap Failure
         IN  /\ Cardinality(failures) <= 1
             /\ "client_gone" \in failures => q.gone
             /\ q.pc = "done" => (failures = {} <=> q.body \in Sent)
             /\ Cardinality(q.counted \ Failure) <= 1
<1> DEFINE failures == q.counted \cap Failure
           others == q.counted \ Failure
<1>1. \A s \in LetThrough \cup {{}} :
        /\ s \cap Failure = {}
        /\ s \ Failure = s
        /\ s = {} \/ \E x : s = {x}
  BY DEF LetThrough, Failure
<1>2. CASE q.counted \in LetThrough \cup {{}}
  <2>1. failures = {} /\ (others = {} \/ \E x : others = {x})
    BY <1>1, <1>2
  <2>2. q.pc = "done" => q.body \in Sent
    <3>1. \A failure \in Failure, before \in LetThrough \cup {{}} :
            q.counted # before \cup {failure}
      BY <2>1
    <3> QED BY <3>1 DEF Story
  <2> HIDE DEF failures, others
  <2>3. Cardinality(failures) <= 1 /\ Cardinality(others) <= 1
    BY <2>1, AtMostOne
  <2> QED BY <2>1, <2>2, <2>3 DEF failures, others
<1>3. CASE q.counted \notin LetThrough \cup {{}}
  <2>1. q.pc = "done" /\ q.body \notin Sent
    BY <1>3 DEF Story, RequestType, Ongoing, Waiting, CutShort
  <2>2. PICK failure \in Failure, before \in LetThrough \cup {{}} :
          /\ q.counted = before \cup {failure}
          /\ failure = "client_gone" => q.gone
    BY <2>1 DEF Story
  <2>3. failures = {failure} /\ others = before
    BY <1>1, <2>2
  <2> HIDE DEF failures, others
  <2>4. Cardinality(failures) <= 1 /\ Cardinality(others) <= 1
    BY <1>1, <2>3, AtMostOne
  <2> QED BY <2>1, <2>2, <2>3, <2>4 DEF failures, others
<1> QED BY <1>2, <1>3

LEMMA ServerInvMeaning ==
  ASSUME ServerInv
  PROVE  /\ TypeOK /\ RawOnlyForAdmins /\ OutcomesTellTruth
         /\ MetricsOutliveRequests
<1>1. \A r \in Request :
        reqs[r] \in RequestType /\ Story(reqs[r]) /\ OwnScope(reqs[r])
  BY DEF ServerInv, RequestsInv, RequestOK
<1>2. TypeOK
  <2>1. ASSUME NEW r \in Request
        PROVE  /\ reqs[r].pc \in {"new", "accepted", "closed", "resolving",
                                  "backend", "reading", "copying", "done",
                                  "aborted", "truncated", "killed"}
               /\ reqs[r].counted \subseteq Outcome
               /\ reqs[r].pc \in {"reading", "copying"} =>
                    reqs[r].resp \in Response
               /\ reqs[r].pc = "copying" <=>
                    reqs[r].body \in Sent /\ r \in InFlight
    BY <1>1 DEF RequestType, Ongoing, Waiting, CutShort, Story, Sent, InFlight
  <2> QED BY <2>1 DEF TypeOK, ServerInv, ScopesInv, DrainInv
<1>3. RawOnlyForAdmins
  BY <1>1 DEF RawOnlyForAdmins, OwnScope
<1>4. OutcomesTellTruth
  BY <1>1, StoryIsTrue DEF OutcomesTellTruth
<1>5. MetricsOutliveRequests
  BY DEF ServerInv, DrainInv, MetricsOutliveRequests, Open
<1> QED BY <1>2, <1>3, <1>4, <1>5
-----------------------------------------------------------------------------
(* What a key tells of its callers is all the cluster asks about them.     *)

LEMMA KeyGrants ==
  ASSUME NEW a \in Identities, NEW b \in Identities, cacheKey(a) = cacheKey(b)
  PROVE  Granted(a) = Granted(b)
<1>1. a.user = b.user /\ a.email = b.email /\ Range(a.groups) = Range(b.groups)
  BY KeyTellsCallersApart
<1> QED BY <1>1 DEF Granted, userName

LEMMA GrantedType ==
  ASSUME NEW id
  PROVE  Granted(id) \in {"all", "some"}
BY DEF Granted

(* A step of one request keeps the invariant if the request is left well   *)
(* and no connection is opened to a server that no longer accepts any.     *)
LEMMA BecomeKeeps ==
  ASSUME ServerInv, NEW r \in Request, NEW q, Become(r, q), RequestOK(q),
         ScopesInv', phase # "exited",
         q.pc \in Held => reqs[r].pc \in Held \/ phase = "serving"
  PROVE  ServerInv'
<1>1. /\ reqs' = [t \in Request |-> IF t = r THEN q ELSE reqs[t]]
      /\ UNCHANGED serverVars
  BY DEF ServerInv, RequestsInv, Become
<1>2. RequestsInv'
  BY <1>1 DEF ServerInv, RequestsInv
<1>3. phase # "serving" => Open' \subseteq Open
  BY <1>1 DEF Open, InFlight, Ongoing, Held
<1>4. DrainInv'
  BY <1>1, <1>3 DEF ServerInv, DrainInv, serverVars
<1> QED BY <1>2, <1>4 DEF ServerInv

LEMMA ScopesKept ==
  ASSUME ServerInv, UNCHANGED scopes
  PROVE  ScopesInv'
BY DEF ServerInv, ScopesInv

LEMMA RequestIsOK ==
  ASSUME ServerInv, NEW r \in Request
  PROVE  RequestOK(reqs[r])
BY DEF ServerInv, RequestsInv

-----------------------------------------------------------------------------
(* What each step makes of a request.                                      *)

LEMMA ConnectionOK ==
  ASSUME NEW q, RequestOK(q), NEW pc,
         \/ q.pc = "new" /\ pc = "accepted"
         \/ q.pc = "accepted" /\ pc = "closed"
  PROVE  RequestOK([q EXCEPT !.pc = pc])
BY DEF RequestOK, RequestType, Story, OwnScope, Ongoing, Waiting, CutShort,
   Sent, LetThrough

LEMMA ServedOK ==
  ASSUME NEW q, RequestOK(q), q.pc = "accepted", NEW path \in {"api", "asset"},
         NEW id \in Identities
  PROVE  /\ RequestOK([q EXCEPT !.path = path, !.pc = "done",
                                !.counted = {"unauthenticated"},
                                !.body = "401"])
         /\ RequestOK([q EXCEPT !.path = path, !.pc = "resolving", !.id = id])
         /\ path = "asset" =>
              RequestOK([q EXCEPT !.path = path, !.pc = "backend",
                                  !.counted = {"passthrough"}])
<1>1. {"unauthenticated"} = {} \cup {"unauthenticated"}
  OBVIOUS
<1> QED BY <1>1 DEF RequestOK, RequestType, Story, OwnScope, Ongoing,
               Waiting, CutShort, Sent, LetThrough, Outcome, Failure

LEMMA AuthorizedOK ==
  ASSUME NEW q, RequestOK(q), q.pc = "resolving", NEW scope,
         scope = Granted(q.id)
  PROVE  RequestOK([q EXCEPT !.pc = "backend", !.scope = scope,
                             !.counted = @ \cup {"filtered"}])
BY GrantedType DEF RequestOK, RequestType, Story, OwnScope, Ongoing, Waiting,
   CutShort, Sent, LetThrough, Outcome, Failure

LEMMA FailedOK ==
  ASSUME NEW q, RequestOK(q), q.pc \in {"resolving", "backend", "reading"},
         NEW failure \in Failure, failure = "client_gone" => q.gone,
         NEW body \in {"none", "500", "502"}
  PROVE  RequestOK([q EXCEPT !.pc = "done", !.body = body,
                             !.counted = @ \cup {failure}])
<1>1. q.counted \in LetThrough \cup {{}}
  BY DEF RequestOK, Story
<1>2. PICK counted : counted = q.counted \cup {failure}
  OBVIOUS
<1>3. counted \in SUBSET Outcome
  BY <1>2 DEF RequestOK, RequestType, Outcome
<1>4. PICK t : t = [q EXCEPT !.pc = "done", !.body = body,
                             !.counted = counted]
  OBVIOUS
<1>5. t \in RequestType
  BY <1>3, <1>4 DEF RequestOK, RequestType, Sent
<1>6. /\ t.pc = "done" /\ t.body = body /\ t.counted = counted
      /\ t.gone = q.gone /\ t.path = q.path /\ t.scope = q.scope
      /\ t.id = q.id
  BY <1>4 DEF RequestOK, RequestType
<1>7. body \notin Sent /\ body # "raw"
  BY DEF Sent
<1>8. Story(t)
  BY <1>1, <1>2, <1>6, <1>7 DEF Story, Waiting, CutShort
<1>9. OwnScope(t)
  BY <1>6, <1>7 DEF OwnScope, RequestOK, Waiting
<1> QED BY <1>2, <1>4, <1>5, <1>8, <1>9 DEF RequestOK

LEMMA HandledOK ==
  ASSUME NEW q, RequestOK(q), q.pc \in {"backend", "reading"}, NEW err,
         err = "canceled" => q.gone
  PROVE  RequestOK(Handled(q, err)) /\ Handled(q, err).pc = "done"
<1>1. CASE err = "canceled"
  <2>1. RequestOK([q EXCEPT !.pc = "done", !.body = "none",
                            !.counted = @ \cup {"client_gone"}])
    BY <1>1, FailedOK DEF Failure
  <2>2. [q EXCEPT !.pc = "done", !.body = "none",
                  !.counted = @ \cup {"client_gone"}] =
        [q EXCEPT !.pc = "done", !.counted = @ \cup {"client_gone"}]
    BY DEF RequestOK, RequestType, Story
  <2> QED BY <1>1, <2>1, <2>2 DEF Handled, RequestOK, RequestType
<1>2. CASE err = "too_large"
  <2>1. RequestOK([q EXCEPT !.pc = "done", !.body = "502",
                            !.counted = @ \cup {"response_too_large"}])
    BY FailedOK DEF Failure
  <2> QED BY <1>2, <2>1 DEF Handled, RequestOK, RequestType
<1>3. CASE err # "canceled" /\ err # "too_large"
  <2>1. RequestOK([q EXCEPT !.pc = "done", !.body = "502",
                            !.counted = @ \cup {"upstream_error"}])
    BY FailedOK DEF Failure
  <2> QED BY <1>3, <2>1 DEF Handled, RequestOK, RequestType
<1> QED BY <1>1, <1>2, <1>3

LEMMA AnswerOK ==
  ASSUME NEW q, RequestOK(q), q.pc = "backend", NEW resp \in Response
  PROVE  RequestOK(filterResponse(q, resp))
<1>1. CASE q.path = "asset" \/ q.scope = "all" \/ resp = "error"
  <2>1. RequestOK([q EXCEPT !.pc = "copying", !.resp = resp, !.body = "raw"])
    BY <1>1 DEF RequestOK, RequestType, Story, OwnScope, Ongoing, Waiting,
                CutShort, Sent, LetThrough
  <2> QED BY <1>1, <2>1 DEF filterResponse
<1>2. CASE /\ ~(q.path = "asset" \/ q.scope = "all" \/ resp = "error")
           /\ resp = "alien"
  BY <1>2, HandledOK DEF filterResponse
<1>3. CASE /\ ~(q.path = "asset" \/ q.scope = "all" \/ resp = "error")
           /\ resp # "alien"
  <2>1. RequestOK([q EXCEPT !.pc = "reading", !.resp = resp])
    BY DEF RequestOK, RequestType, Story, OwnScope, Ongoing, Waiting, CutShort,
         Sent, LetThrough
  <2> QED BY <1>3, <2>1 DEF filterResponse
<1> QED BY <1>1, <1>2, <1>3

LEMMA FilteredOK ==
  ASSUME NEW q, RequestOK(q), q.pc = "reading"
  PROVE  RequestOK(Filtered(q))
<1>1. RequestOK([q EXCEPT !.pc = "copying", !.body = "filtered"])
  BY DEF RequestOK, RequestType, Story, OwnScope, Ongoing, Waiting, CutShort,
         Sent, LetThrough
<1> QED BY <1>1, HandledOK DEF Filtered

LEMMA CopiedOK ==
  ASSUME NEW q, RequestOK(q), q.pc = "copying"
  PROVE  \A pc \in CutShort \cup {"done"} : RequestOK([q EXCEPT !.pc = pc])
BY DEF RequestOK, RequestType, Story, OwnScope, Ongoing, Waiting, CutShort,
   Sent, LetThrough

LEMMA GoneOK ==
  ASSUME NEW q, RequestOK(q)
  PROVE  RequestOK([q EXCEPT !.gone = TRUE])
<1>1. PICK t : t = [q EXCEPT !.gone = TRUE]
  OBVIOUS
<1>2. t \in RequestType
  BY <1>1 DEF RequestOK, RequestType
<1>3. /\ t.pc = q.pc /\ t.body = q.body /\ t.counted = q.counted
      /\ t.gone = TRUE /\ t.path = q.path /\ t.scope = q.scope
      /\ t.id = q.id /\ t.resp = q.resp
  BY <1>1 DEF RequestOK, RequestType
<1>4. Story(t)
  BY <1>3 DEF Story, RequestOK
<1>5. OwnScope(t)
  BY <1>3 DEF OwnScope, RequestOK
<1> QED BY <1>1, <1>2, <1>4, <1>5 DEF RequestOK

LEMMA KilledOK ==
  ASSUME NEW q, RequestOK(q), q.pc \in Held
  PROVE  RequestOK([q EXCEPT !.pc = "killed"])
BY DEF Held, RequestOK, RequestType, Story, OwnScope, Ongoing, Waiting,
   CutShort, Sent, LetThrough

-----------------------------------------------------------------------------
(* The steps of a request.                                                 *)

LEMMA ServeHTTPStep ==
  ASSUME ServerInv, NEW r \in Request, NEW path \in {"api", "asset"},
         NEW h \in HeaderSet, ServeHTTP(r, path, h), phase # "exited"
  PROVE  ServerInv'
<1>1. reqs[r].pc = "accepted" /\ reqs[r].pc \in Held /\ ScopesInv'
  BY ScopesKept DEF ServeHTTP, At, Held
<1>2. PICK id \in Identities : id = From(h)
  BY ServerAssumption, FromType
<1>3. PICK q : q = reqs[r] /\ RequestOK(q)
  BY RequestIsOK
<1>4. \/ Become(r, [q EXCEPT !.path = path, !.pc = "done",
                             !.counted = {"unauthenticated"}, !.body = "401"])
      \/ Become(r, [q EXCEPT !.path = path, !.pc = "resolving", !.id = id])
      \/ /\ path = "asset"
         /\ Become(r, [q EXCEPT !.path = path, !.pc = "backend",
                                !.counted = {"passthrough"}])
  BY <1>2, <1>3 DEF ServeHTTP
<1>5. ASSUME NEW p, Become(r, p), RequestOK(p)
      PROVE  ServerInv'
  BY <1>1, <1>5, BecomeKeeps
<1> QED BY <1>1, <1>3, <1>4, <1>5, ServedOK

LEMMA AuthorizedStep ==
  ASSUME ServerInv, NEW r \in Request, Authorized(r), phase # "exited"
  PROVE  ServerInv'
<1>1. PICK q : q = reqs[r] /\ RequestOK(q) /\ q.pc = "resolving"
  BY RequestIsOK DEF Authorized, At
<1>2. PICK key : key = cacheKey(q.id)
  OBVIOUS
<1>3. PICK scope : scope = IF key \in DOMAIN scopes THEN scopes[key]
                           ELSE Granted(q.id)
  OBVIOUS
<1>4. q.id \in Identities
  BY <1>1 DEF RequestOK, RequestType
<1>5. scope = Granted(q.id)
  BY <1>2, <1>3, <1>4 DEF ServerInv, ScopesInv
<1>6. /\ scopes' = [k \in DOMAIN scopes \cup {key} |->
                      IF k = key THEN scope ELSE scopes[k]]
      /\ Become(r, [q EXCEPT !.pc = "backend", !.scope = scope,
                             !.counted = @ \cup {"filtered"}])
  BY <1>1, <1>2, <1>3 DEF Authorized
<1>7. \A id \in Identities : cacheKey(id) = key => scope = Granted(id)
  BY <1>2, <1>4, <1>5, KeyGrants
<1>8. scope \in {"all", "some"}
  BY <1>5, GrantedType
<1>9. ScopesInv'
  BY <1>6, <1>7, <1>8 DEF ServerInv, ScopesInv
<1>10. RequestOK([q EXCEPT !.pc = "backend", !.scope = scope,
                           !.counted = @ \cup {"filtered"}])
  BY <1>1, <1>5, AuthorizedOK
<1>11. reqs[r].pc \in Held
  BY <1>1 DEF Ongoing, Held
<1> QED BY <1>6, <1>9, <1>10, <1>11, BecomeKeeps

(* The other steps of a request leave the scopes alone and start from one  *)
(* that is held already.                                                   *)
LEMMA OngoingStep ==
  ASSUME ServerInv, NEW r \in Request, NEW q, Become(r, q), RequestOK(q),
         UNCHANGED scopes, phase # "exited", reqs[r].pc \in Held
  PROVE  ServerInv'
BY ScopesKept, BecomeKeeps

LEMMA ServingStep ==
  ASSUME ServerInv, NEW r \in Request, Serving(r)
  PROVE  ServerInv'
<1>1. phase # "exited"
  BY DEF Serving
<1>2. PICK q : q = reqs[r] /\ RequestOK(q)
  BY RequestIsOK
<1>3. CASE \E path \in {"api", "asset"}, h \in HeaderSet : ServeHTTP(r, path, h)
  BY <1>1, <1>3, ServeHTTPStep
<1>4. CASE Authorized(r)
  BY <1>1, <1>4, AuthorizedStep
<1>5. CASE AuthzFails(r)
  <2>1. RequestOK([q EXCEPT !.pc = "done", !.body = "500",
                            !.counted = @ \cup {"authz_error"}])
    BY <1>2, <1>5, FailedOK DEF AuthzFails, At, Failure
  <2> QED BY <1>1, <1>2, <1>5, <2>1, OngoingStep
          DEF AuthzFails, At, Held, Ongoing
<1>6. CASE \E resp \in Response : BackendAnswers(r, resp)
  <2>1. PICK resp \in Response : BackendAnswers(r, resp)
    BY <1>6
  <2>2. q.pc = "backend" /\ Become(r, filterResponse(q, resp))
        /\ UNCHANGED scopes
    BY <1>2, <2>1 DEF BackendAnswers, At
  <2>3. RequestOK(filterResponse(q, resp))
    BY <1>2, <2>2, AnswerOK
  <2> QED BY <1>1, <1>2, <2>2, <2>3, OngoingStep DEF Held, Ongoing
<1>7. CASE BackendFails(r)
  <2>1. PICK err : /\ err = "canceled" => q.gone
                   /\ Become(r, Handled(q, err))
    BY <1>2, <1>7 DEF BackendFails
  <2>2. q.pc \in {"backend", "reading"} /\ UNCHANGED scopes
    BY <1>2, <1>7 DEF BackendFails, At
  <2>3. RequestOK(Handled(q, err))
    BY <1>2, <2>1, <2>2, HandledOK
  <2> QED BY <1>1, <1>2, <2>1, <2>2, <2>3, OngoingStep DEF Held, Ongoing
<1>8. CASE BodyRead(r)
  <2>1. q.pc = "reading" /\ Become(r, Filtered(q)) /\ UNCHANGED scopes
    BY <1>2, <1>8 DEF BodyRead, At
  <2>2. RequestOK(Filtered(q))
    BY <1>2, <2>1, FilteredOK
  <2> QED BY <1>1, <1>2, <2>1, <2>2, OngoingStep DEF Held, Ongoing
<1>9. CASE Copied(r) \/ CopyFails(r)
  <2>1. /\ q.pc = "copying" /\ UNCHANGED scopes
        /\ \E pc \in CutShort \cup {"done"} : Become(r, [q EXCEPT !.pc = pc])
    BY <1>2, <1>9 DEF Copied, CopyFails, At, CutShort
  <2> QED BY <1>1, <1>2, <2>1, CopiedOK, OngoingStep DEF Held, Ongoing
<1>10. CASE ClientLeaves(r)
  <2>1. /\ q.pc \in Ongoing /\ UNCHANGED scopes
        /\ Become(r, [q EXCEPT !.gone = TRUE])
    BY <1>2, <1>10 DEF ClientLeaves, InFlight, Ongoing
  <2> QED BY <1>1, <1>2, <2>1, GoneOK, OngoingStep DEF Held
<1>11. CASE Accept(r)
  <2>1. /\ phase = "serving" /\ q.pc = "new" /\ UNCHANGED scopes
        /\ Become(r, [q EXCEPT !.pc = "accepted"])
    BY <1>2, <1>11 DEF Accept, At
  <2>2. RequestOK([q EXCEPT !.pc = "accepted"])
    BY <1>2, <2>1, ConnectionOK
  <2> QED BY <2>1, <2>2, ScopesKept, BecomeKeeps
<1>12. CASE ConnectionEnds(r)
  <2>1. /\ q.pc = "accepted" /\ UNCHANGED scopes
        /\ Become(r, [q EXCEPT !.pc = "closed"])
    BY <1>2, <1>12 DEF ConnectionEnds, At
  <2>2. RequestOK([q EXCEPT !.pc = "closed"])
    BY <1>2, <2>1, ConnectionOK
  <2> QED BY <1>1, <1>2, <2>1, <2>2, OngoingStep DEF Held
<1> QED
  BY <1>3, <1>4, <1>5, <1>6, <1>7, <1>8, <1>9, <1>10, <1>11, <1>12 DEF Serving

-----------------------------------------------------------------------------
(* The steps of the server.                                                *)

LEMMA ExitStep ==
  ASSUME ServerInv, NEW c \in {0, 1}, Exit(c),
         UNCHANGED <<signalled, graceIn, metrics, scraping, scopes>>
  PROVE  ServerInv'
<1>1. \A r \in Request : r \in Open <=> reqs[r].pc \in Held
  BY DEF Open, InFlight, Ongoing, Held
<1>2. \A r \in Request :
        RequestOK(reqs'[r]) /\ reqs'[r].pc \notin Held
  <2> SUFFICES ASSUME NEW r \in Request
               PROVE  RequestOK(reqs'[r]) /\ reqs'[r].pc \notin Held
    OBVIOUS
  <2>1. PICK q : q = reqs[r] /\ RequestOK(q)
    BY RequestIsOK
  <2>2. CASE q.pc \in Held
    <3>1. reqs'[r] = [q EXCEPT !.pc = "killed"]
      BY <1>1, <2>1, <2>2 DEF Exit
    <3>2. [q EXCEPT !.pc = "killed"].pc = "killed"
      BY <2>1 DEF RequestOK, RequestType
    <3> QED BY <2>1, <2>2, <3>1, <3>2, KilledOK DEF Held, Ongoing
  <2>3. CASE q.pc \notin Held
    BY <1>1, <2>1, <2>3 DEF Exit
  <2> QED BY <2>2, <2>3
<1>3. RequestsInv'
  <2>1. reqs' = [r \in Request |-> reqs'[r]]
    BY DEF Exit
  <2> QED BY <1>2, <2>1 DEF RequestsInv
<1>4. Open' = {}
  BY <1>2 DEF Open, InFlight, Ongoing, Held
<1>5. DrainInv'
  BY <1>4 DEF ServerInv, DrainInv, Exit
<1> QED BY <1>3, <1>5, ScopesKept DEF ServerInv

LEMMA RunStep ==
  ASSUME ServerInv,
         \/ Start \/ MetricsFail \/ Signal \/ Drain \/ Drained \/ StopMetrics
         \/ Tick \/ Scrape \/ ScrapeEnds
  PROVE  ServerInv'
<1>1. UNCHANGED scopes /\ UNCHANGED reqs
  BY DEF Start, MetricsFail, Signal, Drain, Drained, StopMetrics, Tick,
         Scrape, ScrapeEnds
<1>2. RequestsInv' /\ ScopesInv' /\ Open' = Open
  BY <1>1, ScopesKept DEF ServerInv, RequestsInv, Open, InFlight
<1>3. signalled' \in BOOLEAN /\ scraping' \in BOOLEAN
  BY Zenon
     DEF ServerInv, DrainInv, Start, MetricsFail, Signal, Drain, Drained,
         StopMetrics, Tick, Scrape, ScrapeEnds
<1>4. graceIn' \in 0..Grace
  BY ServerAssumption
     DEF ServerInv, DrainInv, Start, MetricsFail, Signal, Drain, Drained,
         StopMetrics, Tick, Scrape, ScrapeEnds
<1>5. DrainInv'
  BY <1>2, <1>3, <1>4
     DEF ServerInv, DrainInv, Start, MetricsFail, Signal, Drain, Drained,
         StopMetrics, Tick, Scrape, ScrapeEnds
<1> QED BY <1>2, <1>5 DEF ServerInv

LEMMA ServerInit ==
  ASSUME Init
  PROVE  ServerInv
<1>1. RequestOK(NewRequest)
  BY NoIdentityType
     DEF NewRequest, RequestOK, RequestType, Story, OwnScope, Ongoing, Waiting,
         CutShort, Sent, LetThrough, Outcome
<1>2. RequestsInv
  BY <1>1 DEF Init, RequestsInv
<1>3. ScopesInv
  BY DEF Init, ScopesInv
<1>4. DrainInv
  <2>1. 0 \in 0..Grace
    BY ServerAssumption
  <2> QED BY <2>1 DEF Init, DrainInv
<1> QED BY <1>2, <1>3, <1>4 DEF ServerInv

LEMMA ServerStep ==
  ASSUME ServerInv, [Next]_vars
  PROVE  ServerInv'
<1>1. CASE \E r \in Request : Serving(r)
  BY <1>1, ServingStep
<1>2. CASE \E key \in DOMAIN scopes : ForgetScope(key)
  <2>1. PICK key \in DOMAIN scopes : ForgetScope(key)
    BY <1>2
  <2>2. ScopesInv'
    BY <2>1 DEF ForgetScope, ServerInv, ScopesInv
  <2>3. RequestsInv' /\ Open' = Open
    BY <2>1 DEF ForgetScope, ServerInv, RequestsInv, Open, InFlight
  <2>4. DrainInv'
    BY <2>1, <2>3 DEF ForgetScope, ServerInv, DrainInv, serverVars
  <2> QED BY <2>2, <2>3, <2>4 DEF ServerInv
<1>3. CASE \/ Start \/ MetricsFail \/ Signal \/ Drain \/ Drained
           \/ StopMetrics \/ Tick \/ Scrape \/ ScrapeEnds
  BY <1>3, RunStep
<1>4. CASE StartFails \/ ServeFails \/ Return
  <2>1. /\ Exit(0) \/ Exit(1)
        /\ UNCHANGED <<signalled, graceIn, metrics, scraping, scopes>>
    BY <1>4 DEF StartFails, ServeFails, Return
  <2> QED BY <2>1, ExitStep
<1>5. CASE UNCHANGED vars
  <2>1. UNCHANGED serverVars /\ UNCHANGED scopes /\ UNCHANGED reqs
    BY <1>5 DEF vars
  <2>2. RequestsInv' /\ Open' = Open /\ ScopesInv'
    BY <2>1, ScopesKept DEF ServerInv, RequestsInv, Open, InFlight
  <2>3. DrainInv'
    BY <2>1, <2>2 DEF ServerInv, DrainInv, serverVars
  <2> QED BY <2>2, <2>3 DEF ServerInv
<1> QED BY <1>1, <1>2, <1>3, <1>4, <1>5 DEF Next

(***************************************************************************)
(* The inductive invariant of the server: every request's record is        *)
(* consistent with how far it got (proxy.go:101-128, 193-285), every kept  *)
(* scope is right for whoever has its key, and a drain that is over is     *)
(* over for a reason (root.go:199-213).                                    *)
(***************************************************************************)
THEOREM ServerSafe == Spec => []ServerInv
<1>1. Init => ServerInv
  BY ServerInit
<1>2. ServerInv /\ [Next]_vars => ServerInv'
  BY ServerStep
<1> QED BY <1>1, <1>2, PTL DEF Spec

(***************************************************************************)
(* The variables of run (root.go:91-213) and of every request keep their   *)
(* types, and a body is being copied exactly when it is said to be.        *)
(***************************************************************************)
THEOREM ServerTyped == Spec => []TypeOK
<1>1. ServerInv => TypeOK
  BY ServerInvMeaning
<1> QED BY <1>1, ServerSafe, PTL

(***************************************************************************)
(* Of what the backend sends on an API route with status 200, no caller    *)
(* without the right to see everything gets anything as it was sent,       *)
(* however many share the cache and whatever their headers are.  Responses *)
(* with another status are relayed to everyone: that they "carry no flow   *)
(* data" (proxy.go:211) is assumed, not shown (proxy.go:193-242,           *)
(* rbac.go:277-284, identity.go:68-93).                                    *)
(***************************************************************************)
THEOREM RawBodiesForAdmins == Spec => []RawOnlyForAdmins
<1>1. ServerInv => RawOnlyForAdmins
  BY ServerInvMeaning
<1> QED BY <1>1, ServerSafe, PTL

(***************************************************************************)
(* A request is counted once as let through at most and once as failed at  *)
(* most; if it was answered in full, as failed exactly when the answer is  *)
(* an error of the proxy's own; and as client_gone only after its caller   *)
(* left (proxy.go:101-128, 139-183).                                       *)
(***************************************************************************)
THEOREM MetricsTellTruth == Spec => []OutcomesTellTruth
<1>1. ServerInv => OutcomesTellTruth
  BY ServerInvMeaning
<1> QED BY <1>1, ServerSafe, PTL

(***************************************************************************)
(* The metrics listener is not shut down while a request is in flight and  *)
(* the grace period lasts (root.go:199-210).                               *)
(***************************************************************************)
THEOREM MetricsOutlive == Spec => []MetricsOutliveRequests
<1>1. ServerInv => MetricsOutliveRequests
  BY ServerInvMeaning
<1> QED BY <1>1, ServerSafe, PTL

(***************************************************************************)
(* The process does not exit while a request or a scrape is in flight      *)
(* unless the grace period is used up or the listener failed               *)
(* (root.go:111-114, 199-213).                                             *)
(***************************************************************************)
THEOREM DrainSpares == Spec => DrainSparesRequests
<1> DEFINE Spares == /\ phase # "exited" /\ phase' = "exited"
                     /\ InFlight # {} \/ scraping
                     => graceIn = 0 \/ code' = 1
<1>1. ASSUME ServerInv, Next
      PROVE  Spares
  <2> SUFFICES ASSUME phase # "exited", phase' = "exited",
                      InFlight # {} \/ scraping
               PROVE  graceIn = 0 \/ code' = 1
    OBVIOUS
  <2>1. CASE StartFails \/ ServeFails
    BY <2>1 DEF StartFails, ServeFails, Exit
  <2>2. CASE Return
    BY <1>1, <2>2 DEF Return, ServerInv, DrainInv, Open
  <2>3. CASE \E r \in Request : Serving(r)
    <3>1. UNCHANGED phase
      BY <2>3
         DEF Serving, Accept, ConnectionEnds, ServeHTTP, Authorized, AuthzFails,
             BackendAnswers, BackendFails, BodyRead, Copied, CopyFails,
             ClientLeaves, Become, serverVars
    <3> QED BY <3>1
  <2> QED
    BY <1>1, <2>1, <2>2, <2>3
       DEF Next, ForgetScope, serverVars, Start, MetricsFail, Signal, Drain,
           Drained, StopMetrics, Tick, Scrape, ScrapeEnds
<1>2. ServerInv /\ [Next]_vars => [Spares]_vars
  BY <1>1
<1>3. Spec => [][Spares]_vars
  BY <1>2, ServerSafe, PTL DEF Spec
<1> QED BY <1>3 DEF DrainSparesRequests
=============================================================================
