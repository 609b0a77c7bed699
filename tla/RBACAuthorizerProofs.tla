------------------------ MODULE RBACAuthorizerProofs ------------------------
(***************************************************************************)
(* Proofs about RBACAuthorizer: every answer is less than two TTLs stale,  *)
(* the cache stays within its cap and no sweep runs beside a valid entry,  *)
(* for every set of identities, namespaces and callers and every TTL.      *)
(***************************************************************************)
EXTENDS RBACAuthorizer, FiniteSetTheorems, TLAPS

(* Ages only count up, one per tick, and from the present.                 *)
LEMMA LagStep ==
  ASSUME TypeOK, Tick
  PROVE  \A id \in Identity, q \in Question, b \in BOOLEAN :
           /\ lag'[id][q][b] \in 0..(2 * TTL)
           /\ lag'[id][q][b] <= lag[id][q][b] + 1
<1> SUFFICES ASSUME NEW id \in Identity, NEW q \in Question, NEW b \in BOOLEAN
             PROVE  /\ lag'[id][q][b] \in 0..(2 * TTL)
                    /\ lag'[id][q][b] <= lag[id][q][b] + 1
  OBVIOUS
<1>1. lag[id][q][b] \in 0..(2 * TTL)
  BY DEF TypeOK
<1>2. lag'[id][q][b] = IF Right(may, namespaces, id, q, b) THEN 0
                       ELSE IF lag[id][q][b] < 2 * TTL THEN lag[id][q][b] + 1
                       ELSE 2 * TTL
  BY DEF Tick
<1> QED BY <1>1, <1>2, RBACAssumption

LEMMA CanListPodsType ==
  ASSUME NEW g, NEW id, NEW q
  PROVE  CanListPods(g, id, q) \in BOOLEAN
BY DEF CanListPods

(* A review's answer is right now.                                         *)
LEMMA ReviewRight ==
  ASSUME LagCurrent, NEW id \in Identity, NEW q \in Question
  PROVE  lag[id][q][CanListPods(may, id, q)] = 0
BY CanListPodsType DEF LagCurrent, Right

(* A change of the cluster makes answers right or leaves their ages alone. *)
LEMMA RelagType ==
  ASSUME TypeOK, NEW grants, NEW existing, lag' = Relag(grants, existing)
  PROVE  /\ lag' \in [Identity -> [Question -> [BOOLEAN -> 0..(2 * TTL)]]]
         /\ \A id \in Identity, q \in Question, b \in BOOLEAN :
              /\ Right(grants, existing, id, q, b) => lag'[id][q][b] = 0
              /\ lag'[id][q][b] = 0 \/ lag'[id][q][b] = lag[id][q][b]
BY RBACAssumption DEF TypeOK, Relag

-----------------------------------------------------------------------------
LEMMA TypeInit ==
  ASSUME Init
  PROVE  TypeOK /\ LagCurrent
<1> USE RBACAssumption
<1>1. lag \in [Identity -> [Question -> [BOOLEAN -> 0..(2 * TTL)]]]
  BY DEF Init
<1>2. callers \in [Caller -> CallState]
  BY DEF Init, CallState
<1>3. LagCurrent
  BY DEF Init, LagCurrent
<1> QED BY <1>1, <1>2, <1>3 DEF Init, TypeOK

(* What a step does to one flight and leaves of the others.                *)
LEMMA FlyType ==
  ASSUME TypeOK, NEW id \in DOMAIN flights, NEW f \in Flight, Fly(id, f),
         FlightShape(f)
  PROVE  /\ DOMAIN flights' = DOMAIN flights
         /\ flights' \in [DOMAIN flights' -> Flight]
         /\ flights'[id] = f
         /\ \A j \in DOMAIN flights : j # id => flights'[j] = flights[j]
         /\ \A j \in DOMAIN flights' : FlightShape(flights'[j])
<1>1. /\ DOMAIN flights' = DOMAIN flights
      /\ flights' \in [DOMAIN flights' -> Flight]
      /\ flights'[id] = f
      /\ \A j \in DOMAIN flights : j # id => flights'[j] = flights[j]
  BY DEF Fly, TypeOK
<1>2. \A j \in DOMAIN flights : FlightShape(flights[j])
  BY DEF TypeOK
<1> QED BY <1>1, <1>2

LEMMA TypeNext ==
  ASSUME TypeOK, LagCurrent, Next
  PROVE  TypeOK' /\ LagCurrent'
<1> USE RBACAssumption
<1>1. CASE ChangeGrants
  <2>1. PICK grants \in [Identity -> SUBSET (namespaces \cup {NamespaceAll})] :
               may' = grants /\ lag' = Relag(grants, namespaces)
    BY <1>1 DEF ChangeGrants
  <2>2. namespaces' = namespaces
    BY <1>1 DEF ChangeGrants
  <2>3. LagCurrent'
    BY <2>1, <2>2, RelagType DEF LagCurrent
  <2> QED BY <1>1, <2>1, <2>2, <2>3, RelagType DEF ChangeGrants, TypeOK
<1>14. ASSUME NEW n \in Namespace, ChangeNamespace(n)
       PROVE  TypeOK' /\ LagCurrent'
  <2>1. may' = may /\ lag' = Relag(may, namespaces')
    BY <1>14 DEF ChangeNamespace
  <2>2. LagCurrent'
    BY <2>1, RelagType DEF LagCurrent
  <2>3. namespaces' \subseteq Namespace
    BY <1>14 DEF ChangeNamespace, TypeOK
  <2>4. may' \in [Identity -> SUBSET (namespaces' \cup {NamespaceAll})]
    <3>1. \A id \in Identity : may[id] \subseteq namespaces' \cup {NamespaceAll}
      BY <1>14 DEF ChangeNamespace, TypeOK
    <3> QED BY <2>1, <3>1 DEF TypeOK
  <2> QED BY <1>14, <2>1, <2>2, <2>3, <2>4, RelagType
             DEF ChangeNamespace, TypeOK
<1>2. ASSUME NEW k \in Caller, NEW id \in Identity, AllowedNamespaces(k, id)
      PROVE  TypeOK' /\ LagCurrent'
  <2>1. Valid(id) => cache[id].scope \in Scope
    BY DEF Valid, TypeOK, Entry
  <2>2. callers' \in [Caller -> CallState]
    BY <1>2, <2>1 DEF AllowedNamespaces, TypeOK, CallState
  <2> QED BY <1>2, <2>2 DEF AllowedNamespaces, TypeOK, LagCurrent, clusterVars
<1>3. ASSUME NEW k \in Caller, Do(k)
      PROVE  TypeOK' /\ LagCurrent'
  <2> DEFINE id == callers[k].id
             new == [phase |-> "recheck", scope |-> {}, todo |-> {},
                     left |-> TTL]
  <2>1. id \in Identity
    BY <1>3 DEF Do, TypeOK, CallState
  <2>2. callers' \in [Caller -> CallState]
    BY <1>3, <2>1 DEF Do, TypeOK, CallState
  <2>3. new \in Flight /\ FlightShape(new)
    BY DEF Flight, Scope, FlightShape
  <2>4. CASE id \in DOMAIN flights
    BY <1>3, <2>2, <2>4 DEF Do, TypeOK, LagCurrent, clusterVars
  <2>5. CASE id \notin DOMAIN flights
    <3> HIDE DEF new
    <3>1. flights' = Put(flights, id, new)
      BY <1>3, <2>5 DEF Do, new
    <3>2. /\ DOMAIN flights' = DOMAIN flights \cup {id}
          /\ flights' \in [DOMAIN flights' -> Flight]
          /\ \A j \in DOMAIN flights' :
               \/ flights'[j] = new
               \/ j \in DOMAIN flights /\ flights'[j] = flights[j]
      BY <2>3, <2>5, <3>1 DEF Put, TypeOK
    <3>3. DOMAIN flights' \subseteq Identity
      BY <2>1, <3>2 DEF TypeOK
    <3>4. \A j \in DOMAIN flights' : FlightShape(flights'[j])
      BY <2>3, <3>2 DEF TypeOK
    <3>5. LagCurrent'
      BY <1>3 DEF Do, LagCurrent, clusterVars
    <3> QED BY <1>3, <2>2, <3>2, <3>3, <3>4, <3>5 DEF Do, TypeOK, clusterVars
  <2> QED BY <2>4, <2>5
<1>4. ASSUME NEW id \in Identity, Recheck(id)
      PROVE  TypeOK' /\ LagCurrent'
  <2> DEFINE f == IF Valid(id)
                  THEN [flights[id] EXCEPT !.phase = "done",
                                           !.scope = cache[id].scope]
                  ELSE [flights[id] EXCEPT !.phase = "probe", !.left = TTL]
  <2>1. id \in DOMAIN flights /\ flights[id] \in Flight /\ Fly(id, f)
    BY <1>4 DEF Recheck, InPhase, TypeOK
  <2>2. flights[id].scope = {} /\ flights[id].todo = {}
    BY <1>4 DEF Recheck, InPhase, TypeOK, FlightShape
  <2>3. f \in Flight /\ FlightShape(f)
    <3>1. CASE Valid(id)
      <4>1. cache[id].scope \in Scope
        BY <3>1 DEF Valid, TypeOK, Entry
      <4>2. f = [flights[id] EXCEPT !.phase = "done",
                                    !.scope = cache[id].scope]
        BY <3>1
      <4> HIDE DEF f
      <4>3. f \in Flight
        BY <2>1, <4>1, <4>2 DEF Flight
      <4>4. f.phase = "done" /\ f.todo = {}
        BY <2>1, <2>2, <4>2 DEF Flight
      <4> QED BY <4>3, <4>4 DEF FlightShape
    <3>2. CASE ~Valid(id)
      <4>1. f = [flights[id] EXCEPT !.phase = "probe", !.left = TTL]
        BY <3>2
      <4>2. TTL \in 0..TTL
        OBVIOUS
      <4> HIDE DEF f
      <4>3. f.scope = {} /\ f.todo = {}
        BY <2>1, <2>2, <4>1 DEF Flight
      <4>4. f \in Flight
        BY <2>1, <4>1, <4>2 DEF Flight
      <4> QED BY <4>3, <4>4 DEF FlightShape
    <3> QED BY <3>1, <3>2
  <2> HIDE DEF f
  <2> QED BY <1>4, <2>1, <2>3, FlyType DEF Recheck, TypeOK, LagCurrent,
                                           clusterVars
<1>5. ASSUME NEW id \in Identity, Probe(id)
      PROVE  TypeOK' /\ LagCurrent'
  <2> DEFINE f == IF CanListPods(may, id, NamespaceAll)
                  THEN [flights[id] EXCEPT !.phase = "sweep", !.scope = All]
                  ELSE [flights[id] EXCEPT !.phase = "list"]
  <2>1. id \in DOMAIN flights /\ flights[id] \in Flight /\ Fly(id, f)
    BY <1>5 DEF Probe, InPhase, TypeOK
  <2>2. flights[id].scope = {} /\ flights[id].todo = {} /\ {} # All
    BY <1>5 DEF Probe, InPhase, TypeOK, FlightShape
  <2>3. f \in Flight /\ FlightShape(f)
    <3>1. CASE CanListPods(may, id, NamespaceAll)
      <4>1. f = [flights[id] EXCEPT !.phase = "sweep", !.scope = All]
        BY <3>1
      <4> HIDE DEF f
      <4> QED BY <2>1, <2>2, <4>1 DEF Flight, Scope, FlightShape
    <3>2. CASE ~CanListPods(may, id, NamespaceAll)
      <4>1. f = [flights[id] EXCEPT !.phase = "list"]
        BY <3>2
      <4> HIDE DEF f
      <4> QED BY <2>1, <2>2, <4>1 DEF Flight, FlightShape
    <3> QED BY <3>1, <3>2
  <2> HIDE DEF f
  <2> QED BY <1>5, <2>1, <2>3, FlyType DEF Probe, TypeOK, LagCurrent,
                                           clusterVars
<1>15. ASSUME NEW id \in Identity, List(id)
       PROVE  TypeOK' /\ LagCurrent'
  <2> DEFINE f == [flights[id] EXCEPT !.phase = "sweep", !.todo = namespaces]
  <2>1. id \in DOMAIN flights /\ flights[id] \in Flight /\ Fly(id, f)
    BY <1>15 DEF List, InPhase, TypeOK
  <2>2. flights[id].scope = {} /\ {} # All
    BY <1>15 DEF List, InPhase, TypeOK, FlightShape
  <2>3. f \in Flight /\ FlightShape(f)
    <3>1. namespaces \in SUBSET Namespace
      BY DEF TypeOK
    <3> QED BY <2>1, <2>2, <3>1 DEF Flight, FlightShape
  <2> HIDE DEF f
  <2> QED BY <1>15, <2>1, <2>3, FlyType DEF List, TypeOK, LagCurrent,
                                            clusterVars
<1>6. ASSUME NEW id \in Identity, NEW n \in Namespace, Review(id, n)
      PROVE  TypeOK' /\ LagCurrent'
  <2> DEFINE f == [flights[id] EXCEPT
                     !.todo = @ \ {n},
                     !.scope = IF CanListPods(may, id, n)
                               THEN @ \cup {n} ELSE @]
  <2>1. id \in DOMAIN flights /\ flights[id] \in Flight /\ Fly(id, f)
    BY <1>6 DEF Review, InPhase, TypeOK
  <2>2. /\ flights[id].phase = "sweep" /\ flights[id].scope # All
        /\ flights[id].scope \cap flights[id].todo = {}
    BY <1>6 DEF Review, InPhase, TypeOK, FlightShape
  <2>3. flights[id].scope \in SUBSET Namespace
    BY <2>1, <2>2 DEF Flight, Scope
  <2>4. f \in Flight /\ FlightShape(f)
    BY <2>1, <2>2, <2>3 DEF Flight, Scope, FlightShape
  <2> HIDE DEF f
  <2> QED BY <1>6, <2>1, <2>4, FlyType DEF Review, TypeOK, LagCurrent,
                                           clusterVars
<1>7. ASSUME NEW id \in Identity, Fail(id)
      PROVE  TypeOK' /\ LagCurrent'
  <2> DEFINE f == [flights[id] EXCEPT !.phase = "failed"]
  <2>1. id \in DOMAIN flights /\ flights[id] \in Flight /\ Fly(id, f)
    BY <1>7 DEF Fail, Resolving, InPhase, TypeOK
  <2>2. f \in Flight /\ FlightShape(f)
    BY <2>1 DEF Flight, TypeOK, FlightShape
  <2> HIDE DEF f
  <2> QED BY <1>7, <2>1, <2>2, FlyType DEF Fail, TypeOK, LagCurrent,
                                           clusterVars
<1>8. ASSUME NEW id \in Identity, Store(id)
      PROVE  TypeOK' /\ LagCurrent'
  <2> DEFINE f == [flights[id] EXCEPT !.phase = "done"]
             new == [scope |-> flights[id].scope, left |-> TTL]
  <2>1. id \in DOMAIN flights /\ flights[id] \in Flight /\ Fly(id, f)
    BY <1>8 DEF Store, InPhase, TypeOK
  <2>2. f \in Flight /\ FlightShape(f)
    BY <2>1 DEF Flight, TypeOK, FlightShape
  <2>3. new \in Entry
    BY <2>1 DEF Entry, Flight
  <2>4. DOMAIN cache' \subseteq Identity /\ cache' \in [DOMAIN cache' -> Entry]
    <3> HIDE DEF new
    <3>1. PICK kept \in MakeRoom : cache' = Put(Restricted(cache, kept), id, new)
      BY <1>8 DEF Store, new
    <3>2. kept \subseteq DOMAIN cache
      BY DEF MakeRoom, ValidKeys
    <3> QED BY <2>3, <3>1, <3>2 DEF Put, Restricted, TypeOK
  <2> HIDE DEF f, new
  <2> QED BY <1>8, <2>1, <2>2, <2>4, FlyType DEF Store, TypeOK, LagCurrent,
                                                 clusterVars
<1>9. ASSUME NEW id \in Identity, Land(id)
      PROVE  TypeOK' /\ LagCurrent'
  <2>1. id \in DOMAIN flights /\ flights[id].scope \in Scope
    BY <1>9 DEF Land, InPhase, TypeOK, Flight
  <2>2. callers' \in [Caller -> CallState]
    BY <1>9, <2>1 DEF Land, TypeOK, CallState
  <2>3. /\ DOMAIN flights' \subseteq DOMAIN flights
        /\ flights' \in [DOMAIN flights' -> Flight]
        /\ \A j \in DOMAIN flights' : flights'[j] = flights[j]
    BY <1>9 DEF Land, Restricted, TypeOK
  <2>4. \A j \in DOMAIN flights' : FlightShape(flights'[j])
    BY <2>3 DEF TypeOK
  <2>5. LagCurrent'
    BY <1>9 DEF Land, LagCurrent, clusterVars
  <2> QED BY <1>9, <2>2, <2>3, <2>4, <2>5 DEF Land, TypeOK, clusterVars
<1>10. ASSUME NEW k \in Caller, Finish(k)
       PROVE  TypeOK' /\ LagCurrent'
  <2>1. callers' \in [Caller -> CallState]
    BY <1>10 DEF Finish, TypeOK, CallState
  <2> QED BY <1>10, <2>1 DEF Finish, TypeOK, LagCurrent, clusterVars
<1>11. CASE Evict
  BY <1>11 DEF Evict, Restricted, ValidKeys, TypeOK, LagCurrent, clusterVars
<1>13. ASSUME NEW ids \in SUBSET Identity, Invalidate(ids)
       PROVE  TypeOK' /\ LagCurrent'
  BY <1>13 DEF Invalidate, Restricted, TypeOK, LagCurrent, clusterVars
<1>12. CASE Tick
  <2>1. lag' \in [Identity -> [Question -> [BOOLEAN -> 0..(2 * TTL)]]]
    BY <1>12 DEF Tick, TypeOK
  <2>2. LagCurrent'
    BY <1>12 DEF Tick, LagCurrent
  <2>3. DOMAIN cache' \subseteq Identity /\ cache' \in [DOMAIN cache' -> Entry]
    BY <1>12, SMTT(20) DEF Tick, TypeOK, Entry
  <2>4. \A id \in DOMAIN flights :
          /\ flights[id] \in Flight
          /\ flights[id].left > 0
          /\ flights'[id] = [flights[id] EXCEPT !.left = flights[id].left - 1]
    BY <1>12 DEF Tick, ClockMayMove, TypeOK
  <2>5. \A id \in DOMAIN flights :
          /\ flights'[id] \in Flight
          /\ flights'[id].phase = flights[id].phase
          /\ flights'[id].scope = flights[id].scope
          /\ flights'[id].todo = flights[id].todo
    <3> SUFFICES ASSUME NEW id \in DOMAIN flights
                 PROVE  /\ flights'[id] \in Flight
                        /\ flights'[id].phase = flights[id].phase
                        /\ flights'[id].scope = flights[id].scope
                        /\ flights'[id].todo = flights[id].todo
      OBVIOUS
    <3> DEFINE f == flights[id]
    <3>1. /\ f \in Flight
          /\ f.left > 0
          /\ flights'[id] = [f EXCEPT !.left = f.left - 1]
      BY <2>4
    <3> HIDE DEF f
    <3>2. [f EXCEPT !.left = f.left - 1] \in Flight
      BY <3>1 DEF Flight
    <3> QED BY <3>1, <3>2 DEF f, Flight
  <2>6. DOMAIN flights' = DOMAIN flights /\ flights' \in [DOMAIN flights' -> Flight]
    BY <1>12, <2>5 DEF Tick
  <2>7. evictIn' \in 0..TTL
    BY <1>12 DEF Tick, ClockMayMove, TypeOK
  <2>8. \A id \in DOMAIN flights' : FlightShape(flights'[id])
    BY <2>5, <2>6 DEF TypeOK, FlightShape
  <2> QED BY <1>12, <2>1, <2>2, <2>3, <2>6, <2>7, <2>8 DEF Tick, TypeOK
<1> QED BY <1>1, <1>2, <1>3, <1>4, <1>5, <1>6, <1>7, <1>8, <1>9, <1>10,
           <1>11, <1>12, <1>13, <1>14, <1>15 DEF Next

-----------------------------------------------------------------------------
(* Freshness, with the ages as a parameter so that the facts about them    *)
(* can be used of two states.                                              *)

RightIn(l, id, scope, d) ==
  IF scope = All
  THEN l[id][NamespaceAll][TRUE] <= d
  ELSE \A n \in Namespace : l[id][n][(n \in scope)] <= d

ReviewedIn(l, id, f) ==
  IF f.scope = All
  THEN l[id][NamespaceAll][TRUE] <= TTL - f.left
  ELSE \A n \in Namespace \ f.todo : l[id][n][(n \in f.scope)] <= TTL - f.left

FlightIn(l, id, f) ==
  /\ f.phase = "sweep" => ReviewedIn(l, id, f)
  /\ f.phase = "done" => RightIn(l, id, f.scope, 2 * TTL - 1)

LEMMA EntriesFreshDef ==
  EntriesFresh <=> \A id \in DOMAIN cache :
                     RightIn(lag, id, cache[id].scope, 2 * TTL - cache[id].left)
BY DEF EntriesFresh, RightWithin, RightIn

LEMMA FlightsFreshDef ==
  FlightsFresh <=> \A id \in DOMAIN flights : FlightIn(lag, id, flights[id])
BY DEF FlightsFresh, RightWithin, RightIn, FlightIn, ReviewedIn

(* Ages that grow by at most e stay within a bound that grows by e.        *)
LEMMA RightInGrows ==
  ASSUME NEW l, NEW m, NEW id, NEW scope, NEW d \in Int, NEW e \in Int,
         \A q \in Question, b \in BOOLEAN :
           /\ l[id][q][b] \in Int
           /\ m[id][q][b] \in Int
           /\ m[id][q][b] <= l[id][q][b] + e,
         RightIn(l, id, scope, d)
  PROVE  RightIn(m, id, scope, d + e)
<1> DEFINE Old(q, b) == l[id][q][b]
           New(q, b) == m[id][q][b]
<1>1. ASSUME NEW q \in Question, NEW b \in BOOLEAN, Old(q, b) <= d
      PROVE  New(q, b) <= d + e
  <2>1. Old(q, b) \in Int /\ New(q, b) \in Int /\ New(q, b) <= Old(q, b) + e
    BY Zenon
  <2> HIDE DEF Old, New
  <2> QED BY <1>1, <2>1
<1>2. CASE scope = All
  <2>1. NamespaceAll \in Question /\ TRUE \in BOOLEAN
    BY DEF Question
  <2> QED BY <1>1, <1>2, <2>1, Zenon DEF RightIn
<1>3. CASE scope # All
  <2> SUFFICES ASSUME NEW n \in Namespace
               PROVE  New(n, (n \in scope)) <= d + e
    BY <1>3 DEF RightIn
  <2>1. n \in Question /\ (n \in scope) \in BOOLEAN
    BY DEF Question
  <2>2. Old(n, (n \in scope)) <= d
    BY <1>3 DEF RightIn
  <2> QED BY <1>1, <2>1, <2>2, Zenon
<1> QED BY <1>2, <1>3

(* A complete sweep is right within one TTL, an entry made of it within    *)
(* the same bound.                                                         *)
LEMMA SweptIsRight ==
  ASSUME NEW l, NEW id, NEW f \in Flight, f.todo = {}, ReviewedIn(l, id, f),
         NEW d \in Int, TTL - f.left <= d,
         \A q \in Question, b \in BOOLEAN : l[id][q][b] \in Int
  PROVE  RightIn(l, id, f.scope, d)
<1> USE RBACAssumption
<1> DEFINE Age(q, b) == l[id][q][b]
<1>1. ASSUME NEW q \in Question, NEW b \in BOOLEAN, Age(q, b) <= TTL - f.left
      PROVE  Age(q, b) <= d
  <2>1. Age(q, b) \in Int
    BY Zenon
  <2>2. f.left \in Int
    BY DEF Flight
  <2> HIDE DEF Age
  <2> QED BY <1>1, <2>1, <2>2
<1>2. CASE f.scope = All
  <2>1. NamespaceAll \in Question /\ TRUE \in BOOLEAN
    BY DEF Question
  <2> QED BY <1>1, <1>2, <2>1, Zenon DEF RightIn, ReviewedIn
<1>3. CASE f.scope # All
  <2> SUFFICES ASSUME NEW n \in Namespace
               PROVE  Age(n, (n \in f.scope)) <= d
    BY <1>3 DEF RightIn
  <2>1. n \in Question /\ (n \in f.scope) \in BOOLEAN
    BY DEF Question
  <2>2. Age(n, (n \in f.scope)) <= TTL - f.left
    BY <1>3 DEF ReviewedIn
  <2> QED BY <1>1, <2>1, <2>2, Zenon
<1> QED BY <1>2, <1>3

(* Replacing one flight by a fresh one keeps them all fresh.               *)
LEMMA FlyFresh ==
  ASSUME TypeOK, FlightsFresh, NEW id \in DOMAIN flights, NEW f,
         Fly(id, f), UNCHANGED lag, FlightIn(lag, id, f)
  PROVE  FlightsFresh'
<1>1. DOMAIN flights' = DOMAIN flights /\ flights'[id] = f
  BY DEF Fly, TypeOK
<1>2. \A j \in DOMAIN flights : j # id => flights'[j] = flights[j]
  BY DEF Fly, TypeOK
<1>3. \A j \in DOMAIN flights' : FlightIn(lag', j, flights'[j])
  <2> SUFFICES ASSUME NEW j \in DOMAIN flights
               PROVE  FlightIn(lag, j, flights'[j])
    BY <1>1
  <2>1. CASE j = id BY <1>1, <2>1
  <2>2. CASE j # id BY <1>2, <2>2, FlightsFreshDef
  <2> QED BY <2>1, <2>2
<1> QED BY <1>3 DEF FlightsFresh, RightWithin, RightIn, FlightIn, ReviewedIn

LEMMA FreshInit ==
  ASSUME Init
  PROVE  EntriesFresh /\ FlightsFresh
BY DEF Init, EntriesFresh, FlightsFresh

LEMMA EntriesFreshAfter ==
  ASSUME \A id \in DOMAIN cache' :
           RightIn(lag', id, cache'[id].scope, 2 * TTL - cache'[id].left)
  PROVE  EntriesFresh'
BY DEF EntriesFresh, RightWithin, RightIn

LEMMA FlightsFreshAfter ==
  ASSUME \A id \in DOMAIN flights' : FlightIn(lag', id, flights'[id])
  PROVE  FlightsFresh'
BY DEF FlightsFresh, RightWithin, RightIn, FlightIn, ReviewedIn

LEMMA EntriesUntouched ==
  ASSUME EntriesFresh, UNCHANGED <<lag, cache>>
  PROVE  EntriesFresh'
BY DEF EntriesFresh, RightWithin

LEMMA FlightsUntouched ==
  ASSUME FlightsFresh, UNCHANGED <<lag, flights>>
  PROVE  FlightsFresh'
BY DEF FlightsFresh, RightWithin

(* When ages grow by at most e, a sweep that uses up e more time is fresh. *)
LEMMA ReviewedInGrows ==
  ASSUME NEW l, NEW m, NEW id, NEW f \in Flight, NEW g \in Flight,
         NEW e \in Int, g.scope = f.scope, g.todo = f.todo,
         g.left = f.left - e,
         \A q \in Question, b \in BOOLEAN :
           /\ l[id][q][b] \in Int
           /\ m[id][q][b] \in Int
           /\ m[id][q][b] <= l[id][q][b] + e,
         ReviewedIn(l, id, f)
  PROVE  ReviewedIn(m, id, g)
<1> USE RBACAssumption
<1> DEFINE Old(q, b) == l[id][q][b]
           New(q, b) == m[id][q][b]
<1>1. ASSUME NEW q \in Question, NEW b \in BOOLEAN, Old(q, b) <= TTL - f.left
      PROVE  New(q, b) <= TTL - g.left
  <2>1. Old(q, b) \in Int /\ New(q, b) \in Int /\ New(q, b) <= Old(q, b) + e
    BY Zenon
  <2>2. f.left \in Int /\ g.left = f.left - e
    BY DEF Flight
  <2> HIDE DEF Old, New
  <2> QED BY <1>1, <2>1, <2>2
<1>2. CASE f.scope = All
  <2>1. NamespaceAll \in Question /\ TRUE \in BOOLEAN
    BY DEF Question
  <2> QED BY <1>1, <1>2, <2>1, Zenon DEF ReviewedIn
<1>3. CASE f.scope # All
  <2> SUFFICES ASSUME NEW n \in Namespace \ f.todo
               PROVE  New(n, (n \in f.scope)) <= TTL - g.left
    BY <1>3 DEF ReviewedIn
  <2>1. n \in Question /\ (n \in f.scope) \in BOOLEAN
    BY DEF Question
  <2>2. Old(n, (n \in f.scope)) <= TTL - f.left
    BY <1>3 DEF ReviewedIn
  <2> QED BY <1>1, <2>1, <2>2, Zenon
<1> QED BY <1>2, <1>3

LEMMA LagType ==
  ASSUME TypeOK
  PROVE  \A id \in Identity, q \in Question, b \in BOOLEAN :
           lag[id][q][b] \in Int /\ lag[id][q][b] \in 0..(2 * TTL)
BY RBACAssumption DEF TypeOK

(* A change of the cluster ages nothing.                                   *)
LEMMA RelagFresh ==
  ASSUME TypeOK, EntriesFresh, FlightsFresh, NEW grants, NEW existing,
         lag' = Relag(grants, existing), UNCHANGED <<cache, flights>>
  PROVE  EntriesFresh' /\ FlightsFresh'
<1> USE RBACAssumption
<1> DEFINE e == 0
<1>0. e \in Int
  OBVIOUS
<1>1. \A j \in Identity, q \in Question, b \in BOOLEAN :
        /\ lag[j][q][b] \in Int
        /\ lag'[j][q][b] \in Int
        /\ lag'[j][q][b] <= lag[j][q][b] + e
  <2> SUFFICES ASSUME NEW j \in Identity, NEW q \in Question,
                      NEW b \in BOOLEAN
               PROVE  /\ lag[j][q][b] \in Int
                      /\ lag'[j][q][b] \in Int
                      /\ lag'[j][q][b] <= lag[j][q][b] + e
    OBVIOUS
  <2>1. lag[j][q][b] \in 0..(2 * TTL)
    BY LagType
  <2>2. lag'[j][q][b] = 0 \/ lag'[j][q][b] = lag[j][q][b]
    BY RelagType
  <2> QED BY <2>1, <2>2
<1>2. EntriesFresh'
  <2> SUFFICES ASSUME NEW j \in DOMAIN cache
               PROVE  RightIn(lag', j, cache[j].scope, 2 * TTL - cache[j].left)
    BY EntriesFreshAfter
  <2>1. j \in Identity /\ cache[j].left \in Int
    BY DEF TypeOK, Entry
  <2>2. RightIn(lag, j, cache[j].scope, 2 * TTL - cache[j].left)
    BY EntriesFreshDef
  <2> DEFINE d == 2 * TTL - cache[j].left
  <2>3. d \in Int /\ d + e = d
    BY <2>1
  <2> HIDE DEF d, e
  <2>4. RightIn(lag', j, cache[j].scope, d + e)
    BY <1>0, <1>1, <2>1, <2>2, <2>3, RightInGrows DEF d
  <2> QED BY <2>3, <2>4 DEF d
<1>3. FlightsFresh'
  <2> SUFFICES ASSUME NEW j \in DOMAIN flights
               PROVE  FlightIn(lag', j, flights[j])
    BY FlightsFreshAfter
  <2>1. /\ j \in Identity
        /\ flights[j] \in Flight
        /\ flights[j].left = flights[j].left - e
    BY DEF TypeOK, Flight
  <2>2. FlightIn(lag, j, flights[j])
    BY FlightsFreshDef
  <2> DEFINE d == 2 * TTL - 1
  <2>3. d \in Int /\ d + e = d
    OBVIOUS
  <2> HIDE DEF d, e
  <2>4. flights[j].phase = "sweep" => ReviewedIn(lag', j, flights[j])
    BY <1>0, <1>1, <2>1, <2>2, ReviewedInGrows DEF FlightIn
  <2>5. flights[j].phase = "done" => RightIn(lag', j, flights[j].scope, d + e)
    BY <1>0, <1>1, <2>1, <2>2, <2>3, RightInGrows DEF FlightIn, d
  <2> QED BY <2>3, <2>4, <2>5 DEF FlightIn, d
<1> QED BY <1>2, <1>3

LEMMA FreshNext ==
  ASSUME TypeOK, LagCurrent, EntriesFresh, FlightsFresh, Next, TypeOK'
  PROVE  EntriesFresh' /\ FlightsFresh'
<1> USE RBACAssumption
<1>1. CASE ChangeGrants
  BY <1>1, RelagFresh DEF ChangeGrants
<1>14. ASSUME NEW n \in Namespace, ChangeNamespace(n)
       PROVE  EntriesFresh' /\ FlightsFresh'
  BY <1>14, RelagFresh DEF ChangeNamespace
<1>2. ASSUME NEW k \in Caller, NEW id \in Identity, AllowedNamespaces(k, id)
      PROVE  EntriesFresh' /\ FlightsFresh'
  BY <1>2, EntriesUntouched, FlightsUntouched DEF AllowedNamespaces, clusterVars
<1>3. ASSUME NEW k \in Caller, Do(k)
      PROVE  EntriesFresh' /\ FlightsFresh'
  <2>1. EntriesFresh'
    BY <1>3, EntriesUntouched DEF Do, clusterVars
  <2>2. \A j \in DOMAIN flights' :
          \/ flights'[j].phase = "recheck"
          \/ j \in DOMAIN flights /\ flights'[j] = flights[j]
    BY <1>3 DEF Do, Put, TypeOK
  <2>3. \A j \in DOMAIN flights' : FlightIn(lag', j, flights'[j])
    <3> SUFFICES ASSUME NEW j \in DOMAIN flights'
                 PROVE  FlightIn(lag, j, flights'[j])
      BY <1>3 DEF Do, clusterVars
    <3>1. CASE flights'[j].phase = "recheck"
      BY <3>1 DEF FlightIn
    <3>2. CASE j \in DOMAIN flights /\ flights'[j] = flights[j]
      BY <3>2, FlightsFreshDef
    <3> QED BY <2>2, <3>1, <3>2
  <2> QED BY <2>1, <2>3, FlightsFreshAfter
<1>4. ASSUME NEW id \in Identity, Recheck(id)
      PROVE  EntriesFresh' /\ FlightsFresh'
  <2> DEFINE f == IF Valid(id)
                  THEN [flights[id] EXCEPT !.phase = "done",
                                           !.scope = cache[id].scope]
                  ELSE [flights[id] EXCEPT !.phase = "probe", !.left = TTL]
  <2>1. id \in DOMAIN flights /\ flights[id] \in Flight /\ Fly(id, f)
    BY <1>4 DEF Recheck, InPhase, TypeOK
  <2>2. CASE Valid(id)
    <3>1. f.phase = "done" /\ f.scope = cache[id].scope
      BY <2>1, <2>2 DEF Flight
    <3>2. /\ id \in DOMAIN cache /\ cache[id].left \in Int
          /\ cache[id].left > 0
      BY <2>2 DEF Valid, TypeOK, Entry
    <3>3. RightIn(lag, id, cache[id].scope, 2 * TTL - cache[id].left)
      BY <3>2, EntriesFreshDef
    <3> DEFINE d == 2 * TTL - cache[id].left
               e == cache[id].left - 1
    <3>4. d \in Int /\ e \in Int /\ e >= 0 /\ d + e = 2 * TTL - 1
      BY <3>2
    <3> HIDE DEF d, e
    <3>5. \A q \in Question, b \in BOOLEAN :
            lag[id][q][b] \in Int /\ lag[id][q][b] <= lag[id][q][b] + e
      <4> SUFFICES ASSUME NEW q \in Question, NEW b \in BOOLEAN
                   PROVE  lag[id][q][b] \in Int
                            /\ lag[id][q][b] <= lag[id][q][b] + e
        OBVIOUS
      <4>1. lag[id][q][b] \in Int
        BY LagType
      <4> QED BY <3>4, <4>1
    <3>6. RightIn(lag, id, cache[id].scope, d + e)
      BY <3>3, <3>4, <3>5, RightInGrows DEF d
    <3>7. FlightIn(lag, id, f)
      BY <3>1, <3>4, <3>6 DEF FlightIn
    <3> QED BY <1>4, <2>1, <3>7, FlyFresh, EntriesUntouched
            DEF Recheck, clusterVars
  <2>3. CASE ~Valid(id)
    <3>1. f.phase = "probe"
      BY <2>1, <2>3 DEF Flight
    <3> HIDE DEF f
    <3> QED BY <1>4, <2>1, <3>1, FlyFresh, EntriesUntouched
            DEF Recheck, clusterVars, FlightIn
  <2> QED BY <2>2, <2>3
<1>5. ASSUME NEW id \in Identity, Probe(id)
      PROVE  EntriesFresh' /\ FlightsFresh'
  <2> DEFINE f == IF CanListPods(may, id, NamespaceAll)
                  THEN [flights[id] EXCEPT !.phase = "sweep", !.scope = All]
                  ELSE [flights[id] EXCEPT !.phase = "list"]
  <2>1. id \in DOMAIN flights /\ flights[id] \in Flight /\ Fly(id, f)
    BY <1>5 DEF Probe, InPhase, TypeOK
  <2>2. flights[id].left \in 0..TTL
    BY <2>1 DEF Flight
  <2>3. FlightIn(lag, id, f)
    <3>1. CASE CanListPods(may, id, NamespaceAll)
      <4>1. f.phase = "sweep" /\ f.scope = All /\ f.left = flights[id].left
        BY <2>1, <3>1 DEF Flight
      <4>2. lag[id][NamespaceAll][TRUE] = 0
        <5>1. CanListPods(may, id, NamespaceAll) = TRUE
          BY <3>1, CanListPodsType
        <5>2. NamespaceAll \in Question
          BY DEF Question
        <5> QED BY <5>1, <5>2, ReviewRight
      <4> HIDE DEF f
      <4> QED BY <2>2, <4>1, <4>2 DEF FlightIn, ReviewedIn
    <3>2. CASE ~CanListPods(may, id, NamespaceAll)
      <4>1. f.phase = "list"
        BY <2>1, <3>2 DEF Flight
      <4> HIDE DEF f
      <4> QED BY <4>1 DEF FlightIn
    <3> QED BY <3>1, <3>2
  <2> HIDE DEF f
  <2> QED BY <1>5, <2>1, <2>3, FlyFresh, EntriesUntouched
          DEF Probe, clusterVars
<1>15. ASSUME NEW id \in Identity, List(id)
       PROVE  EntriesFresh' /\ FlightsFresh'
  <2> DEFINE f == [flights[id] EXCEPT !.phase = "sweep", !.todo = namespaces]
  <2>1. id \in DOMAIN flights /\ flights[id] \in Flight /\ Fly(id, f)
    BY <1>15 DEF List, InPhase, TypeOK
  <2>2. flights[id].scope = {} /\ {} # All /\ flights[id].left \in 0..TTL
    BY <1>15, <2>1 DEF List, InPhase, TypeOK, Flight, FlightShape
  <2>3. ReviewedIn(lag, id, f) /\ f.phase = "sweep"
    <3>1. /\ f.phase = "sweep"
          /\ f.scope = {}
          /\ f.todo = namespaces
          /\ f.left = flights[id].left
      BY <2>1, <2>2 DEF Flight
    <3> HIDE DEF f
    <3>2. ASSUME NEW n \in Namespace \ namespaces
          PROVE  lag[id][n][FALSE] = 0
      BY DEF LagCurrent, Right, Question
    <3>3. ASSUME NEW n \in Namespace \ f.todo
          PROVE  lag[id][n][(n \in f.scope)] <= TTL - f.left
      <4>1. (n \in f.scope) = FALSE /\ n \in Namespace \ namespaces
        BY <3>1
      <4>2. lag[id][n][(n \in f.scope)] = 0
        BY <3>2, <4>1, Zenon
      <4> QED BY <2>2, <3>1, <4>2
    <3> QED BY <2>2, <3>1, <3>3, Zenon DEF ReviewedIn
  <2> HIDE DEF f
  <2> QED BY <1>15, <2>1, <2>3, FlyFresh, EntriesUntouched
          DEF List, clusterVars, FlightIn
<1>6. ASSUME NEW id \in Identity, NEW n \in Namespace, Review(id, n)
      PROVE  EntriesFresh' /\ FlightsFresh'
  <2> DEFINE f == flights[id]
             g == [f EXCEPT !.todo = @ \ {n},
                            !.scope = IF CanListPods(may, id, n)
                                      THEN @ \cup {n} ELSE @]
  <2>1. id \in DOMAIN flights /\ f \in Flight /\ Fly(id, g)
    BY <1>6 DEF Review, InPhase, TypeOK
  <2>2. /\ f.phase = "sweep" /\ n \in f.todo /\ f.scope # All
        /\ n \notin f.scope
    BY <1>6 DEF Review, InPhase, TypeOK, FlightShape
  <2>3. f.scope \in SUBSET Namespace /\ f.left \in 0..TTL
    BY <2>1, <2>2 DEF Flight, Scope
  <2>4. ReviewedIn(lag, id, f)
    BY <2>1, <2>2, FlightsFreshDef DEF FlightIn
  <2> HIDE DEF f
  <2>5. /\ g.phase = "sweep" /\ g.todo = f.todo \ {n} /\ g.left = f.left
        /\ g.scope = IF CanListPods(may, id, n)
                     THEN f.scope \cup {n} ELSE f.scope
    BY <2>1, <2>2 DEF Flight
  <2> HIDE DEF g
  <2>6. g.scope # All
    BY <2>3, <2>5
  <2>7. ASSUME NEW m \in Namespace \ g.todo
        PROVE  lag[id][m][(m \in g.scope)] <= TTL - g.left
    <3>1. CASE m = n
      <4>1. (m \in g.scope) = CanListPods(may, id, n)
        BY <2>2, <2>5, <3>1, CanListPodsType
      <4>2. lag[id][n][CanListPods(may, id, n)] = 0
        BY ReviewRight DEF Question
      <4>3. lag[id][m][(m \in g.scope)] = 0
        BY <3>1, <4>1, <4>2, Zenon
      <4>4. 0 <= TTL - g.left
        BY <2>3, <2>5
      <4> QED BY <4>3, <4>4
    <3>2. CASE m # n
      <4>1. (m \in g.scope) = (m \in f.scope) /\ m \in Namespace \ f.todo
        BY <2>5, <3>2
      <4>2. lag[id][m][(m \in f.scope)] <= TTL - f.left
        BY <2>2, <2>4, <4>1 DEF ReviewedIn
      <4> QED BY <2>5, <4>1, <4>2, Zenon
    <3> QED BY <3>1, <3>2
  <2>8. ReviewedIn(lag, id, g)
    BY <2>6, <2>7, Zenon DEF ReviewedIn
  <2> QED BY <1>6, <2>1, <2>5, <2>8, FlyFresh, EntriesUntouched
          DEF Review, clusterVars, FlightIn
<1>7. ASSUME NEW id \in Identity, Fail(id)
      PROVE  EntriesFresh' /\ FlightsFresh'
  <2> DEFINE f == [flights[id] EXCEPT !.phase = "failed"]
  <2>1. id \in DOMAIN flights /\ flights[id] \in Flight /\ Fly(id, f)
    BY <1>7 DEF Fail, Resolving, InPhase, TypeOK
  <2>2. f.phase = "failed"
    BY <2>1 DEF Flight
  <2> HIDE DEF f
  <2> QED BY <1>7, <2>1, <2>2, FlyFresh, EntriesUntouched
          DEF Fail, clusterVars, FlightIn
<1>8. ASSUME NEW id \in Identity, Store(id)
      PROVE  EntriesFresh' /\ FlightsFresh'
  <2> DEFINE f == flights[id]
             g == [f EXCEPT !.phase = "done"]
  <2>1. id \in DOMAIN flights /\ f \in Flight /\ Fly(id, g) /\ f.left \in 0..TTL
    BY <1>8 DEF Store, InPhase, TypeOK, Flight
  <2>2. f.phase = "sweep" /\ f.todo = {}
    BY <1>8 DEF Store, InPhase
  <2>3. ReviewedIn(lag, id, f)
    BY <2>1, <2>2, FlightsFreshDef DEF FlightIn
  <2>4. \A q \in Question, b \in BOOLEAN : lag[id][q][b] \in Int
    BY LagType
  <2>5. lag' = lag
    BY <1>8 DEF Store, clusterVars
  <2> HIDE DEF f
  <2>6. RightIn(lag, id, f.scope, 2 * TTL - 1)
    <3>1. 2 * TTL - 1 \in Int /\ TTL - f.left <= 2 * TTL - 1
      BY <2>1
    <3> QED BY <2>1, <2>2, <2>3, <2>4, <3>1, SweptIsRight
  <2>7. RightIn(lag, id, f.scope, 2 * TTL - TTL)
    <3>1. 2 * TTL - TTL \in Int /\ TTL - f.left <= 2 * TTL - TTL
      BY <2>1
    <3> QED BY <2>1, <2>2, <2>3, <2>4, <3>1, SweptIsRight
  <2>8. FlightsFresh'
    <3>1. g.phase = "done" /\ g.scope = f.scope
      BY <2>1 DEF Flight
    <3> HIDE DEF g
    <3> QED BY <2>1, <2>5, <2>6, <3>1, FlyFresh DEF FlightIn
  <2>9. EntriesFresh'
    <3> DEFINE new == [scope |-> f.scope, left |-> TTL]
    <3>1. PICK kept \in MakeRoom : cache' = Put(Restricted(cache, kept), id, new)
      BY <1>8 DEF Store, f
    <3>2. kept \subseteq DOMAIN cache
      BY DEF MakeRoom, ValidKeys
    <3>3. new.scope = f.scope /\ new.left = TTL
      OBVIOUS
    <3> HIDE DEF new
    <3>4. \A j \in DOMAIN cache' :
            \/ j = id /\ cache'[j] = new
            \/ j \in DOMAIN cache /\ cache'[j] = cache[j]
      BY <3>1, <3>2 DEF Put, Restricted
    <3> SUFFICES ASSUME NEW j \in DOMAIN cache'
                 PROVE  RightIn(lag, j, cache'[j].scope,
                                2 * TTL - cache'[j].left)
      BY <2>5, EntriesFreshAfter
    <3>5. CASE j = id /\ cache'[j] = new
      BY <2>7, <3>3, <3>5
    <3>6. CASE j \in DOMAIN cache /\ cache'[j] = cache[j]
      BY <3>6, EntriesFreshDef
    <3> QED BY <3>4, <3>5, <3>6
  <2> QED BY <2>8, <2>9
<1>9. ASSUME NEW id \in Identity, Land(id)
      PROVE  EntriesFresh' /\ FlightsFresh'
  <2>1. \A j \in DOMAIN flights' :
          j \in DOMAIN flights /\ flights'[j] = flights[j]
    BY <1>9 DEF Land, Restricted
  <2>2. lag' = lag
    BY <1>9 DEF Land, clusterVars
  <2>3. FlightsFresh'
    BY <2>1, <2>2, FlightsFreshDef, FlightsFreshAfter
  <2> QED BY <1>9, <2>3, EntriesUntouched DEF Land, clusterVars
<1>10. ASSUME NEW k \in Caller, Finish(k)
       PROVE  EntriesFresh' /\ FlightsFresh'
  BY <1>10, EntriesUntouched, FlightsUntouched DEF Finish, clusterVars
<1>11. CASE Evict
  <2>1. \A j \in DOMAIN cache' :
          j \in DOMAIN cache /\ cache'[j] = cache[j]
    BY <1>11 DEF Evict, Restricted, ValidKeys
  <2>2. lag' = lag
    BY <1>11 DEF Evict, clusterVars
  <2>3. EntriesFresh'
    BY <2>1, <2>2, EntriesFreshDef, EntriesFreshAfter
  <2> QED BY <1>11, <2>3, FlightsUntouched DEF Evict, clusterVars
<1>13. ASSUME NEW ids \in SUBSET Identity, Invalidate(ids)
       PROVE  EntriesFresh' /\ FlightsFresh'
  <2>1. \A j \in DOMAIN cache' :
          j \in DOMAIN cache /\ cache'[j] = cache[j]
    BY <1>13 DEF Invalidate, Restricted
  <2>2. lag' = lag
    BY <1>13 DEF Invalidate, clusterVars
  <2>3. EntriesFresh'
    BY <2>1, <2>2, EntriesFreshDef, EntriesFreshAfter
  <2> QED BY <1>13, <2>3, FlightsUntouched DEF Invalidate, clusterVars
<1>12. CASE Tick
  <2>1. \A j \in Identity, q \in Question, b \in BOOLEAN :
          /\ lag[j][q][b] \in Int
          /\ lag'[j][q][b] \in Int
          /\ lag'[j][q][b] <= lag[j][q][b] + 1
    <3> SUFFICES ASSUME NEW j \in Identity, NEW q \in Question,
                        NEW b \in BOOLEAN
                 PROVE  /\ lag[j][q][b] \in Int
                        /\ lag'[j][q][b] \in Int
                        /\ lag'[j][q][b] <= lag[j][q][b] + 1
      OBVIOUS
    <3>1. /\ lag'[j][q][b] \in 0..(2 * TTL)
          /\ lag'[j][q][b] <= lag[j][q][b] + 1
      BY <1>12, LagStep
    <3>2. lag[j][q][b] \in 0..(2 * TTL)
      BY LagType
    <3> QED BY <3>1, <3>2
  <2>2. EntriesFresh'
    <3> SUFFICES ASSUME NEW j \in DOMAIN cache
                 PROVE  RightIn(lag', j, cache'[j].scope,
                                2 * TTL - cache'[j].left)
      BY <1>12, EntriesFreshAfter DEF Tick
    <3> DEFINE c == cache[j]
    <3>1. j \in Identity /\ c \in Entry /\ cache'[j] = [c EXCEPT !.left = @ - 1]
      BY <1>12 DEF Tick, TypeOK
    <3>2. RightIn(lag, j, c.scope, 2 * TTL - c.left)
      BY EntriesFreshDef
    <3> HIDE DEF c
    <3>3. /\ c.left \in Int
          /\ cache'[j].scope = c.scope
          /\ cache'[j].left = c.left - 1
      BY <3>1 DEF Entry
    <3>4. RightIn(lag', j, c.scope, (2 * TTL - c.left) + 1)
      BY <2>1, <3>1, <3>2, <3>3, RightInGrows
    <3>5. (2 * TTL - c.left) + 1 = 2 * TTL - cache'[j].left
      BY <3>3
    <3> QED BY <3>3, <3>4, <3>5
  <2>3. FlightsFresh'
    <3> SUFFICES ASSUME NEW j \in DOMAIN flights
                 PROVE  FlightIn(lag', j, flights'[j])
      BY <1>12, FlightsFreshAfter DEF Tick
    <3> DEFINE f == flights[j]
               g == flights'[j]
    <3>1. /\ j \in Identity /\ f \in Flight
          /\ f.phase \in {"probe", "list", "sweep"}
          /\ g = [f EXCEPT !.left = @ - 1]
      BY <1>12 DEF Tick, ClockMayMove, Resolving, InPhase, TypeOK
    <3>2. g \in Flight
      BY <1>12 DEF Tick, TypeOK
    <3>3. FlightIn(lag, j, f)
      BY FlightsFreshDef
    <3> HIDE DEF f, g
    <3>4. /\ g.phase = f.phase /\ g.scope = f.scope /\ g.todo = f.todo
          /\ g.left = f.left - 1
      BY <3>1 DEF Flight
    <3> DEFINE e == 1
    <3>0. /\ e \in Int
          /\ g.left = f.left - e
          /\ \A q \in Question, b \in BOOLEAN :
               /\ lag[j][q][b] \in Int
               /\ lag'[j][q][b] \in Int
               /\ lag'[j][q][b] <= lag[j][q][b] + e
      BY <2>1, <3>1, <3>4
    <3> HIDE DEF e
    <3>5. ASSUME f.phase = "sweep"
          PROVE  ReviewedIn(lag', j, g)
      <4>1. ReviewedIn(lag, j, f)
        BY <3>3, <3>5 DEF FlightIn
      <4>2. f \in Flight /\ g \in Flight /\ g.scope = f.scope /\ g.todo = f.todo
        BY <3>1, <3>2, <3>4
      <4> QED BY ONLY <3>0, <4>1, <4>2, ReviewedInGrows, Zenon
    <3>6. FlightIn(lag', j, g)
      BY <3>1, <3>4, <3>5 DEF FlightIn
    <3> QED BY <3>6 DEF g
  <2> QED BY <2>2, <2>3
<1> QED BY <1>1, <1>2, <1>3, <1>4, <1>5, <1>6, <1>7, <1>8, <1>9, <1>10,
           <1>11, <1>12, <1>13, <1>14, <1>15 DEF Next

-----------------------------------------------------------------------------
(* store leaves at most maxCache entries, whatever makes room for them.    *)
LEMMA StoreBounded ==
  ASSUME TypeOK, CacheBounded, NEW id \in Identity, Store(id)
  PROVE  CacheBounded'
<1> USE RBACAssumption
<1>1. IsFiniteSet(DOMAIN cache)
  BY FS_Subset DEF TypeOK
<1>2. ValidKeys \in SUBSET DOMAIN cache
  BY DEF ValidKeys
<1>3. PICK kept \in MakeRoom : DOMAIN cache' = kept \cup {id}
  BY DEF Store, Put, Restricted
<1>4. kept \in SUBSET DOMAIN cache
  BY <1>2 DEF MakeRoom
<1>5. IsFiniteSet(kept) /\ Cardinality(kept) \in Nat
  BY <1>1, <1>4, FS_Subset, FS_CardinalityType
<1>6. Cardinality(kept) <= MaxCache - 1
  <2>1. Cardinality(DOMAIN cache) \in Nat /\ Cardinality(ValidKeys) \in Nat
    BY <1>1, <1>2, FS_Subset, FS_CardinalityType
  <2> QED BY <2>1, <1>3 DEF MakeRoom
<1>7. Cardinality(kept \cup {id}) <= Cardinality(kept) + 1
  <2>1. Cardinality(kept \cup {id})
          = IF id \in kept THEN Cardinality(kept) ELSE Cardinality(kept) + 1
    BY <1>5, FS_AddElement
  <2> QED BY <1>5, <2>1
<1>8. Cardinality(kept \cup {id}) \in Nat
  BY <1>5, FS_AddElement, FS_CardinalityType
<1>9. Cardinality(kept \cup {id}) <= MaxCache
  BY <1>5, <1>6, <1>7, <1>8
<1> QED BY <1>3, <1>9 DEF CacheBounded

LEMMA BoundedNext ==
  ASSUME TypeOK, CacheBounded, Next
  PROVE  CacheBounded'
<1>1. ASSUME NEW id \in Identity, Store(id)
      PROVE  CacheBounded'
  BY <1>1, StoreBounded
<1>2. ASSUME DOMAIN cache' \in SUBSET DOMAIN cache
      PROVE  CacheBounded'
  <2>1. IsFiniteSet(DOMAIN cache)
    BY RBACAssumption, FS_Subset DEF TypeOK
  <2>2. Cardinality(DOMAIN cache') <= Cardinality(DOMAIN cache)
    BY <1>2, <2>1, FS_Subset
  <2>3. Cardinality(DOMAIN cache') \in Nat /\ Cardinality(DOMAIN cache) \in Nat
    BY <1>2, <2>1, FS_Subset, FS_CardinalityType
  <2> QED BY <2>2, <2>3, RBACAssumption DEF CacheBounded
<1>3. CASE Tick
  <2>1. DOMAIN cache' = DOMAIN cache
    BY <1>3 DEF Tick
  <2> QED BY <2>1 DEF CacheBounded
<1>4. ASSUME UNCHANGED cache
      PROVE  CacheBounded'
  BY <1>4 DEF CacheBounded
<1>5. CASE Evict
  BY <1>2, <1>5 DEF Evict, Restricted, ValidKeys
<1>6. ASSUME NEW ids \in SUBSET Identity, Invalidate(ids)
      PROVE  CacheBounded'
  BY <1>2, <1>6 DEF Invalidate, Restricted
<1> QED BY <1>1, <1>3, <1>4, <1>5, <1>6
        DEF Next, ChangeGrants, ChangeNamespace, AllowedNamespaces, Recheck,
            Probe, List, Fail, Land, Review, Do, Finish

(* How each step changes the entries: an untouched one, one a tick older,  *)
(* or the new one of a finished sweep.                                     *)
LEMMA EntryStep ==
  ASSUME TypeOK, Next, NEW id \in DOMAIN cache'
  PROVE  \/ /\ id \in DOMAIN cache /\ cache'[id].left = cache[id].left
            /\ evictIn' = evictIn
         \/ /\ id \in DOMAIN cache /\ cache'[id].left = cache[id].left - 1
            /\ evictIn' = evictIn - 1
         \/ /\ id \in DOMAIN cache /\ cache'[id].left = cache[id].left
            /\ evictIn' = TTL /\ cache[id].left > 0
         \/ cache'[id].left = TTL /\ Store(id) /\ evictIn' = evictIn
<1>1. ASSUME NEW j \in Identity, Store(j)
      PROVE  \/ /\ id \in DOMAIN cache /\ cache'[id].left = cache[id].left
                /\ evictIn' = evictIn
             \/ cache'[id].left = TTL /\ Store(id) /\ evictIn' = evictIn
  <2>1. PICK kept \in MakeRoom :
          cache' = Put(Restricted(cache, kept), j,
                       [scope |-> flights[j].scope, left |-> TTL])
    BY <1>1 DEF Store
  <2>2. kept \subseteq DOMAIN cache
    BY DEF MakeRoom, ValidKeys
  <2>3. evictIn' = evictIn
    BY <1>1 DEF Store
  <2>4. CASE id = j
    BY <1>1, <2>1, <2>3, <2>4 DEF Put
  <2>5. CASE id # j
    BY <2>1, <2>2, <2>3, <2>5 DEF Put, Restricted
  <2> QED BY <2>4, <2>5
<1>2. CASE Evict
  BY <1>2 DEF Evict, Restricted, ValidKeys
<1>3. CASE Tick
  <2>1. id \in DOMAIN cache /\ cache'[id] = [cache[id] EXCEPT !.left = @ - 1]
    BY <1>3 DEF Tick
  <2>2. cache[id] \in Entry
    BY <2>1 DEF TypeOK
  <2> QED BY <1>3, <2>1, <2>2 DEF Tick, Entry
<1>4. CASE UNCHANGED <<cache, evictIn>>
  BY <1>4
<1>5. ASSUME NEW ids \in SUBSET Identity, Invalidate(ids)
      PROVE  /\ id \in DOMAIN cache /\ cache'[id].left = cache[id].left
             /\ evictIn' = evictIn
  BY <1>5 DEF Invalidate, Restricted
<1> QED BY <1>1, <1>2, <1>3, <1>4, <1>5
        DEF Next, ChangeGrants, ChangeNamespace, AllowedNamespaces, Recheck,
            Probe, List, Fail, Land, Review, Do, Finish

LEMMA EvictedNext ==
  ASSUME TypeOK, ExpiredEntriesEvicted, Next
  PROVE  ExpiredEntriesEvicted'
<1> SUFFICES ASSUME NEW id \in DOMAIN cache'
             PROVE  cache'[id].left > evictIn' - TTL
  BY DEF ExpiredEntriesEvicted
<1>1. id \in DOMAIN cache =>
        cache[id].left \in Int /\ cache[id].left > evictIn - TTL
  BY DEF TypeOK, Entry, ExpiredEntriesEvicted
<1>2. evictIn \in 0..TTL
  BY DEF TypeOK
<1> QED BY <1>1, <1>2, EntryStep, RBACAssumption

-----------------------------------------------------------------------------
(* A flight that resolves after a step did so before it, or has just       *)
(* found no valid entry.                                                   *)
LEMMA ResolvingStep ==
  ASSUME TypeOK, Next, NEW id \in Identity, Resolving(id)'
  PROVE  /\ Resolving(id) \/ (~Valid(id) /\ UNCHANGED cache)
         /\ ~Store(id)
<1>1. id \in DOMAIN flights' /\ flights'[id].phase \in {"probe", "list", "sweep"}
  BY DEF Resolving, InPhase
<1>2. ~Store(id)
  <2> SUFFICES ASSUME Store(id) PROVE FALSE
    OBVIOUS
  <2>1. /\ id \in DOMAIN flights /\ flights[id] \in Flight
        /\ flights'[id] = [flights[id] EXCEPT !.phase = "done"]
    BY DEF Store, InPhase, Fly, TypeOK
  <2>2. flights'[id].phase = "done"
    BY <2>1 DEF Flight
  <2> QED BY <1>1, <2>2
<1>3. ASSUME NEW j \in Identity, NEW f,
             j \in DOMAIN flights, Fly(j, f), Resolving(j)
      PROVE  Resolving(id)
  <2>1. id \in DOMAIN flights /\ (id # j => flights'[id] = flights[id])
    BY <1>1, <1>3 DEF Fly, TypeOK
  <2> QED BY <1>1, <1>3, <2>1 DEF Resolving, InPhase
<1>4. ASSUME NEW j \in Identity, Recheck(j)
      PROVE  Resolving(id) \/ (~Valid(id) /\ UNCHANGED cache)
  <2>1. j \in DOMAIN flights /\ flights[j] \in Flight
    BY <1>4 DEF Recheck, InPhase, TypeOK
  <2>2. id \in DOMAIN flights /\ (id # j => flights'[id] = flights[id])
    BY <1>1, <1>4, <2>1 DEF Recheck, Fly, TypeOK
  <2>3. CASE id # j
    BY <1>1, <2>2, <2>3 DEF Resolving, InPhase
  <2>4. CASE id = j
    <3>1. Valid(j) => flights'[j].phase = "done"
      BY <1>4, <2>1 DEF Recheck, Fly, TypeOK, Flight
    <3> QED BY <1>1, <1>4, <2>4, <3>1 DEF Recheck
  <2> QED BY <2>3, <2>4
<1>5. ASSUME NEW j \in Identity, NEW n \in Namespace,
             Review(j, n)
      PROVE  Resolving(id)
  <2>1. j \in DOMAIN flights /\ Resolving(j) /\ \E f : Fly(j, f)
    BY <1>5 DEF Review, Resolving, InPhase
  <2> QED BY <1>3, <2>1
<1>6. ASSUME NEW j \in Identity,
             Fail(j) \/ Store(j) \/ Probe(j) \/ List(j)
      PROVE  Resolving(id)
  <2>1. j \in DOMAIN flights /\ Resolving(j) /\ \E f : Fly(j, f)
    BY <1>6 DEF Probe, List, Fail, Store, Resolving, InPhase
  <2> QED BY <1>3, <2>1
<1>7. ASSUME NEW j \in Identity, Land(j)
      PROVE  Resolving(id)
  BY <1>1, <1>7 DEF Land, Restricted, Resolving, InPhase
<1>8. ASSUME NEW k \in Caller, Do(k)
      PROVE  Resolving(id)
  BY <1>1, <1>8 DEF Do, Put, Resolving, InPhase
<1>9. CASE Tick
  <2>1. id \in DOMAIN flights /\ Resolving(id)
    BY <1>1, <1>9 DEF Tick, ClockMayMove
  <2> QED BY <1>2, <2>1
<1>10. CASE UNCHANGED flights
  BY <1>1, <1>2, <1>10 DEF Resolving, InPhase
<1>11. Resolving(id) \/ (~Valid(id) /\ UNCHANGED cache)
  BY <1>2, <1>4, <1>5, <1>6, <1>7, <1>8, <1>9, <1>10
     DEF Next, ChangeGrants, ChangeNamespace, AllowedNamespaces, Finish, Evict,
         Invalidate
<1> QED BY <1>2, <1>11

LEMMA NoSweepNext ==
  ASSUME TypeOK, NoSweepWhileCached, Next
  PROVE  NoSweepWhileCached'
<1> SUFFICES ASSUME NEW id \in Identity, Resolving(id)', Valid(id)'
             PROVE  FALSE
  BY DEF NoSweepWhileCached
<1>1. id \in DOMAIN cache' /\ cache'[id].left > 0
  BY DEF Valid
<1>2. ~Store(id)
  BY ResolvingStep
<1>3. id \in DOMAIN cache /\ cache[id].left \in Int /\ cache[id].left > 0
  <2>1. id \in DOMAIN cache
    BY <1>1, <1>2, EntryStep
  <2>2. cache[id].left \in Int
    BY <2>1 DEF TypeOK, Entry
  <2> QED BY <1>1, <1>2, <2>1, <2>2, EntryStep
<1> QED BY <1>3, ResolvingStep DEF NoSweepWhileCached, Valid

-----------------------------------------------------------------------------
RBACInv ==
  /\ TypeOK
  /\ LagCurrent
  /\ EntriesFresh
  /\ FlightsFresh
  /\ CacheBounded
  /\ ExpiredEntriesEvicted
  /\ NoSweepWhileCached

LEMMA RBACInit ==
  ASSUME Init
  PROVE  RBACInv
<1>1. DOMAIN cache = {} /\ DOMAIN flights = {}
  BY DEF Init
<1>2. CacheBounded
  BY <1>1, FS_EmptySet, RBACAssumption DEF CacheBounded
<1> QED BY <1>1, <1>2, TypeInit, FreshInit
        DEF RBACInv, ExpiredEntriesEvicted, NoSweepWhileCached, Valid

LEMMA RBACNext ==
  ASSUME RBACInv, [Next]_vars
  PROVE  RBACInv'
<1>1. CASE Next
  BY <1>1, TypeNext, FreshNext, BoundedNext, EvictedNext, NoSweepNext
     DEF RBACInv
<1>2. CASE UNCHANGED vars
  BY <1>2 DEF vars, RBACInv, TypeOK, LagCurrent, EntriesFresh, FlightsFresh,
              RightWithin, CacheBounded, ExpiredEntriesEvicted,
              NoSweepWhileCached, Resolving, InPhase, Valid
<1> QED BY <1>1, <1>2

(***************************************************************************)
(* What the cache and the flights hold is well typed, made of facts whose  *)
(* age is bounded by the time used up, within maxCache, gone within one    *)
(* sweeper period of its expiry, and never fetched beside a valid entry.   *)
(***************************************************************************)
THEOREM RBACSafe == Spec => []RBACInv
<1>1. Init => RBACInv
  BY RBACInit
<1>2. RBACInv /\ [Next]_vars => RBACInv'
  BY RBACNext
<1> QED BY <1>1, <1>2, PTL DEF Spec

(* The cache, the flights and the callers are well typed: a flight carries *)
(* the phase and the time of rbac.go's resolve.                            *)
THEOREM RBACTyped == Spec => []TypeOK
<1>1. RBACInv => TypeOK BY DEF RBACInv
<1> QED BY <1>1, RBACSafe, PTL

(* Every fact a cached scope states was true within the time the entry has *)
(* used up and, before that, the TTL its sweep had (rbac.go: store counts  *)
(* from when the sweep is over).                                           *)
THEOREM RBACEntriesFresh == Spec => []EntriesFresh
<1>1. RBACInv => EntriesFresh BY DEF RBACInv
<1> QED BY <1>1, RBACSafe, PTL

(* The same of the answers a flight has collected so far.                  *)
THEOREM RBACFlightsFresh == Spec => []FlightsFresh
<1>1. RBACInv => FlightsFresh BY DEF RBACInv
<1> QED BY <1>1, RBACSafe, PTL

(* However many identities resolve at once, maxCache bounds the cache.     *)
THEOREM RBACCacheBounded == Spec => []CacheBounded
<1>1. RBACInv => CacheBounded BY DEF RBACInv
<1> QED BY <1>1, RBACSafe, PTL

(* The sweeper keeps no entry a period beyond its expiry.                  *)
THEOREM RBACExpiredEvicted == Spec => []ExpiredEntriesEvicted
<1>1. RBACInv => ExpiredEntriesEvicted BY DEF RBACInv
<1> QED BY <1>1, RBACSafe, PTL

(* Singleflight and the re-check: no sweep beside a valid entry.           *)
THEOREM RBACNoSweepWhileCached == Spec => []NoSweepWhileCached
<1>1. RBACInv => NoSweepWhileCached BY DEF RBACInv
<1> QED BY <1>1, RBACSafe, PTL

-----------------------------------------------------------------------------
(* A bound that holds holds for a looser one.                              *)
LEMMA RightInWeakens ==
  ASSUME TypeOK, NEW id \in Identity, NEW scope, NEW d \in Int, NEW e \in Int,
         d <= e, RightIn(lag, id, scope, d)
  PROVE  RightIn(lag, id, scope, e)
<1> DEFINE Age(q, b) == lag[id][q][b]
<1>1. ASSUME NEW q \in Question, NEW b \in BOOLEAN, Age(q, b) <= d
      PROVE  Age(q, b) <= e
  <2>1. Age(q, b) \in Int
    BY LagType, Zenon
  <2> HIDE DEF Age
  <2> QED BY <1>1, <2>1
<1>2. CASE scope = All
  <2>1. NamespaceAll \in Question /\ TRUE \in BOOLEAN
    BY DEF Question
  <2> QED BY <1>1, <1>2, <2>1, Zenon DEF RightIn
<1>3. CASE scope # All
  <2> SUFFICES ASSUME NEW n \in Namespace
               PROVE  Age(n, (n \in scope)) <= e
    BY <1>3 DEF RightIn
  <2>1. n \in Question /\ (n \in scope) \in BOOLEAN
    BY DEF Question
  <2>2. Age(n, (n \in scope)) <= d
    BY <1>3 DEF RightIn
  <2> QED BY <1>1, <2>1, <2>2, Zenon
<1> QED BY <1>2, <1>3

LEMMA AnswerStep ==
  ASSUME TypeOK, EntriesFresh, FlightsFresh, [Next]_vars, NEW k \in Caller,
         callers'[k].pc = "answered", callers[k].pc # "answered"
  PROVE  RightIn(lag, callers'[k].id, callers'[k].scope, 2 * TTL - 1)
<1> USE RBACAssumption
<1>1. ASSUME NEW j \in Caller, NEW id \in Identity, AllowedNamespaces(j, id)
      PROVE  RightIn(lag, callers'[k].id, callers'[k].scope, 2 * TTL - 1)
  <2>1. /\ Valid(id)
        /\ callers'[k].id = id /\ callers'[k].scope = cache[id].scope
    BY <1>1 DEF AllowedNamespaces, TypeOK
  <2>2. id \in DOMAIN cache /\ cache[id].left \in Int /\ cache[id].left > 0
    BY <2>1 DEF Valid, TypeOK, Entry
  <2> DEFINE d == 2 * TTL - cache[id].left
             e == 2 * TTL - 1
  <2>3. d \in Int /\ e \in Int /\ d <= e
    BY <2>2
  <2>4. RightIn(lag, id, cache[id].scope, d)
    BY <2>2, EntriesFreshDef
  <2> HIDE DEF d, e
  <2>5. RightIn(lag, id, cache[id].scope, e)
    BY <2>3, <2>4, RightInWeakens
  <2> QED BY <2>1, <2>5 DEF e
<1>2. ASSUME NEW id \in Identity, Land(id)
      PROVE  RightIn(lag, callers'[k].id, callers'[k].scope, 2 * TTL - 1)
  <2>1. /\ id \in DOMAIN flights /\ flights[id].phase = "done"
        /\ callers'[k].id = id /\ callers'[k].scope = flights[id].scope
    BY <1>2 DEF Land, InPhase, TypeOK
  <2> QED BY <2>1, FlightsFreshDef DEF FlightIn
<1>3. ASSUME NEW j \in Caller, Do(j) \/ Finish(j)
      PROVE  FALSE
  BY <1>3 DEF Do, Finish, TypeOK
<1>4. CASE UNCHANGED callers
  BY <1>4
<1> QED BY <1>1, <1>2, <1>3, <1>4
        DEF Next, vars, ChangeGrants, ChangeNamespace, Recheck, Probe, List,
            Fail, Store, Review, Evict, Tick, Invalidate

(***************************************************************************)
(* Whatever way an answer reaches a caller, each fact in it was true less  *)
(* than two TTLs earlier.                                                  *)
(***************************************************************************)
THEOREM RBACAnswersFresh == Spec => AnswersFresh
<1>1. RBACInv /\ [Next]_vars =>
        [\A k \in Caller :
           callers'[k].pc = "answered" /\ callers[k].pc # "answered" =>
             RightWithin(callers'[k].id, callers'[k].scope, 2 * TTL - 1)]_vars
  BY AnswerStep DEF RBACInv, RightWithin, RightIn
<1> QED BY <1>1, RBACSafe, PTL DEF Spec, AnswersFresh
=============================================================================
