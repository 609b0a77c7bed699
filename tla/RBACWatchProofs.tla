--------------------------- MODULE RBACWatchProofs ---------------------------
(***************************************************************************)
(* Proofs about RBACWatch: the authorizer beside the watch implements      *)
(* RBACAuthorizer, an event evicts only those it concerns, and with the    *)
(* watch active what has been taken away has an event on its way, for any  *)
(* cluster and any number of changes.                                      *)
(***************************************************************************)
EXTENDS RBACWatch, TLAPS, FiniteSetTheorems, SequenceTheorems,
        WellFoundedInduction

(* RBACAuthorizer again, with what is proved of it.                        *)
P == INSTANCE RBACAuthorizerProofs
       WITH may <- May, namespaces <- ExistingNamespaces

LEMMA AuthorizerAssumption == P!RBACAssumption
<1>1. P!IsFiniteSet(Identity)
  BY WatchAssumption DEF IsFiniteSet, P!IsFiniteSet
<1> QED BY <1>1, WatchAssumption

-----------------------------------------------------------------------------
(* The two instances are the same authorizer.                              *)

LEMMA SameInit == A!Init <=> P!Init
BY DEF A!Init, P!Init, A!Question, P!Question, A!Right, P!Right,
       A!CanListPods, P!CanListPods

LEMMA SameCalls ==
  ASSUME NEW k, NEW id
  PROVE  /\ A!AllowedNamespaces(k, id) <=> P!AllowedNamespaces(k, id)
         /\ A!Do(k) <=> P!Do(k)
         /\ A!Finish(k) <=> P!Finish(k)
<1> USE DEF A!clusterVars, P!clusterVars
<1>1. A!AllowedNamespaces(k, id) <=> P!AllowedNamespaces(k, id)
  BY DEF A!AllowedNamespaces, P!AllowedNamespaces, A!Valid, P!Valid
<1>2. A!Do(k) <=> P!Do(k)
  BY DEF A!Do, P!Do, A!Put, P!Put
<1>3. A!Finish(k) <=> P!Finish(k)
  BY DEF A!Finish, P!Finish
<1> QED BY <1>1, <1>2, <1>3

LEMMA SameFlights ==
  ASSUME NEW id, NEW n
  PROVE  /\ A!Recheck(id) <=> P!Recheck(id)
         /\ A!Probe(id) <=> P!Probe(id)
         /\ A!List(id) <=> P!List(id)
         /\ A!Review(id, n) <=> P!Review(id, n)
         /\ A!Fail(id) <=> P!Fail(id)
         /\ A!Store(id) <=> P!Store(id)
         /\ A!Land(id) <=> P!Land(id)
<1> USE DEF A!clusterVars, P!clusterVars, A!InPhase, P!InPhase, A!Fly, P!Fly
<1>1. A!Recheck(id) <=> P!Recheck(id)
  BY DEF A!Recheck, P!Recheck, A!Valid, P!Valid
<1>2. A!Probe(id) <=> P!Probe(id)
  BY DEF A!Probe, P!Probe, A!CanListPods, P!CanListPods
<1>3. A!Review(id, n) <=> P!Review(id, n)
  BY DEF A!Review, P!Review, A!CanListPods, P!CanListPods
<1>4. A!Fail(id) <=> P!Fail(id)
  BY DEF A!Fail, P!Fail, A!Resolving, P!Resolving
<1>5. A!Store(id) <=> P!Store(id)
  BY DEF A!Store, P!Store, A!Put, P!Put, A!Restricted, P!Restricted,
         A!MakeRoom, P!MakeRoom, A!ValidKeys, P!ValidKeys,
         A!Cardinality, P!Cardinality
<1>6. A!Land(id) <=> P!Land(id)
  BY DEF A!Land, P!Land, A!Restricted, P!Restricted
<1>7. A!List(id) <=> P!List(id)
  BY DEF A!List, P!List
<1> QED BY <1>1, <1>2, <1>3, <1>4, <1>5, <1>6, <1>7

LEMMA SameRight ==
  ASSUME NEW grants, NEW existing, NEW id, NEW q, NEW b
  PROVE  A!Right(grants, existing, id, q, b) <=>
           P!Right(grants, existing, id, q, b)
BY DEF A!Right, P!Right, A!CanListPods, P!CanListPods

LEMMA SameRelag ==
  ASSUME NEW grants, NEW existing
  PROVE  A!Relag(grants, existing) = P!Relag(grants, existing)
BY SameRight DEF A!Relag, P!Relag, A!Question, P!Question

LEMMA SameRest ==
  ASSUME NEW ids, NEW n
  PROVE  /\ A!Evict <=> P!Evict
         /\ A!Tick <=> P!Tick
         /\ A!Invalidate(ids) <=> P!Invalidate(ids)
         /\ A!ChangeGrants <=> P!ChangeGrants
         /\ A!ChangeNamespace(n) <=> P!ChangeNamespace(n)
<1> USE DEF A!clusterVars, P!clusterVars, A!Restricted, P!Restricted
<1>1. A!Evict <=> P!Evict
  BY DEF A!Evict, P!Evict, A!ValidKeys, P!ValidKeys
<1>2. A!Tick <=> P!Tick
  BY DEF A!Tick, P!Tick, A!Question, P!Question, A!Right, P!Right,
         A!CanListPods, P!CanListPods, A!ClockMayMove, P!ClockMayMove,
         A!Resolving, P!Resolving, A!InPhase, P!InPhase
<1>3. A!Invalidate(ids) <=> P!Invalidate(ids)
  BY DEF A!Invalidate, P!Invalidate
<1>4. A!ChangeGrants <=> P!ChangeGrants
  BY SameRelag DEF A!ChangeGrants, P!ChangeGrants
<1>5. A!ChangeNamespace(n) <=> P!ChangeNamespace(n)
  BY SameRelag DEF A!ChangeNamespace, P!ChangeNamespace
<1> QED BY <1>1, <1>2, <1>3, <1>4, <1>5

LEMMA SameNext == A!Next <=> P!Next
BY SameCalls, SameFlights, SameRest DEF A!Next, P!Next

LEMMA SameSpec == A!Spec <=> P!Spec
BY SameInit, SameNext, PTL DEF A!Spec, P!Spec, A!vars, P!vars
-----------------------------------------------------------------------------
(* Every step is a step of the authorizer, or none of its business.        *)

LEMMA KindsDisjoint ==
  /\ \A b \in Binding : b.kind \in {"RoleBinding", "ClusterRoleBinding"}
  /\ \A r \in Role : r.kind \in {"Role", "ClusterRole"}
  /\ \A n : NamespaceObject(n).kind = "Namespace"
  /\ \A o \in Object : o.kind \in Kind
  /\ \A o \in Object : o.kind = "Namespace" <=> o \notin Role \cup Binding
<1>1. /\ \A b \in Binding : b.kind \in {"RoleBinding", "ClusterRoleBinding"}
      /\ \A r \in Role : r.kind \in {"Role", "ClusterRole"}
  BY WatchAssumption
<1>2. \A n : NamespaceObject(n).kind = "Namespace"
  BY DEF NamespaceObject
<1>3. \A o \in Object : o \in Role \cup Binding
                        \/ \E n \in Namespace : o = NamespaceObject(n)
  BY DEF Object
<1> QED BY <1>1, <1>2, <1>3 DEF Kind

(* What a namespace holds goes before it does.                             *)
Housed ==
  /\ Object \subseteq DOMAIN objects
  /\ \A b \in Binding :
       b.ns # NamespaceAll /\ objects[b] # {}
         => objects[NamespaceObject(b.ns)] # {}

LEMMA ObjectsApart ==
  /\ Role \subseteq Object /\ Binding \subseteq Object
  /\ \A n \in Namespace : /\ NamespaceObject(n) \in Object
                          /\ NamespaceObject(n).ns = n
                          /\ NamespaceObject(n) \notin Role \cup Binding
  /\ \A m, n \in Namespace : NamespaceObject(m) = NamespaceObject(n) => m = n
  /\ \A o \in Object : o.kind = "Namespace" =>
                         \E n \in Namespace : o = NamespaceObject(n)
  /\ \A b \in Binding : /\ RoleOf(b) \in Role
                         /\ b.ns \in Namespace \cup {NamespaceAll}
<1>1. \A n : NamespaceObject(n).ns = n
  BY DEF NamespaceObject
<1>2. Role \subseteq Object /\ Binding \subseteq Object
  BY DEF Object
<1>3. \A n \in Namespace : NamespaceObject(n) \in Object
  BY DEF Object
<1>4. \A o \in Object : o \in Role \cup Binding
                         \/ \E n \in Namespace : o = NamespaceObject(n)
  BY DEF Object
<1>5. \A b \in Binding : /\ RoleOf(b) \in Role
                         /\ b.ns \in Namespace \cup {NamespaceAll}
  BY WatchAssumption
<1> QED BY <1>1, <1>2, <1>3, <1>4, <1>5, KindsDisjoint

LEMMA HousedInit ==
  ASSUME Init
  PROVE  Housed
<1>1. PICK first : objects = [o \in Object |-> IF o.kind = "Namespace"
                                               THEN {"active"} ELSE first[o]]
  BY DEF Init
<1>2. \A n \in Namespace : objects[NamespaceObject(n)] = {"active"}
  BY <1>1, ObjectsApart, KindsDisjoint
<1> QED BY <1>1, <1>2, ObjectsApart DEF Housed

LEMMA HousedChange ==
  ASSUME Housed, NEW o \in Object, NEW new, ChangeObject(o, new)
  PROVE  Housed'
<1>1. /\ DOMAIN objects' = DOMAIN objects
      /\ \A x \in Object : objects'[x] = IF x = o THEN new ELSE objects[x]
  BY DEF ChangeObject, Housed
<1>2. Accepted(o, new)
  BY DEF ChangeObject
<1> SUFFICES ASSUME NEW b \in Binding, b.ns # NamespaceAll, objects'[b] # {}
             PROVE  objects'[NamespaceObject(b.ns)] # {}
  BY <1>1 DEF Housed
<1>3. b.ns \in Namespace /\ b \in Object /\ NamespaceObject(b.ns) \in Object
  BY ObjectsApart
<1>4. CASE o.kind = "Namespace"
  <2>1. PICK n \in Namespace : o = NamespaceObject(n)
    BY <1>4, ObjectsApart
  <2>2. b # o /\ objects'[b] = objects[b]
    BY <1>1, <1>3, <2>1, ObjectsApart
  <2>3. CASE b.ns = n
    <3>1. new # {}
      BY <1>2, <1>4, <2>1, <2>2, <2>3, ObjectsApart DEF Accepted
    <3> QED BY <1>1, <1>3, <2>1, <2>3, <3>1
  <2>4. CASE b.ns # n
    BY <1>1, <1>3, <2>1, <2>2, <2>4, ObjectsApart DEF Housed
  <2> QED BY <2>3, <2>4
<1>5. CASE o.kind # "Namespace"
  <2>1. objects'[NamespaceObject(b.ns)] = objects[NamespaceObject(b.ns)]
    BY <1>1, <1>3, <1>5, KindsDisjoint
  <2>2. CASE b = o
    BY <1>1, <1>2, <1>3, <1>5, <2>1, <2>2 DEF Accepted
  <2>3. CASE b # o
    BY <1>1, <1>3, <2>1, <2>3 DEF Housed
  <2> QED BY <2>2, <2>3
<1> QED BY <1>4, <1>5

LEMMA HousedStep ==
  ASSUME Housed, [Next]_vars
  PROVE  Housed'
<1>1. CASE \E o \in Object : \E new \in Contents(o) : ChangeObject(o, new)
  BY <1>1, HousedChange
<1>2. CASE UNCHANGED objects
  BY <1>2 DEF Housed
<1> QED BY <1>1, <1>2
        DEF Next, vars, clusterVars, InitialList, Deliver, Relist, Handle,
            Activate, GiveUp, Sweeping, Calling, Evict, Tick

(* The bindings there are let one list pods where there is a namespace.    *)
MayTyped ==
  May \in [Identity -> SUBSET (ExistingNamespaces \cup {NamespaceAll})]

LEMMA MayType == Housed => MayTyped
<1> SUFFICES ASSUME Housed PROVE MayTyped
  OBVIOUS
<1> DEFINE S(id) == {b \in Binding : /\ Names(objects[b], id)
                                     /\ objects[RoleOf(b)] = {"allow"}}
<1>1. \A id : \A b \in S(id) : b.ns \in ExistingNamespaces \cup {NamespaceAll}
  <2> SUFFICES ASSUME NEW b \in Binding, NEW id, Names(objects[b], id),
                      b.ns # NamespaceAll
               PROVE  b.ns \in ExistingNamespaces
    OBVIOUS
  <2>1. objects[b] # {}
    BY DEF Names
  <2> QED BY <2>1, ObjectsApart DEF Housed, ExistingNamespaces
<1>2. May = [id \in Identity |-> {b.ns : b \in S(id)}]
  BY DEF May
<1> HIDE DEF S
<1>3. \A id : {b.ns : b \in S(id)} \in
                SUBSET (ExistingNamespaces \cup {NamespaceAll})
  BY <1>1
<1> QED BY <1>2, <1>3 DEF MayTyped

LEMMA MayTypeNext == (Housed => MayTyped)'
BY MayType, PTL

LEMMA MayKept ==
  ASSUME UNCHANGED objects
  PROVE  May' = May /\ ExistingNamespaces' = ExistingNamespaces
BY DEF May, Names, ExistingNamespaces

LEMMA RelagKeeps ==
  ASSUME P!TypeOK, P!LagCurrent
  PROVE  P!Relag(May, ExistingNamespaces) = lag
<1>1. lag \in [Identity -> [P!Question -> [BOOLEAN -> 0..(2 * TTL)]]]
  BY DEF P!TypeOK
<1> DEFINE at(id, q, b) == IF P!Right(May, ExistingNamespaces, id, q, b)
                           THEN 0 ELSE lag[id][q][b]
<1>3. \A id \in Identity, q \in P!Question, b \in BOOLEAN :
        at(id, q, b) = lag[id][q][b]
  BY DEF P!LagCurrent
<1>4. P!Relag(May, ExistingNamespaces)
        = [id \in Identity |-> [q \in P!Question |->
             [b \in BOOLEAN |-> at(id, q, b)]]]
  BY DEF P!Relag
<1> HIDE DEF at
<1>5. \A id \in Identity, q \in P!Question :
        [b \in BOOLEAN |-> at(id, q, b)] = lag[id][q]
  BY <1>1, <1>3
<1>6. \A id \in Identity :
        [q \in P!Question |-> [b \in BOOLEAN |-> at(id, q, b)]] = lag[id]
  BY <1>1, <1>5
<1> QED BY <1>1, <1>4, <1>6

(* A change to a role or a binding is one of the grants, if of anything, a *)
(* namespace that comes or goes is just that.                              *)
LEMMA ChangeRefines ==
  ASSUME P!TypeOK, P!LagCurrent, Housed, Housed',
         NEW o \in Object, NEW new, ChangeObject(o, new)
  PROVE  \/ P!ChangeGrants \/ \E n \in Namespace : P!ChangeNamespace(n)
         \/ UNCHANGED P!vars
<1>1. /\ lag' = P!Relag(May', ExistingNamespaces')
      /\ UNCHANGED <<cache, evictIn, flights, callers>>
  BY SameRelag DEF ChangeObject
<1>2. MayTyped /\ MayTyped'
  BY MayType, MayTypeNext
<1>3. \A x \in Object : objects'[x] = IF x = o THEN new ELSE objects[x]
  BY DEF ChangeObject, Housed
<1>4. CASE May' = May /\ ExistingNamespaces' = ExistingNamespaces
  BY <1>1, <1>4, RelagKeeps DEF P!vars
<1>5. CASE o.kind # "Namespace" /\ May' # May
  <2>1. ExistingNamespaces' = ExistingNamespaces
    BY <1>3, <1>5, ObjectsApart, KindsDisjoint DEF ExistingNamespaces
  <2>2. May' \in [Identity -> SUBSET (ExistingNamespaces \cup {NamespaceAll})]
    BY <1>2, <2>1 DEF MayTyped
  <2> QED BY <1>1, <1>5, <2>1, <2>2 DEF P!ChangeGrants
<1>6. CASE o.kind = "Namespace" /\ ExistingNamespaces' # ExistingNamespaces
  <2>1. PICK n \in Namespace : o = NamespaceObject(n)
    BY <1>6, ObjectsApart
  <2>2. \A b \in Binding : /\ objects'[b] = objects[b]
                           /\ objects'[RoleOf(b)] = objects[RoleOf(b)]
    BY <1>3, <2>1, ObjectsApart
  <2>3. May' = May
    BY <2>2 DEF May, Names
  <2>4. \A m \in Namespace \ {n} :
          m \in ExistingNamespaces' <=> m \in ExistingNamespaces
    BY <1>3, <2>1, ObjectsApart DEF ExistingNamespaces
  <2>5. /\ ExistingNamespaces \subseteq Namespace
        /\ ExistingNamespaces' \subseteq Namespace
    BY DEF ExistingNamespaces
  <2>6. ExistingNamespaces' = IF n \in ExistingNamespaces
                              THEN ExistingNamespaces \ {n}
                              ELSE ExistingNamespaces \cup {n}
    BY <1>6, <2>4, <2>5
  <2>7. \A id \in Identity : n \notin May[id]
    BY <1>2, <2>3, <2>6, WatchAssumption DEF MayTyped
  <2>8. P!ChangeNamespace(n)
    BY <1>1, <2>3, <2>6, <2>7 DEF P!ChangeNamespace
  <2> QED BY <2>8
<1>7. CASE o.kind # "Namespace" /\ May' = May
  <2>1. ExistingNamespaces' = ExistingNamespaces
    BY <1>3, <1>7, ObjectsApart, KindsDisjoint DEF ExistingNamespaces
  <2> QED BY <1>4, <1>7, <2>1
<1>8. CASE o.kind = "Namespace" /\ ExistingNamespaces' = ExistingNamespaces
  <2>1. PICK n \in Namespace : o = NamespaceObject(n)
    BY <1>8, ObjectsApart
  <2>2. \A b \in Binding : /\ objects'[b] = objects[b]
                           /\ objects'[RoleOf(b)] = objects[RoleOf(b)]
    BY <1>3, <2>1, ObjectsApart
  <2>3. May' = May
    BY <2>2 DEF May, Names
  <2> QED BY <1>4, <1>8, <2>3
<1> QED BY <1>5, <1>6, <1>7, <1>8

LEMMA EvictedAreCached ==
  ASSUME NEW c
  PROVE  Evicted(c) \subseteq DOMAIN cache
BY DEF Evicted, Matched

LEMMA HandleRefines ==
  ASSUME P!TypeOK, NEW k, Handle(k)
  PROVE  \E ids \in SUBSET Identity : P!Invalidate(ids)
<1>1. PICK ids : ids = Evicted(Head(informers[k].pending))
  OBVIOUS
<1>2. P!Invalidate(ids)
  BY <1>1, SameRest DEF Handle
<1>3. ids \subseteq Identity
  BY <1>1, EvictedAreCached DEF P!TypeOK
<1> QED BY <1>2, <1>3

LEMMA OwnStepRefines ==
  ASSUME \/ \E id \in Identity : Sweeping(id)
         \/ \E k \in Caller : Calling(k)
         \/ Evict \/ Tick
  PROVE  P!Next
<1>1. CASE \E id \in Identity : Sweeping(id)
  <2>1. PICK id \in Identity : Sweeping(id)
    BY <1>1
  <2>2. \/ A!Probe(id) \/ A!List(id)
        \/ \E n \in Namespace : A!Review(id, n)
        \/ A!Recheck(id) \/ A!Fail(id) \/ A!Land(id) \/ A!Store(id)
    BY <2>1 DEF Sweeping
  <2> QED BY <2>2, SameFlights DEF P!Next
<1>2. CASE \E k \in Caller : Calling(k)
  BY <1>2, SameCalls DEF Calling, P!Next
<1>3. CASE Evict \/ Tick
  BY <1>3, SameRest DEF Evict, Tick, P!Next
<1> QED BY <1>1, <1>2, <1>3

LEMMA StepRefines ==
  ASSUME P!TypeOK, P!LagCurrent, Housed, Housed', [Next]_vars
  PROVE  [P!Next]_P!vars
<1>1. CASE \E o \in Object : \E new \in Contents(o) : ChangeObject(o, new)
  BY <1>1, ChangeRefines DEF P!Next
<1>2. CASE \E k \in Kind : Handle(k)
  BY <1>2, HandleRefines DEF P!Next
<1>3. CASE \/ \E k \in Kind : InitialList(k) \/ Deliver(k) \/ Relist(k)
           \/ Activate \/ GiveUp \/ UNCHANGED vars
  <2>1. UNCHANGED objects /\ UNCHANGED authzVars
    BY <1>3 DEF InitialList, Deliver, Relist, Activate, GiveUp, clusterVars, vars
  <2> QED BY <2>1, MayKept DEF authzVars, P!vars
<1>4. CASE \/ \E id \in Identity : Sweeping(id)
           \/ \E k \in Caller : Calling(k)
           \/ Evict \/ Tick
  BY <1>4, OwnStepRefines
<1> QED BY <1>1, <1>2, <1>3, <1>4 DEF Next

LEMMA AlwaysHoused == Spec => []Housed
<1>1. Init => Housed
  BY HousedInit
<1>2. Housed /\ [Next]_vars => Housed'
  BY HousedStep
<1> QED BY <1>1, <1>2, PTL DEF Spec

(***************************************************************************)
(* The authorizer's invariant, RBACAuthorizerProofs' RBACInv, holds of the *)
(* authorizer beside the watch.                                            *)
(***************************************************************************)
THEOREM WatchedAuthorizerSafe == Spec => []P!RBACInv
<1>1. Init => P!RBACInv
  BY SameInit, AuthorizerAssumption, P!RBACInit DEF Init
<1>2. P!RBACInv /\ Housed /\ Housed' /\ [Next]_vars => P!RBACInv'
  BY StepRefines, AuthorizerAssumption, P!RBACNext DEF P!RBACInv
<1> QED BY <1>1, <1>2, AlwaysHoused, PTL DEF Spec

(***************************************************************************)
(* The refinement: a change to cluster RBAC is a ChangeGrants, a           *)
(* ChangeNamespace or none, a handler's run is an Invalidate, and what the *)
(* informers do among themselves is nothing to the authorizer (watch.go,   *)
(* rbac.go).                                                               *)
(***************************************************************************)
THEOREM WatchImplements == Spec => ImplementsAuthorizer
<1>1. Init => P!Init
  BY SameInit DEF Init
<1>2. P!RBACInv /\ Housed /\ Housed' /\ [Next]_vars => [P!Next]_P!vars
  BY StepRefines DEF P!RBACInv
<1>3. Spec => P!Spec
  BY <1>1, <1>2, AlwaysHoused, WatchedAuthorizerSafe, PTL DEF Spec, P!Spec
<1> QED BY <1>3, SameSpec DEF ImplementsAuthorizer

(***************************************************************************)
(* Beside the watch, and whatever the watch misses, an answer is still     *)
(* made of facts that were true less than two TTLs earlier: what the       *)
(* handlers do not evict is left to the TTL (watch.go:39-46, rbac.go:      *)
(* 124-137).                                                               *)
(***************************************************************************)
THEOREM WatchedAnswersFresh == Spec => A!AnswersFresh
<1>1. P!Spec => P!AnswersFresh
  BY AuthorizerAssumption, P!RBACAnswersFresh
<1>2. P!AnswersFresh => A!AnswersFresh
  BY DEF P!AnswersFresh, A!AnswersFresh, P!RightWithin, A!RightWithin,
         P!vars, A!vars
<1> QED BY <1>1, <1>2, WatchImplements, SameSpec DEF ImplementsAuthorizer

-----------------------------------------------------------------------------
(* What an informer is, and what the steps make of it.                     *)

ChangesOf(k) == {c \in Change : c.obj.kind = k}

InformerOK(k, i) ==
  /\ i = [pending |-> i.pending, indexed |-> i.indexed]
  /\ i.pending \in Seq(ChangesOf(k))
  /\ i.indexed \in 0..Len(i.pending)

(* The last change to an object that the indexer has not seen says what    *)
(* the object holds now.                                                   *)
Current(i, objs) ==
  \A m \in (i.indexed + 1)..Len(i.pending) :
    \/ \E l \in (m + 1)..Len(i.pending) : i.pending[l].obj = i.pending[m].obj
    \/ i.pending[m].new = objs[i.pending[m].obj]

LEMMA ChangeType ==
  ASSUME NEW c
  PROVE  c \in Change <=>
           \E o \in Object : \E old, new :
             /\ c = [obj |-> o, old |-> old, new |-> new]
             /\ old \in Contents(o) \cup {{}} /\ new \in Contents(o)
<1> DEFINE C(o) == [obj: {o}, old: Contents(o) \cup {{}}, new: Contents(o)]
<1>1. c \in Change <=> \E o \in Object : c \in C(o)
  BY DEF Change
<1>2. \A o : c \in C(o) <=>
               \E old, new :
                 /\ c = [obj |-> o, old |-> old, new |-> new]
                 /\ old \in Contents(o) \cup {{}} /\ new \in Contents(o)
  OBVIOUS
<1> HIDE DEF C
<1> QED BY <1>1, <1>2

LEMMA SeqRange ==
  ASSUME NEW S, NEW s \in Seq(S), NEW x
  PROVE  x \in Range(s) <=> \E m \in 1..Len(s) : x = s[m]
BY LenProperties DEF Range

LEMMA TailRange ==
  ASSUME NEW S, NEW p \in Seq(S), p # <<>>, NEW q, q = Tail(p)
  PROVE  /\ Head(p) \in Range(p)
         /\ \A x \in Range(p) : x \in Range(q) \/ x = Head(p)
<1> DEFINE n == Len(p)
<1>1. /\ q \in Seq(S) /\ Len(q) = n - 1
      /\ \A m \in 1..(n - 1) : q[m] = p[m + 1]
  BY HeadTailProperties
<1>2. n \in Nat /\ n # 0
  BY LenProperties, EmptySeq
<1>3. \A x : x \in Range(p) <=> \E m \in 1..n : x = p[m]
  BY SeqRange
<1>4. \A x : x \in Range(q) <=> \E m \in 1..Len(q) : x = q[m]
  BY <1>1, SeqRange, ZenonT(40)
<1>5. Head(p) = p[1]
  OBVIOUS
<1> HIDE DEF n
<1>6. \A m \in 1..n : m = 1 \/ (m - 1 \in 1..(n - 1) /\ p[m] = q[m - 1])
  BY <1>1, <1>2
<1>7. 1 \in 1..n
  BY <1>2
<1>8. Head(p) \in Range(p)
  BY <1>3, <1>5, <1>7, Zenon
<1>9. ASSUME NEW x \in Range(p)
      PROVE  x \in Range(q) \/ x = Head(p)
  <2>1. PICK m \in 1..n : x = p[m]
    BY <1>3, Zenon
  <2>2. CASE m = 1
    BY <1>5, <2>1, <2>2
  <2>3. CASE m - 1 \in 1..Len(q) /\ p[m] = q[m - 1]
    BY <1>4, <2>1, <2>3, Zenon
  <2> QED BY <1>1, <1>6, <2>2, <2>3
<1> QED BY <1>8, <1>9

LEMMA InformerElements ==
  ASSUME NEW k, NEW i, InformerOK(k, i)
  PROVE  /\ Len(i.pending) \in Nat /\ DOMAIN i.pending = 1..Len(i.pending)
         /\ \A m \in 1..Len(i.pending) : i.pending[m] \in ChangesOf(k)
         /\ \A c : c \in Range(i.pending) <=>
                    \E m \in 1..Len(i.pending) : c = i.pending[m]
BY LenProperties, ElementOfSeq, SeqRange DEF InformerOK

LEMMA UnindexedElements ==
  ASSUME NEW k, NEW i, InformerOK(k, i)
  PROVE  /\ Unindexed(i) \in Seq(ChangesOf(k))
         /\ Len(Unindexed(i)) = Len(i.pending) - i.indexed
         /\ \A m \in 1..Len(Unindexed(i)) :
              Unindexed(i)[m] = i.pending[i.indexed + m]
<1>1. /\ i.indexed + 1 \in Int /\ Len(i.pending) \in Int
      /\ \A m \in (i.indexed + 1)..Len(i.pending) : i.pending[m] \in ChangesOf(k)
      /\ i.indexed \in Nat /\ i.indexed <= Len(i.pending)
  BY InformerElements DEF InformerOK
<1> DEFINE t == SubSeq(i.pending, i.indexed + 1, Len(i.pending))
           n == Len(i.pending)
           a == i.indexed
<1>2. /\ t \in Seq(ChangesOf(k))
      /\ Len(t) = IF a + 1 <= n THEN n - (a + 1) + 1 ELSE 0
      /\ \A m \in 1..(n - (a + 1) + 1) : t[m] = i.pending[(a + 1) + m - 1]
  BY <1>1, SubSeqProperties, SMTT(20)
<1>3. t = Unindexed(i)
  BY DEF Unindexed
<1>4. n \in Nat /\ a \in 0..n
  BY <1>1
<1>5. Len(t) = n - a /\ \A m \in 1..(n - a) : t[m] = i.pending[a + m]
  <2> HIDE DEF t, n, a
  <2>1. Len(t) = n - a
    BY <1>2, <1>4
  <2>2. ASSUME NEW m \in 1..(n - a)
        PROVE  t[m] = i.pending[a + m]
    <3>1. m \in 1..(n - (a + 1) + 1) /\ (a + 1) + m - 1 = a + m
      BY <1>4
    <3> QED BY <1>2, <3>1
  <2> QED BY <2>1, <2>2
<1> HIDE DEF t
<1> QED BY <1>2, <1>3, <1>5

LEMMA AppendOK ==
  ASSUME NEW k, NEW i, InformerOK(k, i), NEW c \in ChangesOf(k),
         NEW j, j = [i EXCEPT !.pending = Append(@, c)]
  PROVE  /\ InformerOK(k, j)
         /\ \A objs : /\ Current(i, objs) /\ c.obj \in DOMAIN objs
                      /\ \A m \in 1..Len(i.pending) :
                           i.pending[m].obj \in DOMAIN objs
                      => Current(j, [objs EXCEPT ![c.obj] = c.new])
<1>1. /\ j.pending = Append(i.pending, c) /\ j.indexed = i.indexed
      /\ j = [pending |-> j.pending, indexed |-> j.indexed]
  BY DEF InformerOK
<1> DEFINE p == i.pending
           n == Len(p)
           q == Append(i.pending, c)
<1>2. /\ q \in Seq(ChangesOf(k)) /\ Len(q) = n + 1 /\ q[n + 1] = c
      /\ \A m \in 1..n : q[m] = p[m]
  BY AppendProperties DEF InformerOK
<1>3. n \in Nat /\ i.indexed \in 0..n
  BY InformerElements DEF InformerOK
<1>4. InformerOK(k, j)
  BY <1>1, <1>2, <1>3 DEF InformerOK
<1>6. ASSUME NEW objs, Current(i, objs), c.obj \in DOMAIN objs,
             \A m \in 1..n : p[m].obj \in DOMAIN objs
      PROVE  Current(j, [objs EXCEPT ![c.obj] = c.new])
  <2> SUFFICES ASSUME NEW m \in (i.indexed + 1)..(n + 1),
                      \A l \in (m + 1)..(n + 1) : q[l].obj # q[m].obj
               PROVE  q[m].new = [objs EXCEPT ![c.obj] = c.new][q[m].obj]
    BY <1>1, <1>2, ZenonT(40) DEF Current
  <2>1. CASE m = n + 1
    BY <1>2, <1>6, <2>1
  <2>2. CASE m # n + 1
    <3>1. m \in (i.indexed + 1)..n /\ m \in 1..n
      BY <1>3, <2>2
    <3>2. q[n + 1].obj # q[m].obj
      BY <1>3, <3>1
    <3>3. \A l \in (m + 1)..n : p[l].obj # p[m].obj
      BY <1>2, <1>3, <3>1
    <3>4. p[m].new = objs[p[m].obj]
      BY <1>6, <3>1, <3>3 DEF Current
    <3> QED BY <1>2, <1>6, <3>1, <3>2, <3>4
  <2> QED BY <2>1, <2>2
<1> QED BY <1>4, <1>6

LEMMA DeliverOK ==
  ASSUME NEW k, NEW i, InformerOK(k, i), Unindexed(i) # <<>>,
         NEW j, j = [i EXCEPT !.indexed = @ + 1]
  PROVE  /\ InformerOK(k, j) /\ j.pending = i.pending
         /\ \A objs : Current(i, objs) => Current(j, objs)
<1>1. /\ j.pending = i.pending /\ j.indexed = i.indexed + 1
      /\ j = [pending |-> j.pending, indexed |-> j.indexed]
  BY DEF InformerOK
<1>2. Len(Unindexed(i)) # 0
  BY UnindexedElements, EmptySeq
<1>3. i.indexed + 1 \in 0..Len(i.pending)
  BY <1>2, UnindexedElements, InformerElements DEF InformerOK
<1>4. InformerOK(k, j)
  BY <1>1, <1>3 DEF InformerOK
<1>5. \A objs : Current(i, objs) => Current(j, objs)
  BY <1>1, <1>3, InformerElements DEF Current, InformerOK
<1> QED BY <1>1, <1>4, <1>5

LEMMA HandleOK ==
  ASSUME NEW k, NEW i, InformerOK(k, i), i.indexed > 0,
         NEW j, j = [pending |-> Tail(i.pending), indexed |-> i.indexed - 1]
  PROVE  /\ InformerOK(k, j)
         /\ \A objs : Current(i, objs) => Current(j, objs)
<1> DEFINE p == i.pending
           n == Len(p)
           q == Tail(i.pending)
<1>1. n \in Nat /\ i.indexed \in 1..n /\ p \in Seq(ChangesOf(k))
  BY InformerElements DEF InformerOK
<1>2. p # <<>>
  BY <1>1, EmptySeq
<1>3. /\ q \in Seq(ChangesOf(k)) /\ Len(q) = n - 1
      /\ \A m \in 1..(n - 1) : q[m] = p[m + 1]
  BY <1>1, <1>2, HeadTailProperties
<1>5. InformerOK(k, j)
  BY <1>1, <1>3 DEF InformerOK
<1>6. PICK w, v, d, a : w = q /\ v = p /\ d = n /\ a = i.indexed
  OBVIOUS
<1>7. /\ d \in Nat /\ a \in 1..d /\ Len(v) = d /\ Len(w) = d - 1
      /\ \A m \in 1..(d - 1) : w[m] = v[m + 1]
      /\ i.pending = v /\ i.indexed = a
      /\ j.pending = w /\ j.indexed = a - 1
  BY <1>1, <1>3, <1>6
<1> HIDE DEF p, q, n
<1>8. ASSUME NEW objs, Current(i, objs)
      PROVE  Current(j, objs)
  <2> SUFFICES ASSUME NEW m \in (j.indexed + 1)..Len(j.pending),
                      \A l \in (m + 1)..Len(j.pending) :
                        j.pending[l].obj # j.pending[m].obj
               PROVE  j.pending[m].new = objs[j.pending[m].obj]
    BY DEF Current
  <2>1. m \in a..(d - 1) /\ w[m] = v[m + 1] /\ m + 1 \in (a + 1)..d
    BY <1>7
  <2>2. ASSUME NEW l \in ((m + 1) + 1)..d
        PROVE  v[l].obj # v[m + 1].obj
    <3>1. PICK r : r = l - 1
      OBVIOUS
    <3>2. r \in (m + 1)..Len(w) /\ r \in 1..(d - 1) /\ r + 1 = l
      BY <1>7, <2>1, <3>1
    <3>3. w[r] = v[l]
      BY <1>7, <3>2
    <3>4. w[r].obj # w[m].obj
      BY <1>7, <3>2
    <3> QED BY <2>1, <3>3, <3>4
  <2>3. v[m + 1].new = objs[v[m + 1].obj]
    BY <1>7, <1>8, <2>1, <2>2 DEF Current
  <2> QED BY <1>7, <2>1, <2>3
<1> QED BY <1>5, <1>8

LEMMA PendingNotEmpty ==
  ASSUME NEW k, NEW i, InformerOK(k, i), i.indexed > 0
  PROVE  i.pending # <<>>
BY InformerElements, EmptySeq DEF InformerOK

LEMMA CutOK ==
  ASSUME NEW k, NEW i, InformerOK(k, i),
         NEW j, j = [i EXCEPT !.pending = SubSeq(@, 1, i.indexed)]
  PROVE  InformerOK(k, j)
<1>1. /\ j.pending = SubSeq(i.pending, 1, i.indexed) /\ j.indexed = i.indexed
      /\ j = [pending |-> j.pending, indexed |-> j.indexed]
  BY DEF InformerOK
<1>2. 1 \in Int /\ i.indexed \in Int /\ i.indexed \in Nat
      /\ \A m \in 1..i.indexed : i.pending[m] \in ChangesOf(k)
  BY InformerElements DEF InformerOK
<1>3. /\ SubSeq(i.pending, 1, i.indexed) \in Seq(ChangesOf(k))
      /\ Len(SubSeq(i.pending, 1, i.indexed)) =
           IF 1 <= i.indexed THEN i.indexed - 1 + 1 ELSE 0
  BY <1>2, SubSeqProperties
<1>4. Len(SubSeq(i.pending, 1, i.indexed)) = i.indexed
  BY <1>2, <1>3
<1> QED BY <1>1, <1>2, <1>3, <1>4 DEF InformerOK

(* SetToSeq of a finite set is a sequence over it.                         *)
LEMMA SetToSeqType ==
  ASSUME NEW S, IsFiniteSet(S)
  PROVE  /\ SetToSeq(S) \in Seq(S)
         /\ Len(SetToSeq(S)) = Cardinality(S)
<1> DEFINE n == Cardinality(S)
           f == SetToSeq(S)
<1>1. n \in Nat /\ ExistsBijection(1..n, S)
  BY FS_CardinalityType
<1>2. \E g \in [1..n -> S] : IsInjective(g)
  BY <1>1 DEF ExistsBijection, Bijection, Injection
<1>3. f \in [1..n -> S]
  BY <1>2 DEF SetToSeq
<1> HIDE DEF f, n
<1>4. f \in Seq(S)
  BY <1>1, <1>3, SeqDef
<1>5. Len(f) = n
  <2>1. DOMAIN f = 1..Len(f) /\ Len(f) \in Nat
    BY <1>4, LenProperties
  <2> QED BY <1>1, <1>3, <2>1
<1> QED BY <1>4, <1>5 DEF f, n

LEMMA LeastOf ==
  ASSUME NEW T, T \subseteq Nat, T # {}
  PROVE  Min(T) \in T
<1>1. PICK x \in T : \A y \in T : ~ (<<y, x>> \in OpToRel(<, Nat))
  BY NatLessThanWellFounded, WFMin
<1>2. \A y \in T : x <= y
  <2> SUFFICES ASSUME NEW y \in T, y < x
               PROVE  FALSE
    OBVIOUS
  <2>1. <<y, x>> \in OpToRel(<, Nat)
    BY DEF OpToRel
  <2> QED BY <1>1, <2>1
<1> QED BY <1>2 DEF Min

(* SelectInSeq finds a change to the object if there is one.               *)
FirstOf(s, o) == SelectInSeq(s, LAMBDA c : c.obj = o)

LEMMA FirstChange ==
  ASSUME NEW S, NEW s \in Seq(S), NEW o, NEW m, m = FirstOf(s, o)
  PROVE  \/ m = 0 /\ \A l \in 1..Len(s) : s[l].obj # o
         \/ m \in 1..Len(s) /\ s[m].obj = o
<1> DEFINE I == {l \in 1..Len(s) : s[l].obj = o}
<1>1. m = IF I # {} THEN Min(I) ELSE 0
  BY DEF FirstOf, SelectInSeq
<1>2. I \subseteq Nat
  BY LenProperties
<1>3. CASE I # {}
  <2>1. Min(I) \in I
    BY <1>2, <1>3, LeastOf
  <2> QED BY <1>1, <1>3, <2>1
<1>4. CASE I = {}
  BY <1>1, <1>4
<1> QED BY <1>3, <1>4

LEMMA ListOK ==
  ASSUME NEW k, \A o \in Object : objects[o] \in Contents(o)
  PROVE  InformerOK(k, ListOf(k)) /\ \A objs : Current(ListOf(k), objs)
<1> DEFINE B == {b \in Binding : b.kind = k /\ objects[b] # {}}
           add(b) == [obj |-> b, old |-> {}, new |-> objects[b]]
           adds == {add(b) : b \in B}
           i == ListOf(k)
<1>1. i = [pending |-> SetToSeq(adds), indexed |-> Cardinality(adds)]
  BY DEF ListOf
<1>2. adds \subseteq ChangesOf(k)
  <2> SUFFICES ASSUME NEW b \in B
               PROVE  add(b) \in ChangesOf(k)
    OBVIOUS
  <2>1. b \in Object /\ objects[b] \in Contents(b)
    BY DEF Object
  <2>2. add(b) \in Change
    BY <2>1, ChangeType
  <2> QED BY <2>2 DEF ChangesOf
<1>3. IsFiniteSet(adds)
  <2>1. IsFiniteSet(B)
    BY WatchAssumption, FS_Subset
  <2>2. [b \in B |-> add(b)] \in Surjection(B, adds)
    BY DEF Surjection
  <2> HIDE DEF B, adds, add
  <2> QED BY <2>1, <2>2, FS_Surjection
<1> HIDE DEF adds, i
<1>4. /\ SetToSeq(adds) \in Seq(adds) /\ Len(SetToSeq(adds)) = Cardinality(adds)
      /\ Cardinality(adds) \in Nat
  BY <1>3, SetToSeqType, FS_CardinalityType
<1>5. SetToSeq(adds) \in Seq(ChangesOf(k))
  BY <1>2, <1>4, SeqMonotonic
<1>6. InformerOK(k, i)
  BY <1>1, <1>4, <1>5 DEF InformerOK
<1>7. \A objs : Current(i, objs)
  <2>1. i.indexed \in Nat /\ Len(i.pending) = i.indexed
    BY <1>1, <1>4
  <2> QED BY <2>1 DEF Current
<1> QED BY <1>6, <1>7 DEF i

LEMMA RelistOK ==
  ASSUME NEW k, NEW i, InformerOK(k, i), NEW seen, NEW objs,
         IsFiniteSet(seen), seen \subseteq ChangesOf(k),
         \A c \in seen : c.new = objs[c.obj],
         NEW j, j = [i EXCEPT !.pending =
                       SubSeq(@, 1, i.indexed) \o SetToSeq(seen)]
  PROVE  InformerOK(k, j) /\ Current(j, objs)
<1> DEFINE p == SubSeq(i.pending, 1, i.indexed)
           q == SetToSeq(seen)
           a == i.indexed
<1>1. /\ j.pending = p \o q /\ j.indexed = a
      /\ j = [pending |-> j.pending, indexed |-> j.indexed]
  BY DEF InformerOK
<1>2. p \in Seq(ChangesOf(k)) /\ Len(p) = a /\ a \in Nat
  <2>1. InformerOK(k, [i EXCEPT !.pending = SubSeq(@, 1, i.indexed)])
    BY CutOK
  <2>2. p \in Seq(ChangesOf(k)) /\ a \in 0..Len(p)
    BY <2>1 DEF InformerOK
  <2>3. 1 \in Int /\ a \in Int /\ a \in Nat
        /\ \A m \in 1..a : i.pending[m] \in ChangesOf(k)
    BY InformerElements DEF InformerOK
  <2>4. Len(p) = IF 1 <= a THEN a - 1 + 1 ELSE 0
    BY <2>3, SubSeqProperties
  <2> HIDE DEF p, a
  <2> QED BY <2>2, <2>3, <2>4
<1>3. q \in Seq(seen) /\ Len(q) \in Nat
  BY SetToSeqType, LenProperties
<1>4. q \in Seq(ChangesOf(k)) /\ \A m \in 1..Len(q) : q[m] \in seen
  BY <1>3, SeqMonotonic, ElementOfSeq
<1> HIDE DEF p, q, a
<1>5. /\ p \o q \in Seq(ChangesOf(k))
      /\ Len(p \o q) = a + Len(q)
      /\ \A m \in 1..(a + Len(q)) :
           (p \o q)[m] = IF m <= a THEN p[m] ELSE q[m - a]
  BY <1>2, <1>4, ConcatProperties
<1>6. InformerOK(k, j)
  <2>1. a \in 0..(a + Len(q))
    BY <1>2, <1>3
  <2> QED BY <1>1, <1>5, <2>1 DEF InformerOK
<1>7. Current(j, objs)
  <2>a. j.indexed = a /\ j.pending = p \o q /\ Len(j.pending) = a + Len(q)
    BY <1>1, <1>5
  <2> SUFFICES ASSUME NEW m \in (a + 1)..(a + Len(q))
               PROVE  (p \o q)[m].new = objs[(p \o q)[m].obj]
    BY <2>a DEF Current
  <2>1. m - a \in 1..Len(q) /\ m \in 1..(a + Len(q)) /\ ~(m <= a)
    BY <1>2, <1>3
  <2>2. (p \o q)[m] \in seen
    BY <1>4, <1>5, <2>1
  <2> QED BY <2>2
<1> QED BY <1>6, <1>7

-----------------------------------------------------------------------------
(* The watch's part of the inductive invariant: types, and that what the   *)
(* indexers have not seen ends with what there is.                         *)

ObjectsOK(objs) ==
  /\ objs = [o \in Object |-> objs[o]]
  /\ \A o \in Object : objs[o] \in Contents(o)

InformersOK(infs, objs, w) ==
  /\ infs = [k \in DOMAIN infs |-> infs[k]]
  /\ DOMAIN infs \subseteq Kind
  /\ \A k \in DOMAIN infs :
       InformerOK(k, infs[k]) /\ (w # "off" => Current(infs[k], objs))

ControlInv ==
  changes \in 0..MaxChanges /\ watch \in {"syncing", "active", "off"}

BlindInv ==
  /\ blind = [flights |-> blind.flights, entries |-> blind.entries]
  /\ blind.flights \subseteq DOMAIN flights
  /\ blind.entries \subseteq DOMAIN cache

WatchTypes ==
  /\ ObjectsOK(objects) /\ InformersOK(informers, objects, watch)
  /\ ControlInv /\ BlindInv

LEMMA WatchTypesMeaning ==
  ASSUME WatchTypes
  PROVE  TypeOK
<1>1. ASSUME NEW k \in DOMAIN informers
      PROVE  /\ \A c \in Range(informers[k].pending) :
                  c \in Change /\ c.obj.kind = k
             /\ informers[k].indexed \in 0..Len(informers[k].pending)
  <2>1. PICK i : i = informers[k] /\ InformerOK(k, i)
    BY DEF WatchTypes, InformersOK
  <2>2. \A c \in Range(i.pending) : c \in ChangesOf(k)
    <3>1. /\ \A m \in 1..Len(i.pending) : i.pending[m] \in ChangesOf(k)
          /\ \A c : c \in Range(i.pending) <=>
                     \E m \in 1..Len(i.pending) : c = i.pending[m]
      BY <2>1, InformerElements, Zenon
    <3> QED BY <3>1, Zenon
  <2> QED BY <2>1, <2>2 DEF ChangesOf, InformerOK
<1> QED BY <1>1 DEF WatchTypes, ObjectsOK, InformersOK, ControlInv, BlindInv,
                    TypeOK

LEMMA WatchTypesInit ==
  ASSUME Init
  PROVE  WatchTypes
<1>1. ObjectsOK(objects)
  <2>1. PICK first \in FirstVersions :
          objects = [o \in Object |-> IF o.kind = "Namespace" THEN {"active"}
                                      ELSE first[o]]
    BY DEF Init
  <2>2. ASSUME NEW o \in Object
        PROVE  objects[o] \in Contents(o)
    BY <2>1, KindsDisjoint, WatchAssumption DEF Contents
  <2> QED BY <2>1, <2>2 DEF ObjectsOK
<1>2. InformersOK(informers, objects, watch)
  <2>1. ASSUME NEW k
        PROVE  InformerOK(k, [pending |-> <<>>, indexed |-> 0])
               /\ Current([pending |-> <<>>, indexed |-> 0], objects)
    <3>1. <<>> \in Seq(ChangesOf(k)) /\ Len(<<>>) = 0
      BY EmptySeq
    <3> QED BY <3>1 DEF InformerOK, Current
  <2> QED BY <2>1, WatchAssumption DEF Init, InformersOK
<1>3. ControlInv /\ BlindInv
  BY WatchAssumption DEF Init, ControlInv, BlindInv
<1> QED BY <1>1, <1>2, <1>3 DEF WatchTypes

LEMMA BlindStep ==
  ASSUME BlindInv, [Next]_vars
  PROVE  BlindInv'
<1>1. ASSUME NEW F, NEW E, Blinding(F, E)
      PROVE  BlindInv'
  BY <1>1 DEF Blinding, BlindInv
<1>2. ASSUME UNCHANGED <<blind, cache, flights>>
      PROVE  BlindInv'
  BY <1>2 DEF BlindInv
<1>3. CASE \E o \in Object : \E new \in Contents(o) : ChangeObject(o, new)
  BY <1>2, <1>3 DEF ChangeObject
<1>4. CASE \E k \in Kind : InitialList(k) \/ Relist(k) \/ Handle(k)
  BY <1>1, <1>4 DEF InitialList, Relist, Handle
<1>5. CASE (\E k \in Kind : Deliver(k)) \/ Activate \/ GiveUp \/ UNCHANGED vars
  BY <1>2, <1>5 DEF Deliver, Activate, GiveUp, authzVars, vars
<1>6. CASE \/ \E id \in Identity : Sweeping(id)
           \/ \E k \in Caller : Calling(k)
           \/ Evict \/ Tick
  BY <1>1, <1>6 DEF Sweeping, Calling, Evict, Tick, KeepBlind
<1> QED BY <1>3, <1>4, <1>5, <1>6 DEF Next

LEMMA PutInformer ==
  ASSUME NEW infs, NEW objs, NEW w, InformersOK(infs, objs, w),
         NEW k \in DOMAIN infs, NEW j, InformerOK(k, j),
         w # "off" => Current(j, objs)
  PROVE  InformersOK([infs EXCEPT ![k] = j], objs, w)
BY DEF InformersOK

(* A change leaves the other kinds' informers up to date.                  *)
LEMMA StillCurrent ==
  ASSUME NEW objs, ObjectsOK(objs), NEW k, NEW i, InformerOK(k, i),
         Current(i, objs), NEW o, o.kind # k, NEW new
  PROVE  Current(i, [objs EXCEPT ![o] = new])
<1>1. \A m \in 1..Len(i.pending) :
        i.pending[m].obj \in Object /\ i.pending[m].obj # o
  <2> SUFFICES ASSUME NEW m \in 1..Len(i.pending)
               PROVE  i.pending[m].obj \in Object /\ i.pending[m].obj # o
    OBVIOUS
  <2>1. i.pending[m] \in ChangesOf(k)
    BY InformerElements
  <2> QED BY <2>1, ChangeType DEF ChangesOf
<1>2. i.indexed \in Nat /\ Len(i.pending) \in Nat
  BY InformerElements DEF InformerOK
<1> QED BY <1>1, <1>2 DEF Current, ObjectsOK

LEMMA ChangeStep ==
  ASSUME WatchTypes, NEW o \in Object, NEW new \in Contents(o),
         ChangeObject(o, new)
  PROVE  /\ ObjectsOK(objects') /\ InformersOK(informers', objects', watch')
         /\ ControlInv'
<1>1. ObjectsOK(objects')
  BY DEF WatchTypes, ObjectsOK, ChangeObject
<1>2. ControlInv'
  BY WatchAssumption DEF WatchTypes, ControlInv, ChangeObject
<1>3. PICK c : c = [obj |-> o, old |-> objects[o], new |-> new]
  OBVIOUS
<1>4. c \in ChangesOf(o.kind)
  BY <1>3, ChangeType DEF WatchTypes, ObjectsOK, ChangesOf
<1>5. /\ objects' = [objects EXCEPT ![o] = new] /\ watch' = watch
      /\ ObjectsOK(objects) /\ InformersOK(informers, objects, watch)
  BY DEF ChangeObject, WatchTypes
<1>6. \A k \in DOMAIN informers :
        k # o.kind /\ watch # "off" => Current(informers[k], objects')
  BY <1>5, StillCurrent DEF InformersOK
<1>7. CASE ~(o.kind \in DOMAIN informers /\ watch # "off")
  <2>1. informers' = informers
    BY <1>7 DEF ChangeObject
  <2> QED BY <1>1, <1>2, <1>5, <1>6, <1>7, <2>1 DEF InformersOK
<1>8. CASE o.kind \in DOMAIN informers /\ watch # "off"
  <2>1. PICK i : i = informers[o.kind] /\ InformerOK(o.kind, i)
                 /\ Current(i, objects)
    BY <1>5, <1>8 DEF InformersOK
  <2>2. PICK j : j = [i EXCEPT !.pending = Append(@, c)]
    OBVIOUS
  <2>3. informers' = [informers EXCEPT ![o.kind] = j]
    BY <1>3, <1>8, <2>1, <2>2 DEF ChangeObject
  <2>4. \A m \in 1..Len(i.pending) : i.pending[m].obj \in DOMAIN objects
    <3> SUFFICES ASSUME NEW m \in 1..Len(i.pending)
                 PROVE  i.pending[m].obj \in DOMAIN objects
      OBVIOUS
    <3>1. i.pending[m] \in ChangesOf(o.kind)
      BY <2>1, InformerElements
    <3> QED BY <1>5, <3>1, ChangeType DEF ChangesOf, ObjectsOK
  <2>5. InformerOK(o.kind, j) /\ Current(j, objects')
    <3>1. c.obj = o /\ c.new = new /\ o \in DOMAIN objects
      BY <1>3, <1>5 DEF ObjectsOK
    <3> QED BY <1>4, <1>5, <2>1, <2>2, <2>4, <3>1, AppendOK
  <2> QED BY <1>1, <1>2, <1>5, <1>6, <1>8, <2>3, <2>5 DEF InformersOK
<1> QED BY <1>7, <1>8

LEMMA RelistDiffs ==
  ASSUME WatchTypes, NEW k \in DOMAIN informers, Relist(k)
  PROVE  \E seen :
           /\ IsFiniteSet(seen) /\ seen \subseteq ChangesOf(k)
           /\ \A c \in seen : c.new = objects[c.obj]
           /\ informers' = [informers EXCEPT ![k].pending =
                 SubSeq(@, 1, informers[k].indexed) \o SetToSeq(seen)]
<1> DEFINE i == informers[k]
           tail == Unindexed(i)
           first(o) == tail[SelectInSeq(tail, LAMBDA c : c.obj = o)]
           diff(o) == [obj |-> o, old |-> first(o).old, new |-> objects[o]]
           O == {c.obj : c \in Range(tail)}
           diffs == {diff(o) : o \in O}
           seen == {c \in diffs : c.old # {} \/ c.new # {}}
<1>1. InformerOK(k, i) /\ ObjectsOK(objects)
  BY DEF WatchTypes, InformersOK
<1>2. tail \in Seq(ChangesOf(k)) /\ Len(tail) \in Nat
  BY <1>1, UnindexedElements, LenProperties
<1>3. \A o : o \in O <=> \E m \in 1..Len(tail) : o = tail[m].obj
  <2> HIDE DEF tail
  <2>1. \A c : c \in Range(tail) <=> \E m \in 1..Len(tail) : c = tail[m]
    BY <1>2, SeqRange
  <2> QED BY <2>1
<1>4. ASSUME NEW o \in O
      PROVE  diff(o) \in ChangesOf(k) /\ diff(o).new = objects[diff(o).obj]
  <2>1. PICK m : m = FirstOf(tail, o)
    OBVIOUS
  <2>2. PICK l \in 1..Len(tail) : o = tail[l].obj
    BY <1>3
  <2>3. m \in 1..Len(tail) /\ tail[m].obj = o
    <3> HIDE DEF tail
    <3> QED BY <1>2, <2>1, <2>2, FirstChange
  <2>4. tail[m] \in ChangesOf(k)
    BY <1>2, <2>3, ElementOfSeq
  <2>5. first(o) = tail[m]
    BY <2>1 DEF FirstOf
  <2>6. /\ o \in Object /\ o.kind = k
        /\ tail[m].old \in Contents(o) \cup {{}}
    BY <2>3, <2>4, ChangeType DEF ChangesOf
  <2>7. objects[o] \in Contents(o)
    BY <1>1, <2>6 DEF ObjectsOK
  <2>8. diff(o) = [obj |-> o, old |-> tail[m].old, new |-> objects[o]]
    BY <2>5
  <2> HIDE DEF diff, tail
  <2>9. diff(o) \in Change
    BY <2>6, <2>7, <2>8, ChangeType
  <2> QED BY <2>6, <2>8, <2>9 DEF ChangesOf
<1>5. IsFiniteSet(diffs)
  <2>1. IsFiniteSet(1..Len(tail))
    <3>1. PICK n : n = Len(tail) /\ n \in Int /\ 1 \in Int
      BY <1>2
    <3>2. /\ IsFiniteSet(1..n)
          /\ Cardinality(1..n) = IF 1 > n THEN 0 ELSE n - 1 + 1
      BY <3>1, FS_Interval, Zenon
    <3> QED BY <3>1, <3>2
  <2> DEFINE f == [m \in 1..Len(tail) |-> diff(tail[m].obj)]
  <2> HIDE DEF diff, tail
  <2>2. f \in Surjection(1..Len(tail), diffs)
    <3>1. \A m \in 1..Len(tail) : f[m] \in diffs
      BY <1>3
    <3>2. \A d \in diffs : \E m \in 1..Len(tail) : f[m] = d
      BY <1>3
    <3> QED BY <3>1, <3>2 DEF Surjection
  <2> HIDE DEF f, diffs
  <2> QED BY <2>1, <2>2, FS_Surjection
<1>6. IsFiniteSet(seen)
  <2> HIDE DEF diffs
  <2> QED BY <1>5, FS_Subset
<1>7. seen \subseteq ChangesOf(k) /\ \A c \in seen : c.new = objects[c.obj]
  <2> HIDE DEF diff, O
  <2> QED BY <1>4
<1>8. informers' = [informers EXCEPT ![k].pending =
                 SubSeq(@, 1, informers[k].indexed) \o SetToSeq(seen)]
  BY DEF Relist
<1> HIDE DEF seen
<1> QED BY <1>6, <1>7, <1>8

LEMMA InformerStep ==
  ASSUME WatchTypes, NEW k \in Kind,
         InitialList(k) \/ Deliver(k) \/ Relist(k) \/ Handle(k)
  PROVE  InformersOK(informers', objects', watch')
<1>1. /\ InformersOK(informers, objects, watch) /\ ObjectsOK(objects)
      /\ objects' = objects /\ watch' = watch
  BY DEF WatchTypes, InitialList, Deliver, Relist, Handle, clusterVars
<1>2. CASE InitialList(k)
  <2>1. informers' = [x \in DOMAIN informers \cup {k} |->
                        IF x = k THEN ListOf(k) ELSE informers[x]]
    BY <1>2 DEF InitialList, A!Put
  <2>2. InformerOK(k, ListOf(k)) /\ Current(ListOf(k), objects)
    BY <1>1, ListOK DEF ObjectsOK
  <2> QED BY <1>1, <2>1, <2>2 DEF InformersOK
<1>3. CASE ~InitialList(k)
  <2>1. k \in DOMAIN informers
    BY <1>3 DEF Deliver, Relist, Handle
  <2>2. PICK i : /\ i = informers[k] /\ InformerOK(k, i)
                 /\ watch # "off" => Current(i, objects)
    BY <1>1, <2>1 DEF InformersOK
  <2>3. CASE Deliver(k)
    <3>1. PICK j : j = [i EXCEPT !.indexed = @ + 1]
      OBVIOUS
    <3>2. informers' = [informers EXCEPT ![k] = j] /\ Unindexed(i) # <<>>
      BY <2>2, <2>3, <3>1 DEF Deliver
    <3>3. InformerOK(k, j) /\ (watch # "off" => Current(j, objects))
      BY <2>2, <3>1, <3>2, DeliverOK
    <3> QED BY <1>1, <2>1, <3>2, <3>3, PutInformer
  <2>4. CASE Relist(k)
    <3>1. PICK seen :
            /\ IsFiniteSet(seen) /\ seen \subseteq ChangesOf(k)
            /\ \A c \in seen : c.new = objects[c.obj]
            /\ informers' = [informers EXCEPT ![k].pending =
                  SubSeq(@, 1, informers[k].indexed) \o SetToSeq(seen)]
      BY <2>1, <2>4, RelistDiffs
    <3>2. PICK j : j = [i EXCEPT !.pending =
                          SubSeq(@, 1, i.indexed) \o SetToSeq(seen)]
      OBVIOUS
    <3>3. informers' = [informers EXCEPT ![k] = j]
      BY <2>2, <3>1, <3>2, Zenon
    <3>4. InformerOK(k, j) /\ Current(j, objects)
      BY <2>2, <3>1, <3>2, RelistOK
    <3> QED BY <1>1, <2>1, <3>3, <3>4, PutInformer
  <2>5. CASE Handle(k)
    <3>1. PICK j : j = [pending |-> Tail(i.pending), indexed |-> i.indexed - 1]
      OBVIOUS
    <3>2. informers' = [informers EXCEPT ![k] = j] /\ i.indexed > 0
      BY <2>2, <2>5, <3>1 DEF Handle
    <3>3. InformerOK(k, j) /\ (watch # "off" => Current(j, objects))
      BY <2>2, <3>1, <3>2, HandleOK
    <3> QED BY <1>1, <2>1, <3>2, <3>3, PutInformer
  <2> QED BY <1>3, <2>3, <2>4, <2>5
<1> QED BY <1>2, <1>3

LEMMA WatchTypesStep ==
  ASSUME WatchTypes, [Next]_vars
  PROVE  WatchTypes'
<1>1. BlindInv'
  BY BlindStep DEF WatchTypes
<1>2. CASE \E o \in Object : \E new \in Contents(o) : ChangeObject(o, new)
  BY <1>1, <1>2, ChangeStep DEF WatchTypes
<1>3. CASE \E k \in Kind :
             InitialList(k) \/ Deliver(k) \/ Relist(k) \/ Handle(k)
  <2>1. UNCHANGED <<objects, changes, watch>>
    BY <1>3 DEF InitialList, Deliver, Relist, Handle, clusterVars
  <2> QED BY <1>1, <1>3, <2>1, InformerStep DEF WatchTypes, ControlInv
<1>4. CASE GiveUp
  <2>1. /\ DOMAIN informers' = DOMAIN informers /\ watch' = "off"
        /\ informers' = [k \in DOMAIN informers' |-> informers'[k]]
        /\ UNCHANGED <<objects, changes>>
    BY <1>4 DEF GiveUp, clusterVars
  <2>2. ASSUME NEW k \in DOMAIN informers
        PROVE  InformerOK(k, informers'[k])
    <3>1. PICK i : i = informers[k] /\ InformerOK(k, i)
      BY DEF WatchTypes, InformersOK
    <3>2. informers'[k] = [i EXCEPT !.pending = SubSeq(@, 1, i.indexed)]
      BY <1>4, <3>1 DEF GiveUp
    <3> QED BY <3>1, <3>2, CutOK
  <2>3. InformersOK(informers', objects', watch')
    BY <2>1, <2>2 DEF WatchTypes, InformersOK
  <2> QED BY <1>1, <2>1, <2>3 DEF WatchTypes, ControlInv
<1>5. CASE Activate
  BY <1>1, <1>5
     DEF Activate, clusterVars, WatchTypes, InformersOK, ControlInv
<1>6. CASE UNCHANGED <<objects, changes, watch, informers>>
  BY <1>1, <1>6 DEF WatchTypes, ControlInv
<1> QED
  BY <1>2, <1>3, <1>4, <1>5, <1>6
     DEF Next, Sweeping, Calling, Evict, Tick, vars, clusterVars, watchVars

(***************************************************************************)
(* The informers and the history are well typed: each informer holds       *)
(* changes of its own kind, of which the indexer has seen a prefix         *)
(* (watch.go:74-159).                                                      *)
(***************************************************************************)
THEOREM WatchTyped == Spec => []TypeOK
<1>1. Init => WatchTypes
  BY WatchTypesInit
<1>2. WatchTypes /\ [Next]_vars => WatchTypes'
  BY WatchTypesStep
<1>3. WatchTypes => TypeOK
  BY WatchTypesMeaning
<1> QED BY <1>1, <1>2, <1>3, PTL DEF Spec

-----------------------------------------------------------------------------
(* Whom an event evicts, and whom it concerns.                             *)

LEMMA MatchedAreNamed ==
  ASSUME NEW subjects, NEW id
  PROVE  id \in Matched(subjects) <=> id \in DOMAIN cache /\ Names(subjects, id)
BY DEF Matched, Names

LEMMA BoundTo ==
  ASSUME NEW r \in Role, NEW b \in Binding
  PROVE  RoleOf(b) = r <=> /\ b.ref = [kind |-> r.kind, name |-> r.name]
                           /\ r.kind = "Role" => b.ns = r.ns
<1>1. /\ r = [kind |-> r.kind, ns |-> r.ns, name |-> r.name]
      /\ r.kind = "Role" \/ (r.kind = "ClusterRole" /\ r.ns = NamespaceAll)
      /\ b.ref = [kind |-> b.ref.kind, name |-> b.ref.name]
  <2>1. \A x \in Role : x = [kind |-> x.kind, ns |-> x.ns, name |-> x.name]
    BY WatchAssumption
  <2>4. r.kind = "Role" \/ (r.kind = "ClusterRole" /\ r.ns = NamespaceAll)
    <3>1. \A x \in Role : \/ x.kind = "Role"
                          \/ x.kind = "ClusterRole" /\ x.ns = NamespaceAll
      BY WatchAssumption
    <3> QED BY <3>1
  <2>2. \A x \in Binding : x.ref = [kind |-> x.ref.kind, name |-> x.ref.name]
    BY WatchAssumption
  <2>3. r = [kind |-> r.kind, ns |-> r.ns, name |-> r.name]
    BY <2>1, Zenon
  <2>5. b.ref = [kind |-> b.ref.kind, name |-> b.ref.name]
    BY <2>2, Zenon
  <2> QED BY <2>3, <2>4, <2>5
<1>2. CASE RoleOf(b) = r
  BY <1>1, <1>2 DEF RoleOf
<1>3. CASE b.ref = [kind |-> r.kind, name |-> r.name]
           /\ (r.kind = "Role" => b.ns = r.ns)
  <2>1. b.ref.kind = r.kind /\ b.ref.name = r.name
    BY <1>3
  <2>2. r.ns = IF b.ref.kind = "Role" THEN b.ns ELSE NamespaceAll
    BY <1>1, <1>3, <2>1
  <2>3. RoleOf(b) = [kind |-> r.kind, ns |-> r.ns, name |-> r.name]
    BY <2>1, <2>2 DEF RoleOf
  <2>4. RoleOf(b) = r
    BY <1>1, <2>3, Zenon
  <2> QED BY <1>3, <2>4
<1> QED BY <1>2, <1>3

LEMMA BoundNames ==
  ASSUME NEW r \in Role, NEW id
  PROVE  Names(Bound(r), id) <=>
           \E b \in Binding : RoleOf(b) = r /\ Names(Listed(b), id)
<1>1. \A s : s \in Bound(r) <=>
               \E b \in Binding : RoleOf(b) = r /\ s \in Listed(b)
  BY BoundTo DEF Bound
<1> QED BY <1>1 DEF Names

EvictsBy(c, id, scope) ==
  \/ c.obj \in Binding /\ Names(c.old \cup c.new, id)
  \/ /\ c.obj \in Role /\ c.old # {}
     /\ \E b \in Binding : RoleOf(b) = c.obj /\ Names(Listed(b), id)
  \/ /\ c.obj.kind = "Namespace" /\ c.new = {}
     /\ scope # All /\ c.obj.ns \in scope

LEMMA EvictedCases ==
  ASSUME NEW c \in Change, NEW id
  PROVE  id \in Evicted(c) <=>
           id \in DOMAIN cache /\ EvictsBy(c, id, cache[id].scope)
<1>1. /\ c.obj \in Binding \/ c.obj \in Role \/ c.obj.kind = "Namespace"
      /\ ~(c.obj \in Binding /\ c.obj \in Role)
      /\ c.obj.kind = "Namespace" => c.obj \notin Binding /\ c.obj \notin Role
  BY ChangeType, KindsDisjoint
<1>2. CASE c.obj \in Binding
  <2>1. Evicted(c) = Matched(c.old \cup c.new)
    BY <1>1, <1>2 DEF Evicted
  <2> QED BY <1>1, <1>2, <2>1, MatchedAreNamed DEF EvictsBy
<1>3. CASE c.obj \in Role /\ c.old # {}
  <2>1. Evicted(c) = Matched(Bound(c.obj))
    BY <1>1, <1>3 DEF Evicted
  <2> QED BY <1>1, <1>3, <2>1, MatchedAreNamed, BoundNames DEF EvictsBy
<1>4. CASE c.obj.kind = "Namespace" /\ c.new = {}
  <2>1. Evicted(c) = {i \in DOMAIN cache : /\ cache[i].scope # All
                                           /\ c.obj.ns \in cache[i].scope}
    BY <1>1, <1>4 DEF Evicted
  <2> QED BY <1>1, <1>4, <2>1 DEF EvictsBy
<1>5. CASE /\ c.obj \notin Binding /\ ~(c.obj \in Role /\ c.old # {})
           /\ ~(c.obj.kind = "Namespace" /\ c.new = {})
  <2>1. Evicted(c) = {}
    BY <1>5 DEF Evicted
  <2> QED BY <1>5, <2>1 DEF EvictsBy
<1> QED BY <1>2, <1>3, <1>4, <1>5

LEMMA ConcernsCases ==
  ASSUME NEW c \in Change, NEW id, NEW scope
  PROVE  Concerns(c, id, scope) <=>
           \/ c.obj \in Binding /\ Names(c.old \cup c.new, id)
           \/ /\ c.obj \in Role /\ c.old # {}
              /\ \E b \in Binding : RoleOf(b) = c.obj /\ NamedBy(b, id)
           \/ /\ c.obj.kind = "Namespace" /\ c.new = {}
              /\ scope # All /\ c.obj.ns \in scope
<1>1. /\ c.obj \in Binding \/ c.obj \in Role \/ c.obj.kind = "Namespace"
      /\ ~(c.obj \in Binding /\ c.obj \in Role)
      /\ c.obj.kind = "Namespace" => c.obj \notin Binding /\ c.obj \notin Role
  BY ChangeType, KindsDisjoint
<1>2. CASE c.obj \in Binding
  BY <1>1, <1>2 DEF Concerns
<1>3. CASE c.obj \in Role
  BY <1>1, <1>3 DEF Concerns
<1>4. CASE c.obj.kind = "Namespace"
  BY <1>1, <1>4 DEF Concerns
<1> QED BY <1>1, <1>2, <1>3, <1>4

(* What the lister says of a binding is what it holds, or what a change    *)
(* that is pending found there.                                            *)
LEMMA ListedNames ==
  ASSUME WatchTypes, NEW b \in Binding, NEW id, Names(Listed(b), id)
  PROVE  NamedBy(b, id)
<1>1. b.kind \in DOMAIN informers
  BY DEF Listed, Names
<1>2. PICK i : i = informers[b.kind] /\ InformerOK(b.kind, i)
  BY <1>1 DEF WatchTypes, InformersOK
<1>3. PICK tail : tail = Unindexed(i)
  OBVIOUS
<1>4. PICK m : m = FirstOf(tail, b)
  OBVIOUS
<1>5. Listed(b) = IF m = 0 THEN objects[b] ELSE tail[m].old
  BY <1>1, <1>2, <1>3, <1>4 DEF Listed, FirstOf
<1>6. CASE m = 0
  BY <1>5, <1>6 DEF NamedBy
<1>7. CASE m # 0
  <2>1. tail \in Seq(ChangesOf(b.kind))
    BY <1>2, <1>3, UnindexedElements
  <2>2. m \in 1..Len(tail) /\ tail[m].obj = b
    BY <1>4, <1>7, <2>1, FirstChange
  <2>3. /\ tail[m] = i.pending[i.indexed + m]
        /\ i.indexed + m \in 1..Len(i.pending)
    <3>1. /\ Len(tail) = Len(i.pending) - i.indexed
          /\ tail[m] = i.pending[i.indexed + m]
      BY <1>2, <1>3, <2>2, UnindexedElements
    <3>2. Len(i.pending) \in Nat /\ i.indexed \in 0..Len(i.pending)
      BY <1>2, InformerElements DEF InformerOK
    <3> QED BY <2>2, <3>1, <3>2
  <2>4. tail[m] \in Range(i.pending)
    BY <1>2, <2>3, InformerElements
  <2>5. Names(tail[m].old \cup tail[m].new, id)
    BY <1>5, <1>7 DEF Names
  <2> QED BY <1>1, <1>2, <2>2, <2>4, <2>5 DEF NamedBy
<1> QED BY <1>6, <1>7

LEMMA HandledConcerns ==
  ASSUME WatchTypes, NEW k \in DOMAIN informers, Handle(k),
         NEW id \in DOMAIN cache \ DOMAIN cache'
  PROVE  Concerns(Head(informers[k].pending), id, cache[id].scope)
<1>1. PICK c : c = Head(informers[k].pending)
  OBVIOUS
<1>2. c \in ChangesOf(k)
  <2>1. PICK i : i = informers[k] /\ InformerOK(k, i) /\ i.indexed > 0
    BY DEF WatchTypes, InformersOK, Handle
  <2>2. i.pending \in Seq(ChangesOf(k)) /\ i.pending # <<>>
    BY <2>1, PendingNotEmpty DEF InformerOK
  <2>3. Head(i.pending) \in ChangesOf(k)
    BY <2>2, HeadTailProperties
  <2> QED BY <1>1, <2>1, <2>3
<1>3. id \in Evicted(c)
  BY <1>1 DEF Handle, A!Invalidate, A!Restricted
<1>4. EvictsBy(c, id, cache[id].scope) /\ c \in Change
  BY <1>2, <1>3, EvictedCases DEF ChangesOf
<1> QED BY <1>1, <1>4, ConcernsCases, ListedNames DEF EvictsBy

(***************************************************************************)
(* An event evicts only identities it concerns, in any cluster: the        *)
(* handlers tell apart kinds of subjects, roles of one name in different   *)
(* namespaces, and Roles from ClusterRoles (watch.go:256-345).             *)
(***************************************************************************)
THEOREM WatchEvictsConcerned == Spec => UnconcernedStayCached
<1>1. Init => WatchTypes
  BY WatchTypesInit
<1>2. WatchTypes /\ [Next]_vars => WatchTypes'
  BY WatchTypesStep
<1>3. WatchTypes =>
        \A k \in DOMAIN informers :
          Handle(k) =>
            \A id \in DOMAIN cache \ DOMAIN cache' :
              Concerns(Head(informers[k].pending), id, cache[id].scope)
  BY HandledConcerns
<1> QED BY <1>1, <1>2, <1>3, PTL DEF Spec, UnconcernedStayCached

-----------------------------------------------------------------------------
(* RevocationOnItsWay.  What is taken away, and what is on its way, as     *)
(* operators of the cluster's objects and of the changes that are pending. *)

PendingIn(infs) == UNION {Range(infs[k].pending) : k \in DOMAIN infs}

CanIn(objs, id, q) ==
  \E b \in Binding : /\ Names(objs[b], id) /\ objs[RoleOf(b)] = {"allow"}
                     /\ b.ns \in {q, NamespaceAll}

OvergrantsIn(objs, id, scope) ==
  IF scope = All THEN ~CanIn(objs, id, NamespaceAll)
  ELSE \E n \in scope : objs[NamespaceObject(n)] = {} \/ ~CanIn(objs, id, n)

(* A role's change concerns those its bindings name now: whom a pending    *)
(* change to a binding names, that change concerns itself.                 *)
ComingFor(objs, c, id, scope) ==
  \/ c.obj \in Binding /\ Names(c.old \cup c.new, id)
  \/ /\ c.obj \in Role /\ c.old # {}
     /\ \E b \in Binding : RoleOf(b) = c.obj /\ Names(objs[b], id)
  \/ /\ c.obj.kind = "Namespace" /\ c.new = {}
     /\ scope # All /\ c.obj.ns \in scope

Covered(objs, S, id, scope) ==
  OvergrantsIn(objs, id, scope) => \E c \in S : ComingFor(objs, c, id, scope)

LEMMA PendingChanges ==
  ASSUME WatchTypes, NEW c \in PendingIn(informers)
  PROVE  /\ c \in Change /\ c.obj.kind \in DOMAIN informers
         /\ c \in Range(informers[c.obj.kind].pending)
<1>1. PICK k \in DOMAIN informers : c \in Range(informers[k].pending)
  BY DEF PendingIn
<1>2. InformerOK(k, informers[k])
  BY DEF WatchTypes, InformersOK
<1>3. c \in ChangesOf(k)
  BY <1>1, <1>2, InformerElements, SMTT(20)
<1> QED BY <1>1, <1>3 DEF ChangesOf

LEMMA OnItsWayMeaning ==
  ASSUME WatchTypes, NEW id, NEW scope
  PROVE  OnItsWay(id, scope) <=>
           \E c \in PendingIn(informers) : ComingFor(objects, c, id, scope)
<1>1. OnItsWay(id, scope) <=>
        \E c \in PendingIn(informers) : Concerns(c, id, scope)
  BY DEF OnItsWay, PendingIn
<1>2. ASSUME NEW c \in PendingIn(informers), Concerns(c, id, scope)
      PROVE  \E d \in PendingIn(informers) : ComingFor(objects, d, id, scope)
  <2>1. c \in Change
    BY PendingChanges
  <2>2. \/ ComingFor(objects, c, id, scope)
        \/ \E b \in Binding : NamedBy(b, id) /\ ~Names(objects[b], id)
    BY <1>2, <2>1, ConcernsCases DEF ComingFor
  <2>3. ASSUME NEW b \in Binding, NamedBy(b, id), ~Names(objects[b], id)
        PROVE  \E d \in PendingIn(informers) : ComingFor(objects, d, id, scope)
    <3>1. PICK d : /\ b.kind \in DOMAIN informers
                   /\ d \in Range(informers[b.kind].pending)
                   /\ d.obj = b /\ Names(d.old \cup d.new, id)
      BY <2>3 DEF NamedBy
    <3> QED BY <3>1 DEF PendingIn, ComingFor
  <2> QED BY <2>2, <2>3
<1>3. ASSUME NEW c \in PendingIn(informers), ComingFor(objects, c, id, scope)
      PROVE  Concerns(c, id, scope)
  <2>1. c \in Change
    BY PendingChanges
  <2> QED BY <1>3, <2>1, ConcernsCases DEF ComingFor, NamedBy
<1> QED BY <1>1, <1>2, <1>3

LEMMA OvergrantsMeaning ==
  ASSUME NEW id \in Identity, NEW scope \in A!Scope
  PROVE  Overgrants(id, scope) <=> OvergrantsIn(objects, id, scope)
<1>1. \A q : A!CanListPods(May, id, q) <=> CanIn(objects, id, q)
  BY DEF A!CanListPods, May, CanIn
<1>2. CASE scope = All
  BY <1>1, <1>2 DEF Overgrants, OvergrantsIn
<1>3. CASE scope # All
  <2>1. scope \subseteq Namespace
    BY <1>3 DEF A!Scope
  <2>2. \A n \in scope :
          n \notin ExistingNamespaces <=> objects[NamespaceObject(n)] = {}
    BY <2>1 DEF ExistingNamespaces
  <2> QED BY <1>1, <1>3, <2>2 DEF Overgrants, OvergrantsIn
<1> QED BY <1>2, <1>3

Meaning ==
  \A id \in Identity, scope \in A!Scope :
    (Overgrants(id, scope) => OnItsWay(id, scope))
      <=> Covered(objects, PendingIn(informers), id, scope)

LEMMA CoveredMeaning == WatchTypes => Meaning
BY OnItsWayMeaning, OvergrantsMeaning DEF Covered, Meaning

LEMMA CoveredMeaningNext == (WatchTypes => Meaning)'
BY CoveredMeaning, PTL

-----------------------------------------------------------------------------
(* A change takes away only what it is on its way for.                     *)
LEMMA ChangeCovers ==
  ASSUME NEW objs, NEW o \in Object, NEW new,
         NEW c, c.obj = o, c.old = objs[o], c.new = new,
         NEW objs2,
         \A x \in Object : objs2[x] = IF x = o THEN new ELSE objs[x],
         NEW S, NEW S2, S \subseteq S2, c \in S2,
         NEW id, NEW scope \in A!Scope, Covered(objs, S, id, scope)
  PROVE  Covered(objs2, S2, id, scope)
<1>1. /\ \A x \in Object : objs2[x] = IF x = o THEN new ELSE objs[x]
      /\ c.obj = o /\ c.old = objs[o] /\ c.new = new
  OBVIOUS
<1>2. /\ Binding \subseteq Object
      /\ \A n \in Namespace : NamespaceObject(n) \in Object
      /\ \A b \in Binding : /\ RoleOf(b) \in Role /\ RoleOf(b) \in Object
                            /\ RoleOf(b) # b
  <2>1. \A b \in Binding : RoleOf(b) \in Role
    BY WatchAssumption
  <2>2. \A b \in Binding : b \notin Role
    BY KindsDisjoint
  <2> QED BY <2>1, <2>2 DEF Object
<1>3. ASSUME NEW b \in Binding, Names(objs[b], id),
             b = o \/ (RoleOf(b) = o /\ objs[o] # {})
      PROVE  ComingFor(objs2, c, id, scope)
  <2>1. CASE b = o
    BY <1>1, <1>3, <2>1 DEF ComingFor, Names
  <2>2. CASE b # o
    <3>1. objs2[b] = objs[b] /\ RoleOf(b) = o /\ o \in Role /\ c.old # {}
      BY <1>1, <1>2, <1>3, <2>2
    <3> QED BY <1>1, <1>3, <3>1 DEF ComingFor
  <2> QED BY <2>1, <2>2
<1>4. ASSUME NEW q, CanIn(objs, id, q), ~CanIn(objs2, id, q)
      PROVE  ComingFor(objs2, c, id, scope)
  <2>1. PICK b \in Binding : /\ Names(objs[b], id)
                             /\ objs[RoleOf(b)] = {"allow"}
                             /\ b.ns \in {q, NamespaceAll}
    BY <1>4 DEF CanIn
  <2>2. b = o \/ RoleOf(b) = o
    BY <1>1, <1>2, <1>4, <2>1 DEF CanIn
  <2>3. b = o \/ (RoleOf(b) = o /\ objs[o] # {})
    BY <2>1, <2>2
  <2> QED BY <1>3, <2>1, <2>3, Zenon
<1>5. ASSUME NEW d \in S, ComingFor(objs, d, id, scope)
      PROVE  ComingFor(objs2, c, id, scope) \/ ComingFor(objs2, d, id, scope)
  <2>1. CASE \E b \in Binding : RoleOf(b) = d.obj /\ Names(objs[b], id)
    <3>1. PICK b \in Binding : RoleOf(b) = d.obj /\ Names(objs[b], id)
      BY <2>1
    <3>2. CASE b = o
      BY <1>3, <3>1, <3>2, Zenon
    <3>3. CASE b # o
      <4>1. objs2[b] = objs[b]
        BY <1>1, <1>2, <3>3
      <4> QED BY <1>5, <3>1, <4>1 DEF ComingFor
    <3> QED BY <3>2, <3>3
  <2>2. CASE ~\E b \in Binding : RoleOf(b) = d.obj /\ Names(objs[b], id)
    BY <1>5, <2>2 DEF ComingFor
  <2> QED BY <2>1, <2>2
<1>6. ASSUME OvergrantsIn(objs2, id, scope), ~OvergrantsIn(objs, id, scope)
      PROVE  ComingFor(objs2, c, id, scope)
  <2>1. CASE scope = All
    <3>1. CanIn(objs, id, NamespaceAll) /\ ~CanIn(objs2, id, NamespaceAll)
      BY <1>6, <2>1 DEF OvergrantsIn
    <3> QED BY <1>4, <3>1
  <2>2. CASE scope # All
    <3>1. PICK n \in scope :
            objs2[NamespaceObject(n)] = {} \/ ~CanIn(objs2, id, n)
      BY <1>6, <2>2 DEF OvergrantsIn
    <3>2. objs[NamespaceObject(n)] # {} /\ CanIn(objs, id, n)
      BY <1>6, <2>2 DEF OvergrantsIn
    <3>3. CASE ~CanIn(objs2, id, n)
      BY <1>4, <3>2, <3>3
    <3>4. CASE objs2[NamespaceObject(n)] = {}
      <4>1. n \in Namespace
        BY <2>2 DEF A!Scope
      <4>2. NamespaceObject(n) = o /\ new = {}
        BY <1>1, <1>2, <3>2, <3>4, <4>1
      <4>3. o.kind = "Namespace" /\ o.ns = n
        BY <4>2 DEF NamespaceObject
      <4> QED BY <1>1, <2>2, <4>2, <4>3 DEF ComingFor
    <3> QED BY <3>1, <3>3, <3>4
  <2> QED BY <2>1, <2>2
<1> QED BY <1>5, <1>6 DEF Covered

(* The last change to a binding that the indexer has not seen.             *)
LEMMA LastUnindexed ==
  ASSUME NEW k, NEW i, InformerOK(k, i), NEW objs, Current(i, objs),
         NEW b, NEW l \in (i.indexed + 1)..Len(i.pending), i.pending[l].obj = b
  PROVE  \E d \in Range(i.pending) : d.obj = b /\ d.new = objs[b]
<1>1. Len(i.pending) \in Nat /\ i.indexed \in 0..Len(i.pending)
  BY InformerElements DEF InformerOK
<1> DEFINE n == Len(i.pending)
           T == {x \in Nat : /\ n - x \in (i.indexed + 1)..n
                             /\ i.pending[n - x].obj = b}
<1>2. n - l \in T
  <2>1. n - l \in Nat /\ n - (n - l) = l
    BY <1>1
  <2> QED BY <2>1
<1>3. PICK x \in T : \A y \in T : ~ (<<y, x>> \in OpToRel(<, Nat))
  <2>1. T \subseteq Nat /\ T # {}
    BY <1>2
  <2> HIDE DEF T
  <2> QED BY <2>1, NatLessThanWellFounded, WFMin
<1>4. ASSUME NEW m \in ((n - x) + 1)..n
      PROVE  i.pending[m].obj # b
  <2>1. n - m \in Nat /\ n - m < x /\ n - (n - m) = m
        /\ m \in (i.indexed + 1)..n
    BY <1>1
  <2>2. n - m \notin T
    BY <1>3, <2>1 DEF OpToRel
  <2> QED BY <2>1, <2>2
<1>5. n - x \in (i.indexed + 1)..n /\ i.pending[n - x].obj = b
  OBVIOUS
<1>6. i.pending[n - x].new = objs[b]
  BY <1>4, <1>5 DEF Current
<1>7. i.pending[n - x] \in Range(i.pending)
  <2>1. n - x \in 1..n
    BY <1>1
  <2> QED BY <2>1, InformerElements
<1> QED BY <1>5, <1>6, <1>7

(* The lister knows whom a binding names, or a change that says so is      *)
(* pending.                                                                *)
LEMMA ListedOrPending ==
  ASSUME WatchTypes, watch # "off", NEW b \in Binding,
         b.kind \in DOMAIN informers
  PROVE  \/ Listed(b) = objects[b]
         \/ \E d \in PendingIn(informers) : d.obj = b /\ d.new = objects[b]
<1>1. PICK i : /\ i = informers[b.kind] /\ InformerOK(b.kind, i)
               /\ Current(i, objects)
  BY DEF WatchTypes, InformersOK
<1>2. PICK tail : tail = Unindexed(i)
  OBVIOUS
<1>3. PICK m : m = FirstOf(tail, b)
  OBVIOUS
<1>4. Listed(b) = IF m = 0 THEN objects[b] ELSE tail[m].old
  BY <1>1, <1>2, <1>3 DEF Listed, FirstOf
<1>5. CASE m # 0
  <2>1. tail \in Seq(ChangesOf(b.kind))
    BY <1>1, <1>2, UnindexedElements
  <2>2. m \in 1..Len(tail) /\ tail[m].obj = b
    BY <1>3, <1>5, <2>1, FirstChange
  <2>3. /\ Len(tail) = Len(i.pending) - i.indexed
        /\ tail[m] = i.pending[i.indexed + m]
    BY <1>1, <1>2, <2>2, UnindexedElements
  <2>4. Len(i.pending) \in Nat /\ i.indexed \in 0..Len(i.pending)
    BY <1>1, InformerElements DEF InformerOK
  <2>5. PICK l : l = i.indexed + m /\ l \in (i.indexed + 1)..Len(i.pending)
    BY <2>2, <2>3, <2>4
  <2>6. \E d \in Range(i.pending) : d.obj = b /\ d.new = objects[b]
    BY <1>1, <2>2, <2>3, <2>5, LastUnindexed, SMTT(20)
  <2> QED BY <1>1, <2>6 DEF PendingIn
<1> QED BY <1>4, <1>5

Synced == watch # "off" /\ DOMAIN informers = Kind

(* The handler that runs for a change evicts everyone the change alone     *)
(* was on its way for.                                                     *)
LEMMA HandlingCovers ==
  ASSUME WatchTypes, Synced, NEW c \in PendingIn(informers),
         NEW S, PendingIn(informers) \subseteq S \cup {c},
         NEW id, NEW scope, ~EvictsBy(c, id, scope),
         Covered(objects, PendingIn(informers), id, scope)
  PROVE  Covered(objects, S, id, scope)
<1> SUFFICES ASSUME OvergrantsIn(objects, id, scope)
             PROVE  \E d \in S : ComingFor(objects, d, id, scope)
  BY DEF Covered
<1>1. PICK d \in PendingIn(informers) : ComingFor(objects, d, id, scope)
  BY DEF Covered
<1>2. CASE d # c
  BY <1>1, <1>2
<1>3. CASE d = c
  <2>1. /\ c.obj \in Role
        /\ \E b \in Binding : /\ RoleOf(b) = c.obj /\ Names(objects[b], id)
                              /\ ~Names(Listed(b), id)
    BY <1>1, <1>3 DEF ComingFor, EvictsBy
  <2>2. PICK b \in Binding : /\ RoleOf(b) = c.obj /\ Names(objects[b], id)
                             /\ ~Names(Listed(b), id)
    BY <2>1
  <2>3. b.kind \in DOMAIN informers
    BY KindsDisjoint DEF Synced, Kind
  <2>4. PICK e \in PendingIn(informers) : e.obj = b /\ e.new = objects[b]
    BY <2>2, <2>3, ListedOrPending DEF Synced
  <2>5. e # c
    BY <2>1, <2>4, KindsDisjoint
  <2>6. ComingFor(objects, e, id, scope)
    BY <2>2, <2>4 DEF ComingFor, Names
  <2> QED BY <2>5, <2>6
<1> QED BY <1>2, <1>3

LEMMA ChangePending ==
  ASSUME WatchTypes, Synced, NEW o \in Object, NEW new \in Contents(o),
         ChangeObject(o, new)
  PROVE  /\ PendingIn(informers) \subseteq PendingIn(informers')
         /\ [obj |-> o, old |-> objects[o], new |-> new]
              \in PendingIn(informers')
<1>1. PICK c : c = [obj |-> o, old |-> objects[o], new |-> new]
  OBVIOUS
<1>2. c \in ChangesOf(o.kind)
  BY <1>1, ChangeType DEF WatchTypes, ObjectsOK, ChangesOf
<1>3. o.kind \in DOMAIN informers
  BY KindsDisjoint DEF Synced
<1>4. PICK i : i = informers[o.kind] /\ InformerOK(o.kind, i)
  BY <1>3 DEF WatchTypes, InformersOK
<1>5. PICK j : j = [i EXCEPT !.pending = Append(@, c)]
  OBVIOUS
<1>6. informers' = [informers EXCEPT ![o.kind] = j]
  BY <1>1, <1>3, <1>4, <1>5 DEF ChangeObject, Synced
<1>7. \A x : x \in Range(j.pending) <=> x \in Range(i.pending) \/ x = c
  <2>1. PICK C : C = ChangesOf(o.kind) /\ c \in C
    BY <1>2
  <2>2. PICK p, q, n : p = i.pending /\ q = Append(p, c) /\ n = Len(p)
    OBVIOUS
  <2>3. p \in Seq(C) /\ j.pending = q
    BY <1>4, <1>5, <2>1, <2>2 DEF InformerOK
  <2>4. /\ q \in Seq(C) /\ Len(q) = n + 1 /\ q[n + 1] = c
        /\ \A m \in 1..n : q[m] = p[m]
    BY <2>1, <2>2, <2>3, AppendProperties
  <2>5. n \in Nat
    BY <2>2, <2>3, LenProperties
  <2>6. \A x : x \in Range(p) <=> \E m \in 1..Len(p) : x = p[m]
    BY <2>3, SeqRange
  <2>8. \A x : x \in Range(q) <=> \E m \in 1..Len(q) : x = q[m]
    BY <2>4, SeqRange
  <2>7. \A x : x \in Range(q) <=> x \in Range(p) \/ x = c
    <3>1. \A x : x \in Range(p) <=> \E m \in 1..n : x = p[m]
      BY <2>2, <2>6, Zenon
    <3> QED BY <2>4, <2>5, <2>8, <3>1
  <2> QED BY <2>2, <2>3, <2>7, Zenon
<1>8. /\ DOMAIN informers' = DOMAIN informers
      /\ \A k \in DOMAIN informers :
           informers'[k] = IF k = o.kind THEN j ELSE informers[k]
  BY <1>6
<1> QED BY <1>1, <1>3, <1>4, <1>7, <1>8 DEF PendingIn

LEMMA HandlePending ==
  ASSUME WatchTypes, NEW k \in DOMAIN informers, Handle(k)
  PROVE  /\ Head(informers[k].pending) \in PendingIn(informers)
         /\ PendingIn(informers) \subseteq
              PendingIn(informers') \cup {Head(informers[k].pending)}
<1>1. PICK i : i = informers[k] /\ InformerOK(k, i) /\ i.indexed > 0
  BY DEF WatchTypes, InformersOK, Handle
<1>2. PICK j : j = [pending |-> Tail(i.pending), indexed |-> i.indexed - 1]
  OBVIOUS
<1>3. /\ Head(i.pending) \in Range(i.pending)
      /\ \A x \in Range(i.pending) : x \in Range(j.pending) \/ x = Head(i.pending)
  <2>1. PICK p, q : p = i.pending /\ q = Tail(p)
    OBVIOUS
  <2>2. p \in Seq(ChangesOf(k)) /\ p # <<>> /\ j.pending = q
    BY <1>1, <1>2, <2>1, PendingNotEmpty DEF InformerOK
  <2>3. /\ Head(p) \in Range(p)
        /\ \A x \in Range(p) : x \in Range(q) \/ x = Head(p)
    BY <2>1, <2>2, TailRange
  <2> QED BY <2>1, <2>2, <2>3, Zenon
<1>4. informers' = [informers EXCEPT ![k] = j]
  BY <1>1, <1>2 DEF Handle
<1>5. /\ DOMAIN informers' = DOMAIN informers
      /\ \A x \in DOMAIN informers :
           informers'[x] = IF x = k THEN j ELSE informers[x]
  BY <1>4
<1> QED BY <1>1, <1>3, <1>5 DEF PendingIn

-----------------------------------------------------------------------------
(* The inductive invariant: once the informers are in sync, entries and    *)
(* sweeps that are not blind are covered.                                  *)
EntriesCovered ==
  \A id \in DOMAIN cache \ blind.entries :
    Covered(objects, PendingIn(informers), id, cache[id].scope)

SweepsCovered ==
  \A id \in DOMAIN flights \ blind.flights :
    flights[id].phase = "sweep" =>
      Covered(objects, PendingIn(informers), id, flights[id].scope)

CoverInv ==
  /\ watch = "active" => DOMAIN informers = Kind
  /\ Synced => EntriesCovered /\ SweepsCovered

(* What is not covered after a step is Uncorrected.                        *)
LEMMA UncorrectedEntries ==
  ASSUME P!TypeOK', WatchTypes', NEW id \in DOMAIN cache',
         ~Covered(objects', PendingIn(informers'), id, cache'[id].scope)
  PROVE  id \in Uncorrected(cache)'
<1>1. id \in Identity /\ cache'[id].scope \in A!Scope
  BY DEF P!TypeOK, P!Entry, P!Scope, A!Scope
<1>2. PICK scope \in A!Scope : scope = cache'[id].scope
  BY <1>1
<1>3. ~(Overgrants(id, scope)' => OnItsWay(id, scope)')
  BY <1>1, <1>2, CoveredMeaningNext DEF Meaning
<1> QED BY <1>2, <1>3 DEF Uncorrected

LEMMA UncorrectedSweeps ==
  ASSUME P!TypeOK', WatchTypes', NEW id \in DOMAIN flights',
         ~Covered(objects', PendingIn(informers'), id, flights'[id].scope)
  PROVE  id \in Uncorrected(flights)'
<1>1. id \in Identity /\ flights'[id].scope \in A!Scope
  BY DEF P!TypeOK, P!Flight, P!Scope, A!Scope
<1>2. PICK scope \in A!Scope : scope = flights'[id].scope
  BY <1>1
<1>3. ~(Overgrants(id, scope)' => OnItsWay(id, scope)')
  BY <1>1, <1>2, CoveredMeaningNext DEF Meaning
<1> QED BY <1>2, <1>3 DEF Uncorrected

LEMMA CoverInit ==
  ASSUME Init
  PROVE  CoverInv
<1>1. DOMAIN cache = {} /\ DOMAIN flights = {} /\ watch = "syncing"
  BY DEF Init, A!Init
<1> QED BY <1>1 DEF CoverInv, EntriesCovered, SweepsCovered

LEMMA CoverChange ==
  ASSUME P!TypeOK, WatchTypes, CoverInv, NEW o \in Object,
         NEW new \in Contents(o), ChangeObject(o, new)
  PROVE  CoverInv'
<1>1. /\ UNCHANGED <<watch, cache, flights, blind>>
      /\ objects' = [objects EXCEPT ![o] = new]
      /\ DOMAIN informers' = DOMAIN informers
  BY DEF ChangeObject
<1>2. watch' = "active" => DOMAIN informers' = Kind
  BY <1>1 DEF CoverInv
<1>3. ASSUME Synced
      PROVE  EntriesCovered' /\ SweepsCovered'
  <2>1. PICK S, S2 : S = PendingIn(informers) /\ S2 = PendingIn(informers')
    OBVIOUS
  <2>2. PICK c : c = [obj |-> o, old |-> objects[o], new |-> new]
    OBVIOUS
  <2>3. S \subseteq S2 /\ c \in S2 /\ ObjectsOK(objects)
    BY <1>3, <2>1, <2>2, ChangePending DEF WatchTypes
  <2>4. ASSUME NEW id, NEW scope \in A!Scope, Covered(objects, S, id, scope)
        PROVE  Covered(objects', S2, id, scope)
    <3>1. PICK objs2 : objs2 = objects'
      OBVIOUS
    <3>2. /\ \A x \in Object : objs2[x] = IF x = o THEN new ELSE objects[x]
          /\ c.obj = o /\ c.old = objects[o] /\ c.new = new
      BY <1>1, <2>2, <2>3, <3>1 DEF ObjectsOK
    <3>3. Covered(objs2, S2, id, scope)
      BY <2>3, <2>4, <3>2, ChangeCovers
    <3> QED BY <3>1, <3>3, Zenon
  <2>5. /\ \A id \in DOMAIN cache : cache[id].scope \in A!Scope
        /\ \A id \in DOMAIN flights : flights[id].scope \in A!Scope
    BY DEF P!TypeOK, P!Entry, P!Flight, P!Scope, A!Scope
  <2>6. EntriesCovered /\ SweepsCovered
    BY <1>3 DEF CoverInv
  <2>7. EntriesCovered'
    BY <1>1, <2>1, <2>4, <2>5, <2>6 DEF EntriesCovered
  <2>8. SweepsCovered'
    BY <1>1, <2>1, <2>4, <2>5, <2>6 DEF SweepsCovered
  <2> QED BY <2>7, <2>8
<1>4. Synced' => Synced
  BY <1>1 DEF Synced
<1> QED BY <1>2, <1>3, <1>4 DEF CoverInv

(* What is listed at once, or again, blinds whom it leaves uncovered.      *)
LEMMA CoverList ==
  ASSUME P!TypeOK', WatchTypes', CoverInv, NEW k \in Kind,
         InitialList(k) \/ Relist(k)
  PROVE  CoverInv'
<1>1. /\ Blinding(blind.flights \cup Uncorrected(flights)',
                  blind.entries \cup Uncorrected(cache)')
      /\ UNCHANGED <<watch, cache, flights>>
  BY DEF InitialList, Relist, authzVars
<1>2. EntriesCovered'
  BY <1>1, UncorrectedEntries DEF Blinding, EntriesCovered
<1>3. SweepsCovered'
  BY <1>1, UncorrectedSweeps DEF Blinding, SweepsCovered
<1>4. watch' = "active" => DOMAIN informers' = Kind
  BY <1>1 DEF CoverInv, InitialList, Relist
<1> QED BY <1>2, <1>3, <1>4 DEF CoverInv

LEMMA CoverHandle ==
  ASSUME P!TypeOK', WatchTypes, WatchTypes', CoverInv,
         NEW k \in Kind, Handle(k)
  PROVE  CoverInv'
<1>1. /\ Blinding(blind.flights \cup Uncorrected(flights)', blind.entries)
      /\ UNCHANGED <<objects, watch, flights>>
      /\ DOMAIN informers' = DOMAIN informers /\ k \in DOMAIN informers
  BY DEF Handle, A!Invalidate, clusterVars
<1>2. SweepsCovered'
  BY <1>1, UncorrectedSweeps DEF Blinding, SweepsCovered
<1>3. ASSUME Synced
      PROVE  EntriesCovered'
  <2>1. PICK c : c = Head(informers[k].pending)
    OBVIOUS
  <2>2. cache' = [x \in DOMAIN cache \ Evicted(c) |-> cache[x]]
    BY <2>1 DEF Handle, A!Invalidate, A!Restricted
  <2>3. /\ c \in PendingIn(informers)
        /\ PendingIn(informers) \subseteq PendingIn(informers') \cup {c}
    BY <1>1, <2>1, HandlePending
  <2>4. c \in Change
    BY <2>3, PendingChanges
  <2> SUFFICES ASSUME NEW id \in DOMAIN cache' \ blind'.entries
               PROVE  Covered(objects', PendingIn(informers'), id,
                              cache'[id].scope)
    BY DEF EntriesCovered
  <2>5. PICK scope : scope = cache[id].scope
    OBVIOUS
  <2>6. id \in DOMAIN cache \ blind.entries /\ cache'[id].scope = scope
    BY <1>1, <2>2, <2>5 DEF Blinding
  <2>7. ~EvictsBy(c, id, scope)
    BY <2>2, <2>4, <2>5, EvictedCases
  <2>8. Covered(objects, PendingIn(informers), id, scope)
    BY <1>3, <2>5, <2>6 DEF CoverInv, EntriesCovered
  <2>9. Covered(objects, PendingIn(informers'), id, scope)
    BY <1>3, <2>3, <2>7, <2>8, HandlingCovers
  <2> QED BY <1>1, <2>6, <2>9
<1> QED BY <1>1, <1>2, <1>3 DEF CoverInv, Synced

(* A review adds a namespace that was allowed when it was asked about; one *)
(* that is gone by then blinds the sweep unless its deletion is pending.   *)
LEMMA ReviewCovers ==
  ASSUME NEW objs, NEW S, NEW id, NEW scope \in SUBSET Namespace,
         NEW n \in Namespace, objs[NamespaceObject(n)] # {}, CanIn(objs, id, n),
         Covered(objs, S, id, scope)
  PROVE  Covered(objs, S, id, scope \cup {n})
<1>1. scope # All /\ scope \cup {n} # All
  <2>1. scope \cup {n} \in SUBSET Namespace
    OBVIOUS
  <2> QED BY <2>1, WatchAssumption
<1> SUFFICES ASSUME OvergrantsIn(objs, id, scope \cup {n})
             PROVE  \E c \in S : ComingFor(objs, c, id, scope \cup {n})
  BY DEF Covered
<1>2. OvergrantsIn(objs, id, scope)
  BY <1>1 DEF OvergrantsIn
<1>3. PICK c \in S : ComingFor(objs, c, id, scope)
  BY <1>2 DEF Covered
<1>4. ComingFor(objs, c, id, scope \cup {n})
  BY <1>1, <1>3 DEF ComingFor
<1> QED BY <1>4

LEMMA MeansCanIn ==
  ASSUME NEW id \in Identity, NEW q
  PROVE  A!CanListPods(May, id, q) <=> CanIn(objects, id, q)
BY DEF A!CanListPods, May, CanIn

(* The steps that leave the cluster and the informers alone.               *)
LEMMA CoverQuiet ==
  ASSUME CoverInv, UNCHANGED <<objects, watch, informers>>,
         NEW S, S = PendingIn(informers),
         Synced => \A id \in DOMAIN cache' \ blind'.entries :
                     Covered(objects, S, id, cache'[id].scope),
         Synced => \A id \in DOMAIN flights' \ blind'.flights :
                     flights'[id].phase = "sweep" =>
                       Covered(objects, S, id, flights'[id].scope)
  PROVE  CoverInv'
<1>1. PendingIn(informers') = S /\ (Synced' <=> Synced)
  BY DEF Synced
<1>2. Synced => EntriesCovered' /\ SweepsCovered'
  BY <1>1 DEF EntriesCovered, SweepsCovered
<1>3. watch' = "active" => DOMAIN informers' = Kind
  BY DEF CoverInv
<1> QED BY <1>1, <1>2, <1>3 DEF CoverInv

(* Entries that only leave, or age, stay covered, and so do sweeps.        *)
LEMMA CoverShrinks ==
  ASSUME CoverInv, UNCHANGED <<objects, watch, informers>>, KeepBlind,
         \A id \in DOMAIN cache' :
           id \in DOMAIN cache /\ cache'[id].scope = cache[id].scope,
         \A id \in DOMAIN flights' :
           flights'[id].phase = "sweep" =>
             \/ /\ id \in DOMAIN flights /\ flights[id].phase = "sweep"
                /\ flights'[id].scope = flights[id].scope
             \/ Covered(objects, PendingIn(informers), id, flights'[id].scope)
  PROVE  CoverInv'
<1>1. PICK S : S = PendingIn(informers)
  OBVIOUS
<1>2. /\ \A id \in DOMAIN cache' \ blind'.entries : id \notin blind.entries
      /\ \A id \in DOMAIN flights' \ blind'.flights :
           flights'[id].phase = "sweep" => id \notin blind.flights
  BY DEF KeepBlind, Blinding
<1>3. Synced => \A id \in DOMAIN cache' \ blind'.entries :
                  Covered(objects, S, id, cache'[id].scope)
  BY <1>1, <1>2 DEF CoverInv, EntriesCovered
<1>4. Synced => \A id \in DOMAIN flights' \ blind'.flights :
                  flights'[id].phase = "sweep" =>
                    Covered(objects, S, id, flights'[id].scope)
  BY <1>1, <1>2 DEF CoverInv, SweepsCovered
<1> QED BY <1>1, <1>3, <1>4, CoverQuiet

LEMMA CoverReview ==
  ASSUME P!TypeOK, P!TypeOK', WatchTypes', CoverInv,
         UNCHANGED <<objects, watch, informers>>,
         NEW id \in Identity, NEW n \in Namespace, A!Review(id, n),
         Blinding(blind.flights \cup IF n \in ExistingNamespaces THEN {}
                                     ELSE Uncorrected(flights)',
                  blind.entries)
  PROVE  CoverInv'
<1>1. PICK S : S = PendingIn(informers)
  OBVIOUS
<1>2. PICK f, g : f = flights[id] /\ g = flights'[id]
  OBVIOUS
<1>3. /\ id \in DOMAIN flights /\ f.phase = "sweep" /\ n \in f.todo
      /\ f \in P!Flight /\ P!FlightShape(f)
      /\ DOMAIN flights' = DOMAIN flights
      /\ \A x \in DOMAIN flights : x # id => flights'[x] = flights[x]
      /\ g = [f EXCEPT !.todo = @ \ {n},
                       !.scope = IF A!CanListPods(May, id, n)
                                 THEN @ \cup {n} ELSE @]
      /\ cache' = cache
  BY <1>2 DEF A!Review, A!InPhase, A!Fly, P!TypeOK
<1>4. /\ \A x \in DOMAIN cache' \ blind'.entries : x \notin blind.entries
      /\ \A x \in DOMAIN flights' \ blind'.flights :
           flights'[x].phase = "sweep" => x \notin blind.flights
  BY DEF Blinding
<1>5. Synced => \A x \in DOMAIN cache' \ blind'.entries :
                  Covered(objects, S, x, cache'[x].scope)
  BY <1>1, <1>3, <1>4 DEF CoverInv, EntriesCovered
<1>6. ASSUME Synced, NEW x \in DOMAIN flights' \ blind'.flights,
             flights'[x].phase = "sweep"
      PROVE  Covered(objects, S, x, flights'[x].scope)
  <2>1. x \in DOMAIN flights \ blind.flights
    BY <1>3, <1>4, <1>6
  <2>2. CASE x # id
    BY <1>1, <1>3, <1>6, <2>1, <2>2 DEF CoverInv, SweepsCovered
  <2>3. CASE x = id /\ n \notin ExistingNamespaces
    <3>1. x \notin Uncorrected(flights)'
      BY <1>6, <2>3 DEF Blinding
    <3>2. objects' = objects /\ PendingIn(informers') = S
      BY <1>1
    <3> QED BY <1>6, <3>1, <3>2, UncorrectedSweeps
  <2>4. CASE x = id /\ n \in ExistingNamespaces
    <3>1. Covered(objects, S, id, f.scope)
      BY <1>1, <1>2, <1>3, <1>6, <2>1, <2>4 DEF CoverInv, SweepsCovered
    <3>2. f.scope \in SUBSET Namespace
      BY <1>3 DEF P!Flight, P!Scope, P!FlightShape
    <3>3. objects[NamespaceObject(n)] # {}
      BY <2>4 DEF ExistingNamespaces
    <3>4. CASE A!CanListPods(May, id, n)
      <4>1. CanIn(objects, id, n)
        BY <3>4, MeansCanIn
      <4>2. Covered(objects, S, id, f.scope \cup {n})
        BY <3>1, <3>2, <3>3, <4>1, ReviewCovers
      <4>3. g.scope = f.scope \cup {n}
        BY <1>3, <3>4 DEF P!Flight
      <4> QED BY <1>2, <2>4, <4>2, <4>3
    <3>5. CASE ~A!CanListPods(May, id, n)
      <4>1. g.scope = f.scope
        BY <1>3, <3>5 DEF P!Flight
      <4> QED BY <1>2, <2>4, <3>1, <4>1
    <3> QED BY <3>4, <3>5
  <2> QED BY <2>2, <2>3, <2>4
<1> QED BY <1>1, <1>5, <1>6, CoverQuiet

(* What a sweep stores is covered if the sweep was.                        *)
LEMMA CoverStore ==
  ASSUME P!TypeOK, CoverInv, UNCHANGED <<objects, watch, informers>>,
         NEW id \in Identity, A!Store(id),
         Blinding(blind.flights \ {id},
                  IF id \in blind.flights THEN blind.entries \cup {id}
                  ELSE blind.entries \ {id})
  PROVE  CoverInv'
<1>1. PICK S : S = PendingIn(informers)
  OBVIOUS
<1>2. /\ id \in DOMAIN flights /\ flights[id].phase = "sweep"
      /\ \A x \in DOMAIN cache' :
           \/ x = id /\ cache'[x].scope = flights[id].scope
           \/ x # id /\ x \in DOMAIN cache /\ cache'[x] = cache[x]
      /\ DOMAIN flights' = DOMAIN flights
      /\ \A x \in DOMAIN flights : x # id => flights'[x] = flights[x]
      /\ flights'[id].phase = "done"
  <2>1. PICK kept \in A!MakeRoom :
          cache' = A!Put(A!Restricted(cache, kept), id,
                         [scope |-> flights[id].scope, left |-> TTL])
    BY DEF A!Store
  <2>2. kept \subseteq DOMAIN cache
    BY <2>1 DEF A!MakeRoom, A!ValidKeys
  <2>3. /\ DOMAIN cache' = kept \cup {id}
        /\ cache'[id].scope = flights[id].scope
        /\ \A x \in kept : x # id => cache'[x] = cache[x]
    BY <2>1 DEF A!Put, A!Restricted
  <2>4. /\ id \in DOMAIN flights /\ flights[id].phase = "sweep"
        /\ flights' = [flights EXCEPT ![id] =
                         [flights[id] EXCEPT !.phase = "done"]]
    BY DEF A!Store, A!InPhase, A!Fly
  <2>5. flights[id] \in P!Flight
    BY <2>4 DEF P!TypeOK
  <2>6. flights'[id].phase = "done"
    BY <2>4, <2>5 DEF P!Flight
  <2> QED BY <2>2, <2>3, <2>4, <2>6
<1>3. Synced => \A x \in DOMAIN flights' \ blind'.flights :
                  flights'[x].phase = "sweep" =>
                    Covered(objects, S, x, flights'[x].scope)
  BY <1>1, <1>2 DEF Blinding, CoverInv, SweepsCovered
<1>4. ASSUME Synced, NEW x \in DOMAIN cache' \ blind'.entries
      PROVE  Covered(objects, S, x, cache'[x].scope)
  <2>1. CASE x = id
    <3>1. id \notin blind.flights
      BY <1>4, <2>1 DEF Blinding
    <3>2. cache'[x].scope = flights[id].scope
      BY <1>2, <1>4, <2>1
    <3> QED BY <1>1, <1>2, <1>4, <2>1, <3>1, <3>2 DEF CoverInv, SweepsCovered
  <2>2. CASE x # id
    <3>1. x \notin blind.entries
      BY <1>4, <2>2 DEF Blinding
    <3>2. x \in DOMAIN cache /\ cache'[x] = cache[x]
      BY <1>2, <1>4, <2>2
    <3> QED BY <1>1, <1>4, <3>1, <3>2 DEF CoverInv, EntriesCovered
  <2> QED BY <2>1, <2>2
<1> QED BY <1>1, <1>3, <1>4, CoverQuiet

LEMMA CoverProbe ==
  ASSUME P!TypeOK, CoverInv, UNCHANGED <<objects, watch, informers>>,
         NEW id \in Identity, A!Probe(id) \/ A!List(id), KeepBlind
  PROVE  CoverInv'
<1>1. PICK f, g : f = flights[id] /\ g = flights'[id]
  OBVIOUS
<1>2. /\ id \in DOMAIN flights /\ f \in P!Flight /\ f.scope = {}
      /\ DOMAIN flights' = DOMAIN flights
      /\ \A x \in DOMAIN flights : x # id => flights'[x] = flights[x]
      /\ cache' = cache
  BY <1>1 DEF A!Probe, A!List, A!InPhase, A!Fly, P!TypeOK, P!FlightShape
<1>3. \/ /\ A!CanListPods(May, id, NamespaceAll)
         /\ g = [f EXCEPT !.phase = "sweep", !.scope = All]
      \/ g = [f EXCEPT !.phase = "list"]
      \/ g = [f EXCEPT !.phase = "sweep", !.todo = ExistingNamespaces]
  BY <1>1, <1>2 DEF A!Probe, A!List, A!Fly, P!TypeOK
<1>4. (A!CanListPods(May, id, NamespaceAll) /\ g.scope = All) \/ g.scope = {}
  BY <1>2, <1>3 DEF P!Flight
<1>5. Covered(objects, PendingIn(informers), id, g.scope)
  <2>1. CASE A!CanListPods(May, id, NamespaceAll) /\ g.scope = All
    <3>1. CanIn(objects, id, NamespaceAll)
      BY <2>1, MeansCanIn
    <3> QED BY <2>1, <3>1 DEF Covered, OvergrantsIn
  <2>2. CASE g.scope = {}
    <3>1. {} # All
      BY WatchAssumption
    <3> QED BY <2>2, <3>1 DEF Covered, OvergrantsIn
  <2> QED BY <1>4, <2>1, <2>2
<1>6. \A x \in DOMAIN flights' :
        flights'[x].phase = "sweep" =>
          \/ /\ x \in DOMAIN flights /\ flights[x].phase = "sweep"
             /\ flights'[x].scope = flights[x].scope
          \/ Covered(objects, PendingIn(informers), x, flights'[x].scope)
  BY <1>1, <1>2, <1>5
<1> QED BY <1>2, <1>6, CoverShrinks

LEMMA CoverFlight ==
  ASSUME P!TypeOK, CoverInv, UNCHANGED <<objects, watch, informers>>,
         NEW id \in Identity, A!Recheck(id) \/ A!Fail(id) \/ A!Land(id), KeepBlind
  PROVE  CoverInv'
<1>1. cache' = cache /\ id \in DOMAIN flights /\ flights[id] \in P!Flight
  BY DEF A!Recheck, A!Fail, A!Land, A!Resolving, A!InPhase, P!TypeOK
<1>2. \A x \in DOMAIN flights' : x \in DOMAIN flights
  BY DEF A!Recheck, A!Fail, A!Land, A!Fly, A!Restricted
<1>3. \A x \in DOMAIN flights' : x # id => flights'[x] = flights[x]
  BY DEF A!Recheck, A!Fail, A!Land, A!Fly, A!Restricted
<1>4. id \in DOMAIN flights' => flights'[id].phase # "sweep"
  BY <1>1 DEF A!Recheck, A!Fail, A!Land, A!Fly, A!Restricted, P!Flight
<1> QED BY <1>1, <1>2, <1>3, <1>4, CoverShrinks

LEMMA CoverCall ==
  ASSUME P!TypeOK, CoverInv, NEW k, Calling(k)
  PROVE  CoverInv'
<1>1. cache' = cache /\ KeepBlind /\ UNCHANGED <<objects, watch, informers>>
  BY DEF Calling, A!AllowedNamespaces, A!Do, A!Finish, clusterVars, watchVars
<1>2. \/ flights' = flights
      \/ \E id : flights' = A!Put(flights, id, [phase |-> "recheck", scope |-> {},
                                                todo |-> {}, left |-> TTL])
  BY DEF Calling, A!AllowedNamespaces, A!Do, A!Finish
<1>3. \A x \in DOMAIN flights' :
        flights'[x].phase = "sweep" =>
          x \in DOMAIN flights /\ flights'[x] = flights[x]
  <2>1. ASSUME NEW id, NEW f, f.phase = "recheck", flights' = A!Put(flights, id, f)
        PROVE  \A x \in DOMAIN flights' :
                 flights'[x].phase = "sweep" =>
                   x \in DOMAIN flights /\ flights'[x] = flights[x]
    <3>1. \A x \in DOMAIN flights' :
            \/ x = id /\ flights'[x] = f
            \/ x \in DOMAIN flights /\ flights'[x] = flights[x]
      BY <2>1 DEF A!Put
    <3> QED BY <2>1, <3>1
  <2> QED BY <1>2, <2>1
<1> QED BY <1>1, <1>3, CoverShrinks

LEMMA CoverTime ==
  ASSUME P!TypeOK, CoverInv, Evict \/ Tick
  PROVE  CoverInv'
<1>1. KeepBlind /\ UNCHANGED <<objects, watch, informers>>
  BY DEF Evict, Tick, clusterVars, watchVars
<1>2. \A x \in DOMAIN cache' :
        x \in DOMAIN cache /\ cache'[x].scope = cache[x].scope
  <2>1. \A x \in DOMAIN cache : cache[x] \in P!Entry
    BY DEF P!TypeOK
  <2> QED BY <2>1 DEF Evict, Tick, A!Evict, A!Tick, A!Restricted, A!ValidKeys,
                      P!Entry
<1>3. \A x \in DOMAIN flights' :
        /\ x \in DOMAIN flights /\ flights'[x].phase = flights[x].phase
        /\ flights'[x].scope = flights[x].scope
  <2>1. \A x \in DOMAIN flights : flights[x] \in P!Flight
    BY DEF P!TypeOK
  <2> QED BY <2>1 DEF Evict, Tick, A!Evict, A!Tick, P!Flight
<1> QED BY <1>1, <1>2, <1>3, CoverShrinks

(* Delivering a delta, becoming active and giving up change no entry, no   *)
(* sweep and, unless the watch goes off, nothing that is pending.          *)
LEMMA CoverControl ==
  ASSUME WatchTypes, CoverInv,
         (\E k \in Kind : Deliver(k)) \/ Activate \/ GiveUp \/ UNCHANGED vars
  PROVE  CoverInv'
<1>1. CASE GiveUp
  BY <1>1 DEF GiveUp, CoverInv, Synced
<1>2. CASE Activate
  BY <1>2 DEF Activate, CoverInv, Synced, EntriesCovered, SweepsCovered,
              clusterVars, authzVars
<1>3. CASE UNCHANGED vars
  BY <1>3 DEF vars, CoverInv, Synced, EntriesCovered, SweepsCovered,
              clusterVars, authzVars, watchVars
<1>4. CASE \E k \in Kind : Deliver(k)
  <2>1. PICK k \in DOMAIN informers : Deliver(k)
    BY <1>4 DEF Deliver
  <2>2. /\ DOMAIN informers' = DOMAIN informers
        /\ UNCHANGED <<objects, watch, cache, flights, blind>>
    BY <2>1 DEF Deliver, clusterVars, authzVars
  <2>3. \A x \in DOMAIN informers :
          informers'[x].pending = informers[x].pending
    <3>1. PICK i : i = informers[k] /\ InformerOK(k, i)
      BY DEF WatchTypes, InformersOK
    <3>2. informers' = [informers EXCEPT ![k] = [i EXCEPT !.indexed = @ + 1]]
      BY <2>1, <3>1 DEF Deliver
    <3>3. [i EXCEPT !.indexed = @ + 1].pending = i.pending
      BY <3>1 DEF InformerOK
    <3> QED BY <3>1, <3>2, <3>3
  <2>4. PendingIn(informers') = PendingIn(informers)
    BY <2>2, <2>3 DEF PendingIn
  <2> QED BY <2>2, <2>4 DEF CoverInv, Synced, EntriesCovered, SweepsCovered
<1> QED BY <1>1, <1>2, <1>3, <1>4

LEMMA CoverStep ==
  ASSUME P!TypeOK, P!TypeOK', WatchTypes, WatchTypes', CoverInv, [Next]_vars
  PROVE  CoverInv'
<1>1. CASE \E o \in Object : \E new \in Contents(o) : ChangeObject(o, new)
  BY <1>1, CoverChange
<1>2. CASE \E k \in Kind : InitialList(k) \/ Relist(k)
  BY <1>2, CoverList
<1>3. CASE \E k \in Kind : Handle(k)
  BY <1>3, CoverHandle
<1>4. CASE (\E k \in Kind : Deliver(k)) \/ Activate \/ GiveUp \/ UNCHANGED vars
  BY <1>4, CoverControl
<1>5. CASE \E id \in Identity : Sweeping(id)
  <2>1. PICK id \in Identity : Sweeping(id)
    BY <1>5
  <2>2. UNCHANGED <<objects, watch, informers>>
    BY <2>1 DEF Sweeping, clusterVars, watchVars
  <2>3. CASE (A!Probe(id) \/ A!List(id)) /\ KeepBlind
    BY <2>2, <2>3, CoverProbe
  <2>4. CASE (A!Recheck(id) \/ A!Fail(id) \/ A!Land(id)) /\ KeepBlind
    BY <2>2, <2>4, CoverFlight
  <2>5. CASE \E n \in Namespace :
               /\ A!Review(id, n)
               /\ Blinding(blind.flights \cup
                             IF n \in ExistingNamespaces THEN {}
                             ELSE Uncorrected(flights)',
                           blind.entries)
    BY <2>2, <2>5, CoverReview
  <2>6. CASE /\ A!Store(id)
             /\ Blinding(blind.flights \ {id},
                         IF id \in blind.flights THEN blind.entries \cup {id}
                         ELSE blind.entries \ {id})
    BY <2>2, <2>6, CoverStore
  <2> QED BY <2>1, <2>3, <2>4, <2>5, <2>6 DEF Sweeping
<1>6. CASE \E k \in Caller : Calling(k)
  BY <1>6, CoverCall
<1>7. CASE Evict \/ Tick
  BY <1>7, CoverTime
<1> QED BY <1>1, <1>2, <1>3, <1>4, <1>5, <1>6, <1>7 DEF Next

LEMMA CoverMeaning ==
  ASSUME P!TypeOK, WatchTypes, CoverInv
  PROVE  RevocationOnItsWay
<1> SUFFICES ASSUME watch = "active", NEW id \in DOMAIN cache \ blind.entries
             PROVE  Overgrants(id, cache[id].scope) =>
                      OnItsWay(id, cache[id].scope)
  BY DEF RevocationOnItsWay
<1>1. id \in Identity /\ cache[id].scope \in A!Scope
  BY DEF P!TypeOK, P!Entry, P!Scope, A!Scope
<1>2. Covered(objects, PendingIn(informers), id, cache[id].scope)
  BY DEF CoverInv, Synced, EntriesCovered
<1> QED BY <1>1, <1>2, CoveredMeaning DEF Meaning

(***************************************************************************)
(* With the watch active, an entry that shows what has been taken away has *)
(* an event on its way that concerns it, in any cluster, after any number  *)
(* of changes and in whatever order the informers run; the exceptions are  *)
(* the blind entries, which the code leaves to the TTL (watch.go:39-46,    *)
(* 74-159, 262-360).                                                       *)
(***************************************************************************)
THEOREM WatchCorrects == Spec => []RevocationOnItsWay
<1>1. Init => WatchTypes /\ CoverInv
  BY WatchTypesInit, CoverInit
<1>2. /\ P!RBACInv /\ P!RBACInv' /\ WatchTypes /\ CoverInv /\ [Next]_vars
      => WatchTypes' /\ CoverInv'
  <2> SUFFICES ASSUME P!RBACInv, P!RBACInv', WatchTypes, CoverInv, [Next]_vars
               PROVE  WatchTypes' /\ CoverInv'
    OBVIOUS
  <2>1. P!TypeOK /\ P!TypeOK'
    BY DEF P!RBACInv
  <2>2. WatchTypes'
    BY WatchTypesStep
  <2> QED BY <2>1, <2>2, CoverStep
<1>3. P!RBACInv /\ WatchTypes /\ CoverInv => RevocationOnItsWay
  BY CoverMeaning DEF P!RBACInv
<1> QED BY <1>1, <1>2, <1>3, WatchedAuthorizerSafe, PTL DEF Spec

==============================================================================
