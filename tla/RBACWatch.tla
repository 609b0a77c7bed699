----------------------------- MODULE RBACWatch -----------------------------
(***************************************************************************)
(* RunWatch of internal/authz/rbac/watch.go beside the authorizer whose    *)
(* cache it evicts from.                                                   *)
(*                                                                         *)
(* Cluster RBAC is here what it is made of: namespaces, roles and          *)
(* bindings.  A change to one of them reaches the proxy through the        *)
(* informer of its kind: first the indexer the listers read, later the     *)
(* handler.  Informers of different kinds are not ordered, and sweeps ask  *)
(* the API server itself, so a sweep may know more, or less, than the      *)
(* handlers.                                                               *)
(***************************************************************************)
EXTENDS Integers, Sequences, FiniteSets, SequencesExt, Functions

CONSTANTS
  Identity,       \* records [user, email, groups]
  NoName,         \* "", an absent user or email
  Namespace, NamespaceAll, All, Caller, TTL, MaxCache,   \* see RBACAuthorizer
  Role,           \* records [kind, ns, name]; a ClusterRole's ns is NamespaceAll
  Binding,        \* records [kind, ns, name, ref], ref a [kind, name]
  Versions,       \* bound: role or binding -> what it may hold
  FirstVersions,  \* bound: what roles and bindings may hold at first
  EarlyKinds,     \* bound: kinds listed, and that handled, before any call
  MaxChanges,     \* bound: changes to cluster RBAC
  MaxPending      \* bound: of them, how many the handlers may be behind

VARIABLES
  lag, cache, evictIn, flights, callers,   \* see RBACAuthorizer
  objects,     \* the cluster's objects and what they hold, {} if absent
  changes,     \* how many changes have been made to them
  watch,       \* RunWatch: "syncing", "active" (the gauge is 1) or "off"
  informers,   \* kind -> its informer, once its initial list is in
  blind        \* history: flights and entries that no event will correct

clusterVars == <<objects, changes>>
watchVars == <<watch, informers>>
authzVars == <<lag, cache, evictIn, flights, callers>>
vars == <<authzVars, clusterVars, watchVars, blind>>

Kind == {"Namespace", "Role", "ClusterRole", "RoleBinding",
         "ClusterRoleBinding"}

NamespaceObject(n) == [kind |-> "Namespace", ns |-> n]
Object == Role \cup Binding \cup {NamespaceObject(n) : n \in Namespace}

(* A binding holds its subjects, records [kind, name]; a role whether its  *)
(* rules let one list pods; a namespace its phase.                         *)
Contents(o) ==
  IF o.kind = "Namespace" THEN {{}, {"active"}, {"terminating"}}
  ELSE Versions[o]

(* pending: changes the handler has not run for, oldest first.  indexed:   *)
(* how many of them the indexer holds already.                             *)
Change == UNION {[obj: {o}, old: Contents(o) \cup {{}}, new: Contents(o)] :
                   o \in Object}
Informer == [pending: Seq(Change), indexed: Nat]

-----------------------------------------------------------------------------
(* External: the API server's RBAC authorizer, asked with                  *)
(* User: firstNonEmpty(id.User, id.Email), Groups: id.Groups.              *)
UserName(id) == IF id.user # NoName THEN id.user ELSE id.email

Names(subjects, id) ==
  \E s \in subjects :
    \/ s.kind = "User" /\ s.name = UserName(id)
    \/ s.kind = "Group" /\ s.name \in id.groups

RoleOf(b) ==
  [kind |-> b.ref.kind, name |-> b.ref.name,
   ns |-> IF b.ref.kind = "Role" THEN b.ns ELSE NamespaceAll]

ASSUME WatchAssumption ==
  /\ \A r \in Role :
       /\ r = [kind |-> r.kind, ns |-> r.ns, name |-> r.name]
       /\ \/ r.kind = "Role" /\ r.ns \in Namespace
          \/ r.kind = "ClusterRole" /\ r.ns = NamespaceAll
  /\ \A b \in Binding :
       /\ \/ b.kind = "RoleBinding" /\ b.ns \in Namespace
          \/ b.kind = "ClusterRoleBinding" /\ b.ns = NamespaceAll
       /\ b.ref = [kind |-> b.ref.kind, name |-> b.ref.name]
       /\ RoleOf(b) \in Role       \* a role that is missing holds {}
  /\ IsFiniteSet(Binding)
  /\ \A first \in FirstVersions, o \in Role \cup Binding :
       first[o] \in Versions[o]
  /\ EarlyKinds \subseteq Kind
  /\ MaxChanges \in Nat
  (* What RBACAuthorizer assumes. *)
  /\ NamespaceAll \notin Namespace
  /\ \A scope \in SUBSET Namespace : scope # All
  /\ TTL \in Nat \ {0} /\ MaxCache \in Nat \ {0}
  /\ IsFiniteSet(Identity)

May == [id \in Identity |->
          {b.ns : b \in {b \in Binding : /\ Names(objects[b], id)
                                         /\ objects[RoleOf(b)] = {"allow"}}}]

ExistingNamespaces == {n \in Namespace : objects[NamespaceObject(n)] # {}}

A == INSTANCE RBACAuthorizer WITH may <- May, namespaces <- ExistingNamespaces

-----------------------------------------------------------------------------
(* invalidateSubjects: whose entries these subjects evict.                 *)
Matched(subjects) ==
  LET users == {s.name : s \in {s \in subjects : s.kind = "User"}}
      groups == {s.name : s \in {s \in subjects : s.kind = "Group"}}
  IN  {id \in DOMAIN cache :
         UserName(id) \in users \/ id.groups \cap groups # {}}

Unindexed(i) == SubSeq(i.pending, i.indexed + 1, Len(i.pending))

(* What the lister holds of a binding: what it held before the first       *)
(* change the indexer has not seen.                                        *)
Listed(b) ==
  IF b.kind \notin DOMAIN informers THEN {}
  ELSE LET tail == Unindexed(informers[b.kind])
           first == SelectInSeq(tail, LAMBDA c : c.obj = b)
       IN  IF first = 0 THEN objects[b] ELSE tail[first].old

(* Mutant: a role is known by its name alone.                              *)
BoundByName(r) ==
  UNION {Listed(b) : b \in {b \in Binding :
           /\ b.ref.name = r.name
           /\ r.kind = "Role" => b.ns = r.ns}}

(* onRoleChanged, onClusterRoleChanged: the subjects bound to a role.      *)
Bound(r) ==
  UNION {Listed(b) : b \in {b \in Binding :
           /\ b.ref = [kind |-> r.kind, name |-> r.name]
           /\ r.kind = "Role" => b.ns = r.ns}}

(* Mutant: an updated binding evicts those it names now.                   *)
EvictedNow(c) ==
  CASE c.obj \in Binding -> Matched(IF c.new = {} THEN c.old ELSE c.new)
    [] c.obj \in Role /\ c.old # {} -> Matched(Bound(c.obj))
    [] c.obj.kind = "Namespace" /\ c.new = {} ->
         {id \in DOMAIN cache : /\ cache[id].scope # All
                                /\ c.obj.ns \in cache[id].scope}
    [] OTHER -> {}

(* The handlers RunWatch registers.  Roles and namespaces have no AddFunc, *)
(* namespaces no UpdateFunc.                                               *)
Evicted(c) ==
  CASE c.obj \in Binding -> Matched(c.old \cup c.new)
    [] c.obj \in Role /\ c.old # {} -> Matched(Bound(c.obj))
    [] c.obj.kind = "Namespace" /\ c.new = {} ->
         {id \in DOMAIN cache : /\ cache[id].scope # All
                                /\ c.obj.ns \in cache[id].scope}
    [] OTHER -> {}

-----------------------------------------------------------------------------
(* History.  *)

(* A binding names this identity, or a change to it that is not handled    *)
(* yet says that it did.                                                   *)
NamedBy(b, id) ==
  \/ Names(objects[b], id)
  \/ /\ b.kind \in DOMAIN informers
     /\ \E c \in Range(informers[b.kind].pending) :
          c.obj = b /\ Names(c.old \cup c.new, id)

(* A change may have taken from this identity something the scope shows.   *)
Concerns(c, id, scope) ==
  CASE c.obj \in Binding -> Names(c.old \cup c.new, id)
    [] c.obj \in Role ->
         c.old # {} /\ \E b \in Binding : RoleOf(b) = c.obj /\ NamedBy(b, id)
    [] OTHER -> c.new = {} /\ scope # All /\ c.obj.ns \in scope

OnItsWay(id, scope) ==
  \E k \in DOMAIN informers :
    \E c \in Range(informers[k].pending) : Concerns(c, id, scope)

(* A scope shows what is no longer allowed, or no longer there.            *)
Overgrants(id, scope) ==
  IF scope = All THEN ~A!CanListPods(May, id, NamespaceAll)
  ELSE \E n \in scope :
         n \notin ExistingNamespaces \/ ~A!CanListPods(May, id, n)

Uncorrected(f) ==
  {id \in DOMAIN f : /\ Overgrants(id, f[id].scope)
                     /\ ~OnItsWay(id, f[id].scope)}

(* Entries are blind as long as they stay, flights until they have stored. *)
Blinding(someFlights, someEntries) ==
  blind' = [flights |-> someFlights \cap
              {id \in DOMAIN flights' :
                 flights'[id].phase \in {"probe", "list", "sweep"}},
            entries |-> someEntries \cap DOMAIN cache']

KeepBlind == Blinding(blind.flights, blind.entries)

-----------------------------------------------------------------------------
(* External: what the API server accepts.  A namespace terminates: nothing *)
(* more is created in it, what it holds is deleted, and then it is.        *)
Terminating(n) ==
  n # NamespaceAll /\ objects[NamespaceObject(n)] = {"terminating"}

Accepted(o, new) ==
  IF o.kind = "Namespace"
  THEN \/ objects[o] = {} /\ new = {"active"}
       \/ objects[o] = {"active"} /\ new = {"terminating"}
       \/ /\ objects[o] = {"terminating"} /\ new = {}
          /\ \A p \in Role \cup Binding : p.ns = o.ns => objects[p] = {}
  ELSE new # {} /\ o.ns # NamespaceAll =>
         objects[NamespaceObject(o.ns)] = {"active"}

Backlog == FoldFunction(LAMBDA i, n : Len(i.pending) + n, 0, informers)

(* Only an administrator's changes count against the bound, not the        *)
(* clearing of a namespace.                                                *)
ChangeObject(o, new) ==
  /\ new # objects[o] /\ Accepted(o, new)
  /\ changes' = IF Terminating(o.ns) THEN changes ELSE changes + 1
  /\ changes' <= MaxChanges
  /\ Backlog < MaxPending
  /\ objects' = [objects EXCEPT ![o] = new]
  /\ lag' = A!Relag(May', ExistingNamespaces')
  /\ informers' =
       IF o.kind \in DOMAIN informers /\ watch # "off"
       THEN [informers EXCEPT ![o.kind].pending =
               Append(@, [obj |-> o, old |-> objects[o], new |-> new])]
       ELSE informers
  /\ UNCHANGED <<watch, cache, evictIn, flights, callers, blind>>

(* The initial list of a kind: everything in it is an Add, which only the  *)
(* bindings have a handler for.                                            *)
ListOf(k) ==
  LET adds == {[obj |-> b, old |-> {}, new |-> objects[b]] :
                 b \in {b \in Binding : b.kind = k /\ objects[b] # {}}}
  IN  [pending |-> SetToSeq(adds), indexed |-> Cardinality(adds)]

(* What was taken away before the list goes unnoticed.                     *)
InitialList(k) ==
  /\ watch = "syncing" /\ k \notin DOMAIN informers
  /\ informers' = A!Put(informers, k, ListOf(k))
  /\ UNCHANGED <<watch, clusterVars, authzVars>>
  /\ Blinding(blind.flights \cup Uncorrected(flights)',
              blind.entries \cup Uncorrected(cache)')

(* Mutant: the queue's end is not checked.                                 *)
DeliverAnyway(k) ==
  /\ watch # "off" /\ k \in DOMAIN informers
  /\ informers' = [informers EXCEPT ![k].indexed = @ + 1]
  /\ UNCHANGED <<watch, clusterVars, authzVars, blind>>

(* A delta reaches the indexer, and with it the handler's queue.           *)
Deliver(k) ==
  /\ watch # "off" /\ k \in DOMAIN informers
  /\ Unindexed(informers[k]) # <<>>
  /\ informers' = [informers EXCEPT ![k].indexed = @ + 1]
  /\ UNCHANGED <<watch, clusterVars, authzVars, blind>>

(* The watch broke and the reflector lists again: of what happened in      *)
(* between only the difference arrives, a deletion as a tombstone.         *)
Relist(k) ==
  /\ watch # "off" /\ k \in DOMAIN informers
  /\ LET i == informers[k]
         tail == Unindexed(i)
         first(o) == tail[SelectInSeq(tail, LAMBDA c : c.obj = o)]
         diffs == {[obj |-> o, old |-> first(o).old, new |-> objects[o]] :
                     o \in {c.obj : c \in Range(tail)}}
         seen == {c \in diffs : c.old # {} \/ c.new # {}}
     IN  /\ Cardinality(seen) < Len(tail)
         /\ informers' = [informers EXCEPT ![k].pending =
                            SubSeq(@, 1, i.indexed) \o SetToSeq(seen)]
  /\ UNCHANGED <<watch, clusterVars, authzVars>>
  /\ Blinding(blind.flights \cup Uncorrected(flights)',
              blind.entries \cup Uncorrected(cache)')

(* Mutant: entries are emptied instead of dropped.                         *)
HandleByEmptying(k) ==
  /\ k \in DOMAIN informers /\ informers[k].indexed > 0
  /\ informers' = [informers EXCEPT
       ![k] = [pending |-> Tail(@.pending), indexed |-> @.indexed - 1]]
  /\ cache' = [id \in DOMAIN cache |->
       IF id \in Evicted(Head(informers[k].pending))
       THEN [cache[id] EXCEPT !.scope = {}] ELSE cache[id]]
  /\ UNCHANGED <<watch, clusterVars, lag, evictIn, flights, callers, blind>>

(* The handler of the oldest change runs.  A sweep that is under way keeps *)
(* what it has and will store it after the eviction.                       *)
Handle(k) ==
  /\ k \in DOMAIN informers /\ informers[k].indexed > 0
  /\ UNCHANGED <<watch, clusterVars>>
  /\ informers' = [informers EXCEPT
       ![k] = [pending |-> Tail(@.pending), indexed |-> @.indexed - 1]]
  /\ A!Invalidate(Evicted(Head(informers[k].pending)))
  /\ Blinding(blind.flights \cup Uncorrected(flights)', blind.entries)

(* WaitForCacheSync returns.                                               *)
Activate ==
  /\ watch = "syncing" /\ DOMAIN informers = Kind
  /\ watch' = "active"
  /\ UNCHANGED <<informers, clusterVars, authzVars, blind>>

(* The timeout passes, a handler could not be registered, or the process   *)
(* is told to stop: TTL-only from here on.  The informers stop; what has   *)
(* reached the handlers' queues may still be handled.                      *)
GiveUp ==
  /\ watch # "off"
  /\ watch' = "off"
  /\ informers' = [k \in DOMAIN informers |-> [informers[k] EXCEPT
                     !.pending = SubSeq(@, 1, informers[k].indexed)]]
  /\ UNCHANGED <<clusterVars, authzVars, blind>>

-----------------------------------------------------------------------------
(* The authorizer's own steps.  A sweep lists the namespaces there are;    *)
(* one of them may be gone, and its deletion handled, when the sweep gets  *)
(* to it.                                                                  *)
Sweeping(id) ==
  /\ UNCHANGED <<clusterVars, watchVars>>
  /\ \/ A!Probe(id) /\ KeepBlind
     \/ A!List(id) /\ KeepBlind
     \/ \E n \in Namespace :
          /\ A!Review(id, n)
          /\ Blinding(blind.flights \cup IF n \in ExistingNamespaces THEN {}
                                         ELSE Uncorrected(flights)',
                      blind.entries)
     \/ A!Recheck(id) /\ KeepBlind
     \/ A!Fail(id) /\ KeepBlind
     \/ A!Land(id) /\ KeepBlind
     \/ /\ A!Store(id)
        /\ Blinding(blind.flights \ {id},
                    IF id \in blind.flights THEN blind.entries \cup {id}
                    ELSE blind.entries \ {id})

Calling(k) ==
  /\ UNCHANGED <<clusterVars, watchVars>>
  /\ (\E id \in Identity : A!AllowedNamespaces(k, id)) \/ A!Do(k) \/ A!Finish(k)
  /\ KeepBlind

Evict == UNCHANGED <<clusterVars, watchVars>> /\ A!Evict /\ KeepBlind

Tick == UNCHANGED <<clusterVars, watchVars>> /\ A!Tick /\ KeepBlind

Init ==
  /\ \E first \in FirstVersions :
       objects = [o \in Object |-> IF o.kind = "Namespace" THEN {"active"}
                                   ELSE first[o]]
  /\ changes = 0
  /\ watch = "syncing"
  /\ informers = [k \in EarlyKinds |-> [pending |-> <<>>, indexed |-> 0]]
  /\ blind = [flights |-> {}, entries |-> {}]
  /\ A!Init

Next ==
  \/ \E o \in Object : \E new \in Contents(o) : ChangeObject(o, new)
  \/ \E k \in Kind : InitialList(k) \/ Deliver(k) \/ Relist(k) \/ Handle(k)
  \/ Activate \/ GiveUp
  \/ \E id \in Identity : Sweeping(id)
  \/ \E k \in Caller : Calling(k)
  \/ Evict
  \/ Tick

Spec == Init /\ [][Next]_vars

-----------------------------------------------------------------------------
TypeOK ==
  /\ \A o \in Object : objects[o] \in Contents(o)
  /\ changes \in 0..MaxChanges
  /\ watch \in {"syncing", "active", "off"}
  /\ DOMAIN informers \subseteq Kind
  /\ \A k \in DOMAIN informers :
       /\ \A c \in Range(informers[k].pending) :
            c \in Change /\ c.obj.kind = k
       /\ informers[k].indexed \in 0..Len(informers[k].pending)
  /\ blind.flights \subseteq DOMAIN flights
  /\ blind.entries \subseteq DOMAIN cache

(***************************************************************************)
(* With the watch active, an entry that shows what has been taken away has *)
(* an event on its way that concerns it, whatever order the informers run  *)
(* in.  The exceptions are the ones the code leaves to the TTL: a sweep    *)
(* that straddles the event, and changes nobody saw (a relist gap, or      *)
(* before the initial list) (watch.go:39-46, 74-159, 262-360).             *)
(***************************************************************************)
RevocationOnItsWay ==
  watch = "active" =>
    \A id \in DOMAIN cache \ blind.entries :
      Overgrants(id, cache[id].scope) => OnItsWay(id, cache[id].scope)

(***************************************************************************)
(* An event evicts nobody it does not concern: not the namesake of another *)
(* kind, not the holder of a role of the same name elsewhere               *)
(* (watch.go:256-345; rbac_test.go:491, 727).                              *)
(***************************************************************************)
UnconcernedStayCached ==
  [][\A k \in DOMAIN informers :
       Handle(k) =>
         \A id \in DOMAIN cache \ DOMAIN cache' :
           Concerns(Head(informers[k].pending), id, cache[id].scope)]_vars

(***************************************************************************)
(* Beside the watch the authorizer is still the authorizer: what RBAC      *)
(* objects, informers and evictions do to it are steps of RBACAuthorizer,  *)
(* so its guarantees, the two-TTL bound among them, hold of the whole.     *)
(***************************************************************************)
ImplementsAuthorizer == A!Spec
=============================================================================
