----------------------- MODULE StaticAuthorizerProofs -----------------------
(***************************************************************************)
(* Proofs about StaticAuthorizer, for every mapping file, every way it may *)
(* be torn, every caller and every interval: an edit is in force within    *)
(* one reload interval, a reload that failed says so, no answer mixes two  *)
(* mappings.                                                               *)
(***************************************************************************)
EXTENDS StaticAuthorizer, TLAPS

(* The mapping in force is the one its hash stands for.                    *)
SumMatches == Good(sum) /\ m = Parsed[sum]

(* The bytes a reload holds are the file's, unless it has just changed.    *)
ReadCurrent == reloader # Waiting => reloader.b = file \/ stable = 0

(* A call works on one mapping that was in force during it.                *)
CallsOnOneMapping ==
  \A k \in Caller :
    callers[k].pc \in {"admins", "namespaces"} =>
      /\ callers[k].m \in callers[k].seen
      /\ callers[k].pc = "namespaces" => ~IsAdmin(callers[k].m, callers[k].id)

StaticInv ==
  /\ TypeOK
  /\ SumMatches
  /\ ReadCurrent
  /\ AppliedWithinInterval
  /\ FailureIsLoud
  /\ CallsOnOneMapping
  /\ AnswersFromOneMapping

-----------------------------------------------------------------------------
(* What the mapping says of a caller is a scope.                           *)
LEMMA NamespacesOfType ==
  ASSUME NEW mapping \in Mapping, NEW id \in Identities
  PROVE  NamespacesOf(mapping, id) \in SUBSET Namespace
<1>1. /\ id.user \in Name \cup {NoName} /\ id.email \in Name \cup {NoName}
      /\ id.groups \in SUBSET Name
  BY StaticAssumption
<1> QED BY <1>1 DEF NamespacesOf, Mapping

LEMMA ParsedType ==
  ASSUME NEW c \in Content \cup {Absent}, Good(c)
  PROVE  c \in Content /\ Parsed[c] \in Mapping
BY StaticAssumption DEF Good

LEMMA InitEstablishes ==
  ASSUME Init
  PROVE  StaticInv
<1> USE StaticAssumption
<1>1. file \in Content /\ Good(file)
  BY DEF Init, Good
<1>2. Parsed[file] \in Mapping
  BY <1>1, ParsedType
<1>3. TypeOK
  BY <1>1, <1>2 DEF Init, TypeOK, CallState, Waiting
<1>4. SumMatches /\ ReadCurrent /\ AppliedWithinInterval /\ FailureIsLoud
  BY <1>1 DEF Init, SumMatches, ReadCurrent, AppliedWithinInterval,
              FailureIsLoud, Waiting
<1>5. CallsOnOneMapping /\ AnswersFromOneMapping
  BY DEF Init, CallsOnOneMapping, AnswersFromOneMapping
<1> QED BY <1>3, <1>4, <1>5 DEF StaticInv

-----------------------------------------------------------------------------
(* The calls keep their invariants when nothing about them changes.        *)
LEMMA CallsUntouched ==
  ASSUME CallsOnOneMapping, AnswersFromOneMapping, UNCHANGED callers
  PROVE  CallsOnOneMapping' /\ AnswersFromOneMapping'
BY DEF CallsOnOneMapping, AnswersFromOneMapping

LEMMA EditPreserves ==
  ASSUME StaticInv, NEW c \in Content \cup {Absent}, WriteFile(c)
  PROVE  StaticInv'
<1> USE StaticAssumption DEF StaticInv
<1>1. TypeOK'
  BY DEF WriteFile, TypeOK, reloadVars
<1>2. SumMatches' /\ FailureIsLoud'
  BY DEF WriteFile, reloadVars, SumMatches, FailureIsLoud, Good
<1>3. ReadCurrent'
  BY DEF WriteFile, ReadCurrent
<1>4. AppliedWithinInterval'
  <2>1. stable' = 0 /\ reloadIn' \in 0..Interval
    BY <1>1 DEF WriteFile, TypeOK
  <2>2. \A a, b \in Int : a = 0 /\ b <= Interval => a + b <= Interval
    OBVIOUS
  <2>3. stable' \in Int /\ reloadIn' \in Int /\ reloadIn' <= Interval
    BY <2>1
  <2>4. stable' + reloadIn' <= Interval
    BY ONLY <2>1, <2>2, <2>3, Zenon
  <2> QED BY ONLY <2>4 DEF AppliedWithinInterval
<1>5. CallsOnOneMapping' /\ AnswersFromOneMapping'
  BY CallsUntouched DEF WriteFile
<1> QED BY <1>1, <1>2, <1>3, <1>4, <1>5

LEMMA ReadFilePreserves ==
  ASSUME StaticInv, ReadFile
  PROVE  StaticInv'
<1> USE StaticAssumption DEF StaticInv
<1>1. reloader' = [pc |-> "read", b |-> file] /\ reloader'.b = file
  BY DEF ReadFile
<1>2. TypeOK'
  BY <1>1 DEF ReadFile, TypeOK
<1>3. SumMatches' /\ FailureIsLoud' /\ AppliedWithinInterval'
  BY DEF ReadFile, SumMatches, FailureIsLoud, AppliedWithinInterval, Good
<1>4. ReadCurrent'
  BY <1>1 DEF ReadFile, ReadCurrent
<1>5. CallsOnOneMapping' /\ AnswersFromOneMapping'
  BY CallsUntouched DEF ReadFile
<1> QED BY <1>2, <1>3, <1>4, <1>5

(* A mapping that comes into force widens what a call may answer from.     *)
LEMMA CallsSeeMore ==
  ASSUME TypeOK, CallsOnOneMapping, AnswersFromOneMapping, NEW x \in Mapping,
         callers' = [k \in Caller |->
           IF callers[k].pc = "idle" THEN callers[k]
           ELSE [callers[k] EXCEPT !.seen = @ \cup {x}]]
  PROVE  /\ callers' \in [Caller -> CallState]
         /\ CallsOnOneMapping' /\ AnswersFromOneMapping'
<1>1. ASSUME NEW k \in Caller
      PROVE  /\ callers'[k] \in CallState
             /\ callers'[k].pc = callers[k].pc
             /\ callers[k].pc # "idle" =>
                  /\ callers'[k].id = callers[k].id
                  /\ callers[k].seen \subseteq callers'[k].seen
             /\ callers[k].pc \in {"admins", "namespaces"} =>
                  callers'[k].m = callers[k].m
             /\ callers[k].pc = "answered" =>
                  callers'[k].scope = callers[k].scope
  <2>1. callers[k] \in CallState
    BY DEF TypeOK
  <2>2. CASE callers[k].pc = "idle"
    BY <2>1, <2>2
  <2>3. CASE callers[k].pc \in {"admins", "namespaces"}
    <3>1. callers[k] \in [pc: {"admins", "namespaces"}, id: Identities,
                          m: Mapping, seen: SUBSET Mapping]
      BY <2>1, <2>3 DEF CallState
    <3>2. callers'[k] = [callers[k] EXCEPT !.seen = @ \cup {x}]
      BY <2>3
    <3> QED BY <2>3, <3>1, <3>2 DEF CallState
  <2>4. CASE callers[k].pc = "answered"
    <3>1. callers[k] \in [pc: {"answered"}, id: Identities, scope: Scope,
                          seen: SUBSET Mapping]
      BY <2>1, <2>4 DEF CallState
    <3>2. callers'[k] = [callers[k] EXCEPT !.seen = @ \cup {x}]
      BY <2>4
    <3> QED BY <2>4, <3>1, <3>2 DEF CallState
  <2> QED BY <2>1, <2>2, <2>3, <2>4 DEF CallState
<1>2. callers' \in [Caller -> CallState]
  BY <1>1
<1>3. CallsOnOneMapping'
  BY <1>1 DEF CallsOnOneMapping
<1>4. AnswersFromOneMapping'
  BY <1>1 DEF AnswersFromOneMapping
<1> QED BY <1>2, <1>3, <1>4

LEMMA ReloadPreserves ==
  ASSUME StaticInv, Reload
  PROVE  StaticInv'
<1> USE StaticAssumption DEF StaticInv
<1> DEFINE b == reloader.b
<1>1. /\ reloader # Waiting
      /\ b \in Content \cup {Absent}
      /\ b = file \/ stable = 0
  BY DEF Reload, TypeOK, Waiting, ReadCurrent
<1>2. /\ result' = [label |-> Outcome(b), b |-> b]
      /\ reloader' = Waiting /\ reloadIn' = Interval
      /\ UNCHANGED <<file, stable>>
  BY DEF Reload
<1>3. result'.label = Outcome(b) /\ result'.b = b
  BY <1>2
<1>4. Outcome(b) \in {"changed", "unchanged", "error"}
  BY DEF Outcome
<1> HIDE DEF b
<1>5. CASE Outcome(b) = "changed"
  <2>1. Good(b)
    BY <1>5 DEF Outcome, Good
  <2>2. b \in Content /\ Parsed[b] \in Mapping
    BY <1>1, <2>1, ParsedType
  <2>3. /\ m' = Parsed[b] /\ sum' = b
        /\ callers' = [k \in Caller |->
             IF callers[k].pc = "idle" THEN callers[k]
             ELSE [callers[k] EXCEPT !.seen = @ \cup {Parsed[b]}]]
    BY <1>5 DEF Reload, b
  <2>4. /\ callers' \in [Caller -> CallState]
        /\ CallsOnOneMapping' /\ AnswersFromOneMapping'
    BY <2>2, <2>3, CallsSeeMore
  <2>5. TypeOK'
    BY <1>1, <1>2, <1>4, <2>2, <2>3, <2>4 DEF TypeOK
  <2>6. SumMatches' /\ FailureIsLoud'
    BY <1>3, <2>1, <2>3 DEF SumMatches, FailureIsLoud, Good
  <2>7. AppliedWithinInterval'
    BY <1>1, <1>2, <2>3, <2>5 DEF AppliedWithinInterval, TypeOK
  <2> QED BY <1>2, <2>4, <2>5, <2>6, <2>7 DEF ReadCurrent
<1>6. CASE Outcome(b) # "changed"
  <2>1. UNCHANGED <<m, sum, callers>>
    BY <1>6 DEF Reload, b
  <2>2. CallsOnOneMapping' /\ AnswersFromOneMapping'
    BY <2>1, CallsUntouched
  <2>3. TypeOK'
    BY <1>1, <1>2, <1>4, <2>1 DEF TypeOK
  <2>4. SumMatches'
    BY <2>1 DEF SumMatches, Good
  <2>5. FailureIsLoud'
    <3>1. Outcome(b) = "unchanged" => b = sum
      BY DEF Outcome
    <3> QED BY <1>3, <1>4, <1>6, <2>1, <3>1 DEF FailureIsLoud, SumMatches
  <2>6. AppliedWithinInterval'
    <3>1. b = file /\ Good(file) => m = Parsed[file]
      BY <1>6 DEF Outcome, Good, SumMatches
    <3>2. Good(file)' = Good(file)
      BY <1>2 DEF Good
    <3> QED BY <1>1, <1>2, <2>1, <3>1, <3>2 DEF AppliedWithinInterval
  <2> QED BY <1>2, <2>2, <2>3, <2>4, <2>5, <2>6 DEF ReadCurrent
<1> QED BY <1>5, <1>6

(* One call moves; the file and the reloader do not.                       *)
LEMMA CallMoves ==
  ASSUME StaticInv, NEW k \in Caller, NEW s \in CallState,
         callers' = [callers EXCEPT ![k] = s],
         UNCHANGED <<file, stable, reloadVars>>,
         s.pc \in {"admins", "namespaces"} =>
           s.m \in s.seen /\ (s.pc = "namespaces" => ~IsAdmin(s.m, s.id)),
         s.pc = "answered" =>
           \E mapping \in s.seen : s.scope = Allowed(mapping, s.id)
  PROVE  StaticInv'
<1> USE DEF StaticInv
<1>1. TypeOK'
  BY DEF TypeOK, reloadVars
<1>2. SumMatches' /\ ReadCurrent' /\ AppliedWithinInterval' /\ FailureIsLoud'
  BY DEF reloadVars, SumMatches, ReadCurrent, AppliedWithinInterval,
         FailureIsLoud, Good
<1>3. callers'[k] = s /\ \A j \in Caller : j # k => callers'[j] = callers[j]
  BY DEF TypeOK
<1>4. CallsOnOneMapping'
  BY <1>3 DEF CallsOnOneMapping
<1>5. AnswersFromOneMapping'
  BY <1>3 DEF AnswersFromOneMapping
<1> QED BY <1>1, <1>2, <1>4, <1>5

LEMMA CallPreserves ==
  ASSUME StaticInv, NEW k \in Caller
  PROVE  /\ \A id \in Identities : AllowedNamespaces(k, id) => StaticInv'
         /\ CheckAdmins(k) => StaticInv'
         /\ CollectNamespaces(k) => StaticInv'
         /\ Return(k) => StaticInv'
<1> USE DEF StaticInv
<1> DEFINE c == callers[k]
<1>1. c \in CallState
  BY DEF TypeOK
<1>2. ASSUME NEW id \in Identities, AllowedNamespaces(k, id)
      PROVE  StaticInv'
  <2> DEFINE s == [pc |-> "admins", id |-> id, m |-> m, seen |-> {m}]
  <2>1. s \in CallState
    BY DEF CallState, TypeOK
  <2>2. s.pc = "admins" /\ s.m \in s.seen
    OBVIOUS
  <2>3. callers' = [callers EXCEPT ![k] = s]
    BY <1>2 DEF AllowedNamespaces
  <2> HIDE DEF s
  <2> QED BY <1>2, <2>1, <2>2, <2>3, CallMoves DEF AllowedNamespaces
<1>3. ASSUME c.pc \in {"admins", "namespaces"}
      PROVE  /\ c \in [pc: {"admins", "namespaces"}, id: Identities,
                       m: Mapping, seen: SUBSET Mapping]
             /\ c.m \in c.seen
  BY <1>1, <1>3 DEF CallState, CallsOnOneMapping
<1>4. ASSUME NEW scope \in Scope, c.pc \in {"admins", "namespaces"},
             scope = Allowed(c.m, c.id), Answer(k, scope),
             UNCHANGED <<file, stable, reloadVars>>
      PROVE  StaticInv'
  <2> DEFINE s == [pc |-> "answered", id |-> c.id, scope |-> scope,
                   seen |-> c.seen]
  <2>1. s \in CallState
    BY <1>3, <1>4 DEF CallState
  <2>2. s.pc = "answered" /\ \E mapping \in s.seen : s.scope = Allowed(mapping, s.id)
    BY <1>3, <1>4
  <2>3. callers' = [callers EXCEPT ![k] = s]
    BY <1>4 DEF Answer
  <2> HIDE DEF s
  <2> QED BY <1>4, <2>1, <2>2, <2>3, CallMoves
<1>5. ASSUME CheckAdmins(k)
      PROVE  StaticInv'
  <2>1. c.pc = "admins"
    BY <1>5 DEF CheckAdmins
  <2>2. CASE IsAdmin(c.m, c.id)
    <3>1. All \in Scope /\ All = Allowed(c.m, c.id) /\ Answer(k, All)
      BY <1>5, <2>2 DEF CheckAdmins, Allowed, Scope
    <3> QED BY <1>4, <1>5, <2>1, <3>1 DEF CheckAdmins
  <2>3. CASE ~IsAdmin(c.m, c.id)
    <3> DEFINE s == [c EXCEPT !.pc = "namespaces"]
    <3>1. callers' = [callers EXCEPT ![k] = s]
      BY <1>5, <2>3 DEF CheckAdmins
    <3>2. /\ s \in CallState /\ s.pc = "namespaces"
          /\ s.m = c.m /\ s.id = c.id /\ s.seen = c.seen
      BY <1>3, <2>1 DEF CallState
    <3> HIDE DEF s, c
    <3> QED BY <1>3, <1>5, <2>1, <2>3, <3>1, <3>2, CallMoves DEF CheckAdmins
  <2> QED BY <2>2, <2>3
<1>6. ASSUME CollectNamespaces(k)
      PROVE  StaticInv'
  <2>1. c.pc = "namespaces" /\ Answer(k, NamespacesOf(c.m, c.id))
    BY <1>6 DEF CollectNamespaces
  <2>2. c.m \in Mapping /\ c.id \in Identities
    BY <1>3, <2>1
  <2>3. NamespacesOf(c.m, c.id) = Allowed(c.m, c.id)
    BY <2>1 DEF Allowed, CallsOnOneMapping
  <2>4. NamespacesOf(c.m, c.id) \in Scope
    BY <2>2, NamespacesOfType DEF Scope
  <2> QED BY <1>4, <1>6, <2>1, <2>3, <2>4 DEF CollectNamespaces
<1>7. ASSUME Return(k)
      PROVE  StaticInv'
  <2> DEFINE s == [pc |-> "idle"]
  <2>1. s \in CallState /\ s.pc = "idle"
    BY DEF CallState
  <2>2. callers' = [callers EXCEPT ![k] = s]
    BY <1>7 DEF Return
  <2> HIDE DEF s
  <2> QED BY <1>7, <2>1, <2>2, CallMoves DEF Return
<1> QED BY <1>2, <1>5, <1>6, <1>7

LEMMA TickPreserves ==
  ASSUME StaticInv, Tick
  PROVE  StaticInv'
<1> USE StaticAssumption DEF StaticInv
<1>1. reloadIn \in 0..Interval /\ stable \in 0..(Interval + 1)
  BY DEF TypeOK
<1>2. /\ reloadIn > 0 /\ reloadIn' = reloadIn - 1
      /\ stable' = IF stable > Interval THEN stable ELSE stable + 1
      /\ reloader = Waiting
      /\ UNCHANGED <<file, m, sum, reloader, result, callers>>
  BY DEF Tick
<1>3. reloadIn' \in 0..Interval /\ stable' \in 0..(Interval + 1)
  BY <1>1, <1>2
<1>4. TypeOK'
  BY <1>2, <1>3 DEF TypeOK
<1>5. SumMatches' /\ FailureIsLoud' /\ ReadCurrent'
  BY <1>2 DEF SumMatches, FailureIsLoud, ReadCurrent, Good
<1>6. AppliedWithinInterval'
  <2>1. stable' + reloadIn' <= stable + reloadIn
    BY <1>1, <1>2
  <2>2. Good(file)' = Good(file)
    BY <1>2 DEF Good
  <2> QED BY <1>1, <1>2, <1>3, <2>1, <2>2 DEF AppliedWithinInterval
<1>7. CallsOnOneMapping' /\ AnswersFromOneMapping'
  BY <1>2, CallsUntouched
<1> QED BY <1>4, <1>5, <1>6, <1>7

-----------------------------------------------------------------------------
(***************************************************************************)
(* All of it: the authorizer is well typed, its mapping is the one its     *)
(* hash stands for, an edit is in force within one interval, failed        *)
(* reloads are visible, and every call works on one mapping.               *)
(***************************************************************************)
THEOREM StaticSafe == Spec => []StaticInv
<1>1. Init => StaticInv
  BY InitEstablishes
<1>2. StaticInv /\ [Next]_vars => StaticInv'
  <2> SUFFICES ASSUME StaticInv, [Next]_vars
               PROVE  StaticInv'
    OBVIOUS
  <2>1. CASE Edit
    <3>1. PICK c \in Content \cup {Absent} : WriteFile(c)
      BY <2>1, StaticAssumption DEF Edit
    <3> QED BY <3>1, EditPreserves
  <2>2. CASE ReadFile
    BY <2>2, ReadFilePreserves
  <2>3. CASE Reload
    BY <2>3, ReloadPreserves
  <2>4. CASE \E k \in Caller :
               \/ \E id \in Identities : AllowedNamespaces(k, id)
               \/ CheckAdmins(k) \/ CollectNamespaces(k) \/ Return(k)
    BY <2>4, CallPreserves
  <2>5. CASE Tick
    BY <2>5, TickPreserves
  <2>6. CASE UNCHANGED vars
    BY <2>6, CallsUntouched
       DEF vars, reloadVars, StaticInv, TypeOK, SumMatches, ReadCurrent,
           AppliedWithinInterval, FailureIsLoud, Good
  <2> QED BY <2>1, <2>2, <2>3, <2>4, <2>5, <2>6 DEF Next
<1> QED BY <1>1, <1>2, PTL DEF Spec

(* The mapping in force, the file and every call are well typed, through   *)
(* every failed, torn or empty read.                                       *)
THEOREM StaticTyped == Spec => []TypeOK
<1>1. StaticInv => TypeOK BY DEF StaticInv
<1> QED BY <1>1, StaticSafe, PTL

(* An edit that parses is in force within one reload interval.             *)
THEOREM StaticAppliesEdits == Spec => []AppliedWithinInterval
<1>1. StaticInv => AppliedWithinInterval BY DEF StaticInv
<1> QED BY <1>1, StaticSafe, PTL

(* A reload that did not take effect is labelled an error, every time.     *)
THEOREM StaticFailsLoudly == Spec => []FailureIsLoud
<1>1. StaticInv => FailureIsLoud BY DEF StaticInv
<1> QED BY <1>1, StaticSafe, PTL

(* No answer mixes two mappings.                                           *)
THEOREM StaticAnswersFromOne == Spec => []AnswersFromOneMapping
<1>1. StaticInv => AnswersFromOneMapping BY DEF StaticInv
<1> QED BY <1>1, StaticSafe, PTL
=============================================================================
