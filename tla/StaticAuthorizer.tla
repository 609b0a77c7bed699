-------------------------- MODULE StaticAuthorizer --------------------------
(***************************************************************************)
(* The static authorizer of internal/authz/authz.go: scopes looked up in a *)
(* mapping file that RunReloader re-reads every Interval while something   *)
(* else writes it and handlers answer from it.                             *)
(*                                                                         *)
(* A file's bytes matter only through what they are parsed to, so contents *)
(* are abstract and Parsed says what yaml.Unmarshal makes of each.  The    *)
(* hash is injective on them.  Time is relative, and waits for a reload    *)
(* that is due or under way.                                               *)
(***************************************************************************)
EXTENDS Integers

CONSTANTS
  Name,         \* users, emails and groups
  NoName,       \* "", a header that was not sent
  Namespace,
  All,          \* Scope{All: true}
  Content,      \* what the file may hold
  Absent,       \* the file cannot be read
  ParseError,
  Parsed,       \* content -> its mapping, or ParseError
  Docs,         \* the contents an administrator means
  Torn,         \* document -> what a reader may find half way through it
  Identities,   \* the callers
  Caller,       \* handler goroutines
  Interval      \* --authz-config-reload, in clock ticks

(* A key that is not in the file maps to no namespaces.                    *)
Mapping ==
  [admins: SUBSET (Name \cup {NoName}),
   groupToNS: [Name -> SUBSET Namespace],
   userToNS: [Name \cup {NoName} -> SUBSET Namespace]]

Scope == {All} \cup SUBSET Namespace

ASSUME StaticAssumption ==
  /\ NoName \notin Name
  /\ ParseError \notin Mapping
  /\ Absent \notin Content
  /\ \A scope \in SUBSET Namespace : scope # All
  /\ Parsed \in [Content -> Mapping \cup {ParseError}]
  /\ Docs \subseteq Content
  /\ Torn \in [Docs -> SUBSET Content]
  /\ Identities \subseteq [user: Name \cup {NoName}, email: Name \cup {NoName},
                           groups: SUBSET Name]
  /\ \A id \in Identities : id.user # NoName \/ id.email # NoName
  /\ Interval \in Nat \ {0}       \* 0 disables RunReloader

VARIABLES
  file,       \* what the mounted file holds
  m,          \* the mapping in force
  sum,        \* the content m was parsed from, by its hash
  reloader,   \* RunReloader's goroutine, and the bytes it has read
  reloadIn,   \* ticks until its ticker fires
  result,     \* history: the last reload's label, and the bytes it read
  stable,     \* history: ticks since the file changed, up to Interval + 1
  callers     \* where each AllowedNamespaces call is

reloadVars == <<m, sum, reloader, reloadIn, result>>
vars == <<file, stable, reloadVars, callers>>

Waiting == [pc |-> "wait"]

(* seen: history, the mappings in force at some moment of the call.        *)
CallState ==
  [pc: {"idle"}]
    \cup [pc: {"admins", "namespaces"}, id: Identities, m: Mapping,
          seen: SUBSET Mapping]
    \cup [pc: {"answered"}, id: Identities, scope: Scope,
          seen: SUBSET Mapping]

-----------------------------------------------------------------------------
(* External: the file is replaced, caught half written, or gone.           *)
WriteFile(c) ==
  /\ c # file
  /\ file' = c
  /\ stable' = 0
  /\ UNCHANGED <<reloadVars, callers>>

Edit ==
  \/ \E d \in Docs : WriteFile(d) \/ \E c \in Torn[d] : WriteFile(c)
  \/ WriteFile(Absent)

-----------------------------------------------------------------------------
(* reload: os.ReadFile ...                                                 *)
ReadFile ==
  /\ reloader = Waiting
  /\ reloadIn = 0
  /\ reloader' = [pc |-> "read", b |-> file]
  /\ UNCHANGED <<file, stable, m, sum, reloadIn, result, callers>>

(* Mutant: whatever could be read is a mapping.                            *)
OutcomeUnparsed(b) ==
  IF b = Absent THEN "error" ELSE IF b = sum THEN "unchanged" ELSE "changed"

(* ... and what the bytes are worth: nothing, nothing new, or a mapping.   *)
Outcome(b) ==
  IF b = Absent THEN "error"
  ELSE IF b = sum THEN "unchanged"
  ELSE IF Parsed[b] = ParseError THEN "error"
  ELSE "changed"

(* Mutant: the hash of the first mapping is kept.                          *)
ReloadForgettingSum ==
  /\ reloader.pc = "read"
  /\ m' = IF Outcome(reloader.b) = "changed" THEN Parsed[reloader.b] ELSE m
  /\ result' = [label |-> Outcome(reloader.b), b |-> reloader.b]
  /\ reloader' = Waiting
  /\ reloadIn' = Interval
  /\ UNCHANGED <<file, stable, sum, callers>>

(* Mutant: the hash is taken before the bytes are parsed.                  *)
ReloadSumFirst ==
  /\ reloader.pc = "read"
  /\ m' = IF Outcome(reloader.b) = "changed" THEN Parsed[reloader.b] ELSE m
  /\ sum' = IF reloader.b = Absent THEN sum ELSE reloader.b
  /\ result' = [label |-> Outcome(reloader.b), b |-> reloader.b]
  /\ reloader' = Waiting
  /\ reloadIn' = Interval
  /\ UNCHANGED <<file, stable, callers>>

(* The mapping and its hash are replaced together, under the lock.  The    *)
(* bytes a failed reload read are forgotten: the next one fails again.     *)
Reload ==
  /\ reloader.pc = "read"
  /\ LET b == reloader.b
     IN  /\ IF Outcome(b) = "changed"
            THEN /\ m' = Parsed[b]
                 /\ sum' = b
                 /\ callers' = [k \in Caller |->
                      IF callers[k].pc = "idle" THEN callers[k]
                      ELSE [callers[k] EXCEPT !.seen = @ \cup {m'}]]
            ELSE UNCHANGED <<m, sum, callers>>
         /\ result' = [label |-> Outcome(b), b |-> b]
  /\ reloader' = Waiting
  /\ reloadIn' = Interval
  /\ UNCHANGED <<file, stable>>

-----------------------------------------------------------------------------
contains(list, s) == s # NoName /\ s \in list

IsAdmin(mapping, id) ==
  \E s \in {id.user, id.email} \cup id.groups : contains(mapping.admins, s)

NamespacesOf(mapping, id) ==
  mapping.userToNS[id.user] \cup mapping.userToNS[id.email]
    \cup UNION {mapping.groupToNS[g] : g \in id.groups}

(* AllowedNamespaces copies the mapping under the lock ...                 *)
AllowedNamespaces(k, id) ==
  /\ callers[k].pc = "idle"
  /\ callers' = [callers EXCEPT ![k] =
       [pc |-> "admins", id |-> id, m |-> m, seen |-> {m}]]
  /\ UNCHANGED <<file, stable, reloadVars>>

Answer(k, scope) ==
  callers' = [callers EXCEPT ![k] =
    [pc |-> "answered", id |-> callers[k].id, scope |-> scope,
     seen |-> callers[k].seen]]

(* ... and works on the copy, without it.                                  *)
CheckAdmins(k) ==
  /\ callers[k].pc = "admins"
  /\ IF IsAdmin(callers[k].m, callers[k].id)
     THEN Answer(k, All)
     ELSE callers' = [callers EXCEPT ![k].pc = "namespaces"]
  /\ UNCHANGED <<file, stable, reloadVars>>

(* Mutant: the namespaces are read from the mapping in force by then.      *)
CollectLive(k) ==
  /\ callers[k].pc = "namespaces"
  /\ Answer(k, NamespacesOf(m, callers[k].id))
  /\ UNCHANGED <<file, stable, reloadVars>>

CollectNamespaces(k) ==
  /\ callers[k].pc = "namespaces"
  /\ Answer(k, NamespacesOf(callers[k].m, callers[k].id))
  /\ UNCHANGED <<file, stable, reloadVars>>

Return(k) ==
  /\ callers[k].pc = "answered"
  /\ callers' = [callers EXCEPT ![k] = [pc |-> "idle"]]
  /\ UNCHANGED <<file, stable, reloadVars>>

Tick ==
  /\ reloader = Waiting
  /\ reloadIn > 0
  /\ reloadIn' = reloadIn - 1
  /\ stable' = IF stable > Interval THEN stable ELSE stable + 1
  /\ UNCHANGED <<file, m, sum, reloader, result, callers>>

-----------------------------------------------------------------------------
(* NewStaticAuthorizer: a file that does not parse is fatal.               *)
Init ==
  /\ file \in {d \in Docs : Parsed[d] # ParseError}
  /\ m = Parsed[file]
  /\ sum = file
  /\ reloader = Waiting
  /\ reloadIn = Interval
  /\ result = [label |-> "changed", b |-> file]
  /\ stable = 0
  /\ callers = [k \in Caller |-> [pc |-> "idle"]]

Next ==
  \/ Edit
  \/ ReadFile \/ Reload
  \/ \E k \in Caller :
       \/ \E id \in Identities : AllowedNamespaces(k, id)
       \/ CheckAdmins(k) \/ CollectNamespaces(k) \/ Return(k)
  \/ Tick

Spec == Init /\ [][Next]_vars

-----------------------------------------------------------------------------
TypeOK ==
  /\ file \in Content \cup {Absent}
  /\ m \in Mapping
  /\ sum \in Content
  /\ reloader \in {Waiting}
                    \cup [pc: {"read"}, b: Content \cup {Absent}]
  /\ reloadIn \in 0..Interval
  /\ reloader # Waiting => reloadIn = 0
  /\ result \in [label: {"changed", "unchanged", "error"},
                 b: Content \cup {Absent}]
  /\ stable \in 0..(Interval + 1)
  /\ callers \in [Caller -> CallState]

Good(c) == c # Absent /\ Parsed[c] # ParseError

(***************************************************************************)
(* An edit that parses is in force within one reload interval of the       *)
(* moment it is there to be read, whatever came before it: failed reloads, *)
(* half-written contents, an edit that was taken back, a write between the *)
(* read and the swap (authz.go:116-139, 150-190).                          *)
(***************************************************************************)
AppliedWithinInterval ==
  Good(file) /\ m # Parsed[file] => stable + reloadIn <= Interval

(***************************************************************************)
(* The reload label and the timestamp that follows it tell the truth: when *)
(* the last reload was no error, the mapping in force is the one it read.  *)
(* A file that stays bad is reported at every reload, not once             *)
(* (authz.go:146-149, 163-176; README.md:396-413).                         *)
(***************************************************************************)
FailureIsLoud ==
  result.label # "error" => m = Parsed[result.b]

Allowed(mapping, id) ==
  IF IsAdmin(mapping, id) THEN All ELSE NamespacesOf(mapping, id)

(***************************************************************************)
(* No answer mixes two mappings: it is what one mapping, in force at some  *)
(* moment of the call, says of the caller, however many reloads fall into  *)
(* the call (authz.go:193-220).                                            *)
(***************************************************************************)
AnswersFromOneMapping ==
  \A k \in Caller :
    callers[k].pc = "answered" =>
      \E mapping \in callers[k].seen :
        callers[k].scope = Allowed(mapping, callers[k].id)

(***************************************************************************)
(* authz.go:143-146, README.md:396-399: "A half-written file must not      *)
(* become a cluster-wide lockout".  So the mapping in force is always one  *)
(* that an administrator wrote.                                            *)
(***************************************************************************)
HalfWrittenNeverInForce == m \in {Parsed[d] : d \in Docs}
=============================================================================
