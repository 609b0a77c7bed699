------------------------------ MODULE Identity ------------------------------
(***************************************************************************)
(* internal/identity/identity.go, and the key rbac.go caches a caller      *)
(* under.  Names are numbers, 0 for "": what matters is which are equal,   *)
(* which are empty and how they sort.                                      *)
(***************************************************************************)
EXTENDS Naturals, Sequences, SequencesExt

NoName == 0
NoIdentity == [user |-> NoName, email |-> NoName, groups |-> <<>>]

(* splitGroups: a header may be repeated, and each value is a list.  The   *)
(* empty names are left out.                                               *)
splitGroups(values) ==
  LET items == FlattenSeq(values)
      out[i \in 0..Len(items)] ==
        IF i = 0 THEN <<>>
        ELSE IF items[i] = NoName THEN out[i - 1]
        ELSE Append(out[i - 1], items[i])
  IN  out[Len(items)]

(* Headers.From.  A header that is absent reads as "".                     *)
From(h) ==
  IF h.user = NoName /\ h.email = NoName THEN NoIdentity
  ELSE [user |-> h.user, email |-> h.email, groups |-> splitGroups(h.groups)]

(* Mutant: groups are no part of the key.                                  *)
keyWithoutGroups(id) == <<id.user, id.email>>

(* slices.Sort, by what it returns.                                        *)
Sort(s) ==
  LET order == CHOOSE p \in Bijection(DOMAIN s, DOMAIN s) :
                 \A i, j \in DOMAIN s : i < j => s[p[i]] <= s[p[j]]
  IN  [i \in DOMAIN s |-> s[order[i]]]

(* cacheKey: the parts between the NULs, which no header can contain.      *)
cacheKey(id) ==
  <<id.user, id.email>> \o
    (IF id.groups = <<>> THEN <<NoName>> ELSE Sort(id.groups))

(* firstNonEmpty(id.User, id.Email): the user a review is asked about.     *)
userName(id) == IF id.user # NoName THEN id.user ELSE id.email
=============================================================================
