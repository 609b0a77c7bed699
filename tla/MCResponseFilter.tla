-------------------------- MODULE MCResponseFilter --------------------------
(* Small instances of ResponseFilter for TLC: services in two namespaces   *)
(* and in none, the responses that tell them apart, a grant that comes and *)
(* goes.                                                                   *)
EXTENDS ResponseFilter, TLC

CONSTANTS c1, c2, s1, s2, w, n1, n2

Svc(s, n) == [kind |-> "service_state", id |-> s, ns |-> n]
Link(s, t) == [kind |-> "service_link_state", src |-> s, dst |-> t]
Map(c, events) ==
  [route |-> "service-map-stream", ch |-> c, events |-> events]
Control(c, event) ==
  [route |-> "control-stream", ch |-> c, events |-> <<event>>]
Picker == [kind |-> "namespaces", names |-> {n1, n2}]
Status == [kind |-> "notification"]

ShrinkingScopes == {{n1}, {}}

(* Links before the services they name and links with an end that is not   *)
(* announced, while another client's channel competes for the one place in *)
(* the registry.                                                           *)
PeerMessages ==
  {Map(c1, <<Link(s1, s2), Svc(s1, n1), Svc(s2, n2)>>),
   Map(c1, <<Link(s1, s2), Svc(s1, n1)>>),
   Map(c2, <<Svc(s2, n2)>>)}

(* Every kind of event on both routes.  s1 talks to a foreign service and  *)
(* to the world; s2 is announced on the channel that competes for the      *)
(* registry's one place.  Two pickers for one channel, one for none, and a *)
(* route of a later backend.                                               *)
EveryKindMessages ==
  {Map(c1, <<Link(s1, s2), Link(w, s1), Svc(s1, n1), Svc(w, NoNS)>>),
   Map(c1, <<[kind |-> "flow", src |-> n1, dst |-> n2],
             [kind |-> "flows", flows |-> {<<n1, n2>>, <<NoNS, n1>>}],
             [kind |-> "namespace_state", ns |-> n2],
             Status, [kind |-> "unknown"]>>),
   Map(c2, <<Svc(s2, n2)>>),
   Control(c1, Picker), Control(NoChannel, Picker), Control(c1, Status),
   Map(c1, <<>>),
   [route |-> "other", ch |-> c1, events |-> <<[kind |-> "unknown"]>>]}

(* Restricted, empty and unrestricted; a mapping may name the empty        *)
(* namespace.                                                              *)
EveryKindScopes == {{n1, NoNS}, {}, All}

(* The picker under both kinds of scope.                                   *)
ControlMessages == {Control(c1, Picker), Control(c1, Status)}

ControlScopes == {{n1}, {}}

RequestSymmetry == Permutations(Request)
=============================================================================
