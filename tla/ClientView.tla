----------------------------- MODULE ClientView -----------------------------
(***************************************************************************)
(* What a client was shown, poll after poll: ResponseFilter with the two   *)
(* fates of a filtered response told apart.  The UI adds each response to  *)
(* the picture it has, so a property of the picture is a property of all   *)
(* the responses that were delivered on its channel.                       *)
(***************************************************************************)
EXTENDS ResponseFilter

VARIABLES
  shown,    \* <<channel, event>> that reached the client
  lost      \* channels on which a filtered response did not

viewVars == <<vars, shown, lost>>

ViewInit == FilterInit /\ shown = {} /\ lost = {}

(* ReverseProxy writes the filtered body ...                               *)
Deliver(r) ==
  /\ Finish(r)
  /\ shown' = shown \cup {<<req[r].ch, ev>> : ev \in req[r].kept}
  /\ UNCHANGED lost

(* ... or finds that the client has left.                                  *)
ClientGone(r) ==
  /\ Finish(r)
  /\ lost' = lost \cup {req[r].ch}
  /\ UNCHANGED shown

ViewNext ==
  \/ \E r \in Request : Deliver(r) \/ ClientGone(r)
  \/ (\E r \in Request : Filtering(r)) /\ UNCHANGED <<shown, lost>>
  \/ Clock /\ UNCHANGED <<shown, lost>>

ViewSpec == ViewInit /\ [][ViewNext]_viewVars

-----------------------------------------------------------------------------
(***************************************************************************)
(* README.md:68-70: "a service outside your scope is shown once something  *)
(* inside your scope links to it -- otherwise ... the edge dangles at      *)
(* nothing".  So a client that received every response and was shown a     *)
(* link was shown both its ends.                                           *)
(***************************************************************************)
NoDanglingLink ==
  \A h \in shown :
    h[2].kind = "service_link_state" /\ h[1] \notin lost =>
      \A s \in {h[2].src, h[2].dst} :
        \E n \in NS :
          <<h[1], [kind |-> "service_state", id |-> s, ns |-> n]>> \in shown

(***************************************************************************)
(* registry.go:161-167: MarkEmptyScopeNotified "records that it has been"  *)
(* told, and "never showing it is the bug this exists to fix".  So a       *)
(* marked channel's client was shown the notice or is about to be.         *)
(***************************************************************************)
MarkedIsTold ==
  \A c \in DOMAIN channels :
    channels[c].emptyScopeNotified =>
      \/ <<c, [kind |-> "no_permission"]>> \in shown
      \/ \E r \in Request : HoldsNotice(r, c)
=============================================================================
