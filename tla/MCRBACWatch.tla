---------------------------- MODULE MCRBACWatch ----------------------------
(* A small cluster for RBACWatch: a Role and a ClusterRole of one name, a  *)
(* binding to each, and an identity known by its email and one group.      *)
EXTENDS RBACWatch, TLC

CONSTANTS n1, nsAll

MCIdentity == {[user |-> "", email |-> "e", groups |-> {"g"}]}

R == [kind |-> "Role", ns |-> n1, name |-> "r"]
CR == [kind |-> "ClusterRole", ns |-> nsAll, name |-> "r"]
RB == [kind |-> "RoleBinding", ns |-> n1, name |-> "b",
       ref |-> [kind |-> "Role", name |-> "r"]]
CRB == [kind |-> "ClusterRoleBinding", ns |-> nsAll, name |-> "b",
        ref |-> [kind |-> "ClusterRole", name |-> "r"]]

MCRole == {R, CR}
MCBinding == {RB, CRB}

Subject(kind, name) == [kind |-> kind, name |-> name]

MCVersions ==
  R :> {{}, {"allow"}} @@ CR :> {{"deny"}, {"allow"}}
    @@ RB :> {{}, {Subject("Group", "g")}}
    @@ CRB :> {{Subject("User", "e")}, {Subject("ServiceAccount", "e")}}

(* Everything granted, or nothing but a cluster role nobody has.           *)
MCFirstVersions ==
  {R :> {"allow"} @@ CR :> {"allow"}
     @@ RB :> {Subject("Group", "g")} @@ CRB :> {Subject("User", "e")},
   R :> {} @@ CR :> {"allow"}
     @@ RB :> {} @@ CRB :> {Subject("ServiceAccount", "e")}}

MCEarlyKinds == Kind \ {"ClusterRoleBinding"}
=============================================================================
