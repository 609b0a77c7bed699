------------------------- MODULE MCStaticAuthorizer -------------------------
(* A small instance of StaticAuthorizer for TLC: two good mappings that    *)
(* disagree on everybody, an edit that does not parse, and what a reader   *)
(* finds half way through a write.                                         *)
EXTENDS StaticAuthorizer, TLC

CONSTANTS u, e, g, n1, n2, admins, teams, typo, empty, cut

Nobody == [x \in Name |-> {}]
NoUser == [x \in Name \cup {NoName} |-> {}]

MCParsed ==
  admins :> [admins |-> {g, NoName}, groupToNS |-> Nobody,
             userToNS |-> [NoUser EXCEPT ![u] = {n1}]]
    @@ teams :> [admins |-> {e}, groupToNS |-> [Nobody EXCEPT ![g] = {n1}],
                 userToNS |-> [NoUser EXCEPT ![u] = {n2}]]
    @@ empty :> [admins |-> {}, groupToNS |-> Nobody, userToNS |-> NoUser]
    @@ typo :> ParseError
    @@ cut :> ParseError

MCTorn == [d \in Docs |-> {empty, cut}]

MCIdentities ==
  {[user |-> u, email |-> NoName, groups |-> {g}],
   [user |-> NoName, email |-> e, groups |-> {}]}
=============================================================================
