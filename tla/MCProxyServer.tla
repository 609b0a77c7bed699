---------------------------- MODULE MCProxyServer ----------------------------
(* Requests of nobody, or of user 1, with or without groups 5 and 6.       *)
(* Group 6 is the administrators'.                                         *)
EXTENDS ProxyServer

Headers(user, groups) == [user |-> user, email |-> NoName, groups |-> groups]

MCHeaderSet ==
  {Headers(NoName, << <<6>> >>), Headers(1, <<>>),
   Headers(1, << <<6, NoName>>, <<5>> >>)}
=============================================================================
