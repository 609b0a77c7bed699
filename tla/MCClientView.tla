---------------------------- MODULE MCClientView ----------------------------
(* Small instances of ClientView for TLC.                                  *)
EXTENDS ClientView, MCResponseFilter

(* A foreign service announced in an earlier poll than the link to it.     *)
SplitMessages ==
  {Map(c1, <<Svc(s1, n1), Svc(s2, n2)>>), Map(c1, <<Link(s1, s2)>>)}
=============================================================================
