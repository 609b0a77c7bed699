-------------------------- MODULE MCRBACAuthorizer --------------------------
(* Small instances of RBACAuthorizer for TLC.                              *)
EXTENDS RBACAuthorizer, TLC

NamespaceSymmetry == Permutations(Namespace) \cup Permutations(Caller)
=============================================================================
