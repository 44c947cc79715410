--------------------------- MODULE MCOAuthGrants ---------------------------
(* Instances of OAuthGrants for TLC: a public client that must use PKCE    *)
(* and a confidential one that need not.                                   *)
EXTENDS OAuthGrants, TLC

CONSTANTS spa, srv, u1, u2, s1, uri1, v1, h1, secret1

MCRegistered == [cl \in Clients |-> {uri1}]
MCClientSecret == [cl \in Clients |-> IF cl = srv THEN secret1 ELSE NULL]
MCRequirePkce == [cl \in Clients |-> cl = spa]
MCS256 == [v \in Verifiers |-> h1]

\* Keys, users and slots are interchangeable; clients are not.
KeySymmetry == Permutations(CodeIds) \cup Permutations(AccessIds) \cup
               Permutations(RefreshIds) \cup Permutations(Requests) \cup
               Permutations(Users)
=============================================================================
