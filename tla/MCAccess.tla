------------------------------ MODULE MCAccess ------------------------------
(* Instances of Access for TLC: a public client that must use PKCE, and a  *)
(* user in one group.                                                      *)
EXTENDS Access

CONSTANTS uri1, h1, g1

MCRegistered == [cl \in Clients |-> {uri1}]
MCClientSecret == [cl \in Clients |-> NULL]
MCRequirePkce == [cl \in Clients |-> TRUE]
MCS256 == [v \in Verifiers |-> h1]
MCGroupsOf == [u \in Users |-> <<g1>>]
=============================================================================
