-------------------------- MODULE MCPolicyService --------------------------
(* Instances of PolicyService for TLC: one user in the groups of a list.   *)
EXTENDS PolicyService

CONSTANTS u1, g1, g2

MCTwoGroups == [u \in Users |-> <<g1, g2>>]
=============================================================================
