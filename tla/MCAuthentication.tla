-------------------------- MODULE MCAuthentication --------------------------
(* Instances of Authentication for TLC: two accounts, each of which has    *)
(* taken the other's email as its username, so that every identifier       *)
(* matches both; accounts are interchangeable, and so are keys.            *)
EXTENDS Authentication, TLC

MCEmail == [u \in Users |-> u]
MCUsername == [u \in Users |-> CHOOSE v \in Users : v # u]

KeySymmetry == Permutations(ChallengeIds) \cup Permutations(SessionIds) \cup
               Permutations(MethodIds) \cup Permutations(Requests) \cup
               Permutations(Subjects) \cup Permutations(Users)
=============================================================================
