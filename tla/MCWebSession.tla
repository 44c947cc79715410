---------------------------- MODULE MCWebSession ----------------------------
(* Instances of WebSession for TLC: each user can sign in once. *)
EXTENDS WebSession, TLC

CONSTANTS s1, s2, u1, u2

MCUserOf == (s1 :> u1) @@ (s2 :> u2)
=============================================================================
