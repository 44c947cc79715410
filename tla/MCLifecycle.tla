---------------------------- MODULE MCLifecycle ----------------------------
(* Instances of Lifecycle for TLC.  Lifetimes are scaled: at least 2, by   *)
(* default 3, at most 3 in a Duration of 16 values.                        *)
EXTENDS Lifecycle

Set(access, refresh, pem) == [access |-> access, refresh |-> refresh, pem |-> pem]

\* Nothing set; the configured key, with a refresh lifetime no Duration holds;
\* too short for either bound; a key that does not parse.
MCEnvironments == {Set(0, 0, "none"), Set(2, 4, "rsa"), Set(-1, 0, "rsa"),
                   Set(0, 1, "rsa"), Set(0, 0, "garbage")}
=============================================================================
