\* Nothing fails.
SPECIFICATION Spec
CONSTANTS
  NULL = NULL
  Users = {u1, u2}
  Email <- MCEmail
  Username <- MCUsername
  Subjects = {k1}
  ChallengeIds = {c1}
  SessionIds = {s1, s2}
  MethodIds = {m1}
  Requests = {r1, r2}
  Faults = {}
  ChallengeTTL = 1
  SessionTTL = 1
  MaxTime = 1
  MaxSecrets = 2
SYMMETRY KeySymmetry
INVARIANTS
  UnlinkedFactorIsGone
\* The clock and the keys run out: the bounded system stops.
CHECK_DEADLOCK FALSE
