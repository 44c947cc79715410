\* Two accounts, two handlers at once; replies may be lost and the process may crash.
SPECIFICATION Spec
CONSTANTS
  NULL = NULL
  Users = {u1, u2}
  Email <- MCEmail
  Username <- MCUsername
  Subjects = {k1}
  ChallengeIds = {c1}
  SessionIds = {s1, s2}
  MethodIds = {m1}
  Requests = {r1, r2}
  Faults = {"lost", "crash"}
  ChallengeTTL = 1
  SessionTTL = 1
  MaxTime = 1
  MaxSecrets = 2
SYMMETRY KeySymmetry
INVARIANTS
  TypeOK
  SessionAnswersOpenChallenge
  AnsweredChallengeIsSpent
  SecondFactorAsked
  PasswordOwnerSignsIn
  ShownSecretStands
  ListedMethodIsBacked
\* The clock and the keys run out: the bounded system stops.
CHECK_DEADLOCK FALSE
