\* A revoked access token at userinfo.
SPECIFICATION Spec
CONSTANTS
  spa = spa  srv = srv  u1 = u1  u2 = u2  s1 = s1  uri1 = uri1  v1 = v1  h1 = h1
  secret1 = secret1
  NULL = NULL
  Scopes = {s1}
  Redirects = {uri1}
  Verifiers = {v1}
  Challenges = {h1}
  Secrets = {secret1}
  Registered <- MCRegistered
  ClientSecret <- MCClientSecret
  RequirePkce <- MCRequirePkce
  S256 <- MCS256
  Clients = {spa}
  Users = {u1}
  CodeIds = {c1}
  AccessIds = {a1, a2}
  RefreshIds = {f1, f2}
  Requests = {r1}
  Faults = {}
  CodeTTL = 1
  AccessTTL = 1
  RefreshTTL = 1
  MaxTime = 0
SYMMETRY KeySymmetry
INVARIANTS
  RevokedIsRejected
\* The clock and the keys run out: the bounded system stops.
CHECK_DEADLOCK FALSE
