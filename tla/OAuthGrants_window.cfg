\* Two handlers at once, two families; replies may be lost and the process may crash.
\* A code expires one tick before the refresh tokens do.
SPECIFICATION Spec
CONSTANTS
  spa = spa  srv = srv  u1 = u1  u2 = u2  s1 = s1  uri1 = uri1  v1 = v1  h1 = h1
  secret1 = secret1
  NULL = NULL
  Scopes = {s1}
  Redirects = {uri1}
  Verifiers = {v1}
  Challenges = {h1}
  Secrets = {secret1}
  Registered <- MCRegistered
  ClientSecret <- MCClientSecret
  RequirePkce <- MCRequirePkce
  S256 <- MCS256
  Clients = {spa, srv}
  Users = {u1, u2}
  CodeIds = {c1, c2}
  AccessIds = {a1, a2}
  RefreshIds = {f1, f2}
  Requests = {r1, r2}
  Faults = {"lost", "crash"}
  CodeTTL = 0
  AccessTTL = 1
  RefreshTTL = 1
  MaxTime = 1
SYMMETRY KeySymmetry
INVARIANTS
  TypeOK
  OwnerPreserved
  ReadWhileOpen
  MintedSourceIsClosed
  OneMintPerRequest
  AckedRevocationHolds
\* The clock and the keys run out: the bounded system stops.
CHECK_DEADLOCK FALSE
