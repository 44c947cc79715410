\* One authorization at a time, any stored policy and one change of it; statements
\* fail, replies are lost and the process crashes.
SPECIFICATION Spec
CONSTANTS
  uri1 = uri1  h1 = h1  g1 = g1
  NULL = NULL
  Clients = {spa}
  Users = {u1}
  Scopes = {s1}
  Redirects = {uri1}
  Verifiers = {v1}
  Challenges = {h1}
  Secrets = {secret1}
  Registered <- MCRegistered
  ClientSecret <- MCClientSecret
  RequirePkce <- MCRequirePkce
  S256 <- MCS256
  GroupsOf <- MCGroupsOf
  CodeIds = {c1}
  AccessIds = {a1}
  RefreshIds = {f1}
  Requests = {r1}
  CodeTTL = 0
  AccessTTL = 1
  RefreshTTL = 1
  MaxTime = 0
  Groups = {g1}
  Admins = {ad1}
  MaxChanges = 1
  Authorizations = {e1}
  Faults = {"failed", "lost", "crash"}
INVARIANTS
  TypeOK
  TokenTracesToPolicy
PROPERTIES
  ImplementsGrants
  CodesFollowTheirVerdict
\* The keys run out.
CHECK_DEADLOCK FALSE
