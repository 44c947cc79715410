\* Fair checks that read two groups, any stored policy, a change meanwhile; any
\* lookup may fail, any reply be lost, and the process may crash.
SPECIFICATION FairSpec
CONSTANTS
  u1 = u1  g1 = g1  g2 = g2
  NULL = NULL
  Platforms = {p1}
  Surfaces = {"oauth2"}
  Users = {u1}
  Groups = {g1, g2}
  GroupsOf <- MCTwoGroups
  Checks = {e1}
  Admins = {ad1}
  Faults = {"unread", "lost", "crash"}
  MaxChanges = 1
INVARIANTS
  TypeOK
  VerdictHeldAtSomeInstant
  StandingDenyHonoured
PROPERTIES
  EveryCheckEnds
