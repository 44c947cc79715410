\* Two groups that disagree.
SPECIFICATION Spec
CONSTANTS
  u1 = u1  g1 = g1  g2 = g2
  NULL = NULL
  Platforms = {p1}
  Surfaces = {"oauth2"}
  Users = {u1}
  Groups = {g1, g2}
  GroupsOf <- MCTwoGroups
  Checks = {e1}
  Admins = {ad1}
  Faults = {}
  MaxChanges = 0
INVARIANTS
  DocumentedPrecedence
