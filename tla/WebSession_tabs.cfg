\* Two tabs of one browser, two users and two sign-ins; sessions expire, the token is
\* cleared, tabs are reloaded and answers are lost.
SPECIFICATION FairSpec
CONSTANTS
  NULL = NULL
  s1 = s1  s2 = s2  u1 = u1  u2 = u2
  UserOf <- MCUserOf
  Tabs = {t1, t2}
  Users = {u1, u2}
  Sessions = {s1, s2}
INVARIANTS
  TypeOK
  ShownUserIsCurrent
PROPERTIES
  SignInOpensDashboard
