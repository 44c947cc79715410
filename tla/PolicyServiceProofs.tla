------------------------ MODULE PolicyServiceProofs ------------------------
(***************************************************************************)
(* Proofs about PolicyService, for any users, groups and policies, any     *)
(* number of concurrent checks and changes, and any length of run.         *)
(*                                                                         *)
(* A check keeps no copy of the rows it passed, so what it may still       *)
(* answer is a question about the tables of now: Continues.  The           *)
(* invariant relates that answer to the instants the check has lived       *)
(* through: until a row changes the two are the same, and one change can   *)
(* separate them only by touching a row already read.                      *)
(***************************************************************************)
EXTENDS PolicyService, TLAPS

USE PolicyAssumption

Overrides == [Surfaces \X Subjects \X Platforms -> Decisions \cup {NULL}]
Policies == [Surfaces \X Platforms -> PolicyRow \cup {NULL}]
Running == [pc : {"user", "group"}, surface : Surfaces, user : Users,
            platform : Platforms, groups : Seq(Groups)]

\* The override of subject x that check q consults in the table ov.
RowOf(ov, q, x) == ov[<<q.surface, x, q.platform>>]

\* What the tables decide about the request of check q, as a whole.
Decides(ov, po, q) ==
    evaluatePolicy(RowOf(ov, q, q.user),
                   [i \in DOMAIN GroupsOf[q.user] |->
                       RowOf(ov, q, GroupsOf[q.user][i])],
                   po[<<q.surface, q.platform>>], q.platform)

\* The groups q still has to look up, from its i-th on, say nothing before it.
SilentUpTo(ov, q, i) ==
    \A j \in DOMAIN q.groups : j < i => ~ Decisive(RowOf(ov, q, q.groups[j]))

\* Check q, going on with the tables as they are, answers v.
ContinuesUser(ov, q, v) ==
    /\ q.pc = "user" /\ Decisive(RowOf(ov, q, q.user))
    /\ v = UserVerdict(RowOf(ov, q, q.user))

ContinuesGroup(ov, q, v) ==
    /\ q.pc = "user" => ~ Decisive(RowOf(ov, q, q.user))
    /\ \E i \in DOMAIN q.groups :
         /\ Decisive(RowOf(ov, q, q.groups[i])) /\ SilentUpTo(ov, q, i)
         /\ v = GroupVerdict(RowOf(ov, q, q.groups[i]))

ContinuesPlatform(ov, po, q, v) ==
    /\ q.pc = "user" => ~ Decisive(RowOf(ov, q, q.user))
    /\ \A i \in DOMAIN q.groups : ~ Decisive(RowOf(ov, q, q.groups[i]))
    /\ v = PlatformVerdict(po[<<q.surface, q.platform>>], q.platform)

Continues(ov, po, q, v) ==
    \/ ContinuesUser(ov, q, v)
    \/ ContinuesGroup(ov, q, v)
    \/ ContinuesPlatform(ov, po, q, v)

\* Check q is past the first k groups of its user.
PastGroups(q, k) ==
    /\ k \in 0..Len(GroupsOf[q.user])
    /\ Len(q.groups) = Len(GroupsOf[q.user]) - k
    /\ \A i \in 1..Len(q.groups) : q.groups[i] = GroupsOf[q.user][k + i]
    /\ q.pc = "user" => k = 0

\* The rows check q has passed say nothing.
PassedSilent(ov, q, k) ==
    /\ \A i \in 1..k : ~ Decisive(RowOf(ov, q, GroupsOf[q.user][i]))
    /\ q.pc = "group" => ~ Decisive(RowOf(ov, q, q.user))

Active(e) == check[e].pc # "idle"

\* The answer of a check that is under way is still to come.
AnsweredIsIdle == \A e \in Checks : response[e] # NULL => ~ Active(e)

\* What the tables decide now is one of the decisions of the check's instants.
NowSeen ==
    \A e \in Checks : Active(e) => Decides(overrides, policies, check[e]) \in seen[e]

\* A check is past a user's override it could read only if it met an instant
\* at which the override did not deny.
DenyPending ==
    \A e \in Checks :
        check[e].pc = "group" /\ "user" \notin blind[e]
        => \E v \in seen[e] : v # Deny("user_override_deny")

\* Until a row changes, the rows a check has passed say nothing.
ReadSoFar ==
    \A e \in Checks : Active(e) /\ blind[e] = {} =>
        \E k \in Nat :
            /\ PastGroups(check[e], k)
            /\ moved[e] = 0 => PassedSilent(overrides, check[e], k)

\* What a check would still answer is a decision of one of its instants.
ContinueSeen ==
    \A e \in Checks : Active(e) /\ blind[e] = {} /\ moved[e] <= 1 =>
        \A v : Continues(overrides, policies, check[e], v) => v \in seen[e]

ReadInv == AnsweredIsIdle /\ NowSeen /\ ReadSoFar /\ ContinueSeen
DecisionInv == TypeOK /\ ReadInv /\ DenyPending
               /\ VerdictHeldAtSomeInstant /\ StandingDenyHonoured

-----------------------------------------------------------------------------
(* Verdicts.                                                               *)

\* The switch over the platform's mode always has a case, and none of them
\* names the user's override.
LEMMA PlatformVerdictType ==
  ASSUME NEW row \in PolicyRow \cup {NULL}, NEW p
  PROVE  /\ PlatformVerdict(row, p) \in Verdict
         /\ PlatformVerdict(row, p) # Deny("user_override_deny")
<1> DEFINE Others == Verdict \ {Deny("user_override_deny")}
<1>1. /\ Allow("allowed") \in Others /\ Deny("platform_allowlist_missing") \in Others
      /\ Deny("platform_denylist") \in Others /\ Deny("tenant_default_deny") \in Others
  BY DEF Verdict, Allow, Deny
<1>2. CASE row = NULL
  <2>1. PlatformVerdict(row, p) = Deny("tenant_default_deny")
    BY <1>2, Zenon DEF PlatformVerdict
  <2>2. QED BY <1>1, <2>1
<1>3. CASE row # NULL
  <2>1. row \in PolicyRow /\ row.mode \in Modes
    BY <1>3 DEF PolicyRow
  <2>2. CASE row.mode = "allow_any"
    <3>1. row.mode # "allowlist" /\ row.mode # "denylist" /\ row.mode # "other"
      BY <2>2
    <3>2. PlatformVerdict(row, p) = Allow("allowed")
      BY <1>3, <2>2, <3>1, Zenon DEF PlatformVerdict
    <3>3. QED BY <1>1, <3>2
  <2>3. CASE row.mode = "allowlist"
    <3>1. row.mode # "allow_any" /\ row.mode # "denylist" /\ row.mode # "other"
      BY <2>3
    <3>2. PlatformVerdict(row, p) = IF p \in row.entries THEN Allow("allowed")
                                    ELSE Deny("platform_allowlist_missing")
      BY <1>3, <2>3, <3>1, Zenon DEF PlatformVerdict
    <3>3. QED BY <1>1, <3>2
  <2>4. CASE row.mode = "denylist"
    <3>1. row.mode # "allow_any" /\ row.mode # "allowlist" /\ row.mode # "other"
      BY <2>4
    <3>2. PlatformVerdict(row, p) = IF p \in row.entries THEN Deny("platform_denylist")
                                    ELSE Allow("allowed")
      BY <1>3, <2>4, <3>1, Zenon DEF PlatformVerdict
    <3>3. QED BY <1>1, <3>2
  <2>5. CASE row.mode = "other"
    <3>1. row.mode # "allow_any" /\ row.mode # "allowlist" /\ row.mode # "denylist"
      BY <2>5
    <3>2. PlatformVerdict(row, p) = Deny("tenant_default_deny")
      BY <1>3, <2>5, <3>1, Zenon DEF PlatformVerdict
    <3>3. QED BY <1>1, <3>2
  <2>6. QED BY <2>1, <2>2, <2>3, <2>4, <2>5 DEF Modes
<1>4. QED BY <1>2, <1>3

\* The verdicts of an override; only the user's names the user's deny.
LEMMA OverrideVerdicts ==
  ASSUME NEW d
  PROVE  /\ UserVerdict(d) \in Verdict
         /\ GroupVerdict(d) \in Verdict
         /\ GroupVerdict(d) # Deny("user_override_deny")
  BY DEF UserVerdict, GroupVerdict, Verdict, Allow, Deny

\* The first decision of a list that is not silent is the one it finds.
LEMMA FirstDecisiveIs ==
  ASSUME NEW n \in Nat, NEW ds, DOMAIN ds = 1..n,
         NEW i \in 1..n, Decisive(ds[i]),
         \A j \in 1..n : j < i => ~ Decisive(ds[j])
  PROVE  FirstDecisive(ds) = ds[i] /\ FirstDecisive(ds) # NULL
<1> DEFINE D == {j \in DOMAIN ds : Decisive(ds[j])}
           c == CHOOSE k \in D : \A j \in D : k <= j
<1>1. i \in D /\ \A j \in D : i <= j
  OBVIOUS
<1>2. c \in D /\ \A j \in D : c <= j
  BY <1>1
<1>3. c = i
  BY <1>1, <1>2
<1>4. FirstDecisive(ds) = ds[i]
  <2>1. FirstDecisive(ds) = ds[c]
    BY <1>1 DEF FirstDecisive
  <2>2. QED BY <1>3, <2>1
<1>5. ds[i] # NULL
  BY DEF Decisive, Decisions
<1>6. QED BY <1>4, <1>5

\* A silent list decides nothing.
LEMMA FirstDecisiveNone ==
  ASSUME NEW ds, \A j \in DOMAIN ds : ~ Decisive(ds[j])
  PROVE  FirstDecisive(ds) = NULL
  BY DEF FirstDecisive

\* A decision about groups is the one of a group or none.
LEMMA DecidesType ==
  ASSUME NEW ov, NEW po \in Policies, NEW q, q.surface \in Surfaces, q.platform \in Platforms
  PROVE  /\ Decides(ov, po, q) \in Verdict
         /\ ~ Decisive(RowOf(ov, q, q.user))
            => Decides(ov, po, q) # Deny("user_override_deny")
<1>1. po[<<q.surface, q.platform>>] \in PolicyRow \cup {NULL}
  BY DEF Policies
<1>2. QED
  BY <1>1, PlatformVerdictType, OverrideVerdicts DEF Decides, evaluatePolicy

-----------------------------------------------------------------------------
(* What a check that has passed only silent rows goes on to answer is what *)
(* the tables decide as a whole.                                           *)

\* As long as the passed rows are silent, nothing but the decision of now is
\* still to come.
LEMMA ContinuesDecides ==
  ASSUME NEW ov, NEW po, NEW q \in Running, NEW k, PastGroups(q, k),
         PassedSilent(ov, q, k), NEW v, Continues(ov, po, q, v)
  PROVE  v = Decides(ov, po, q)
<1> DEFINE L == GroupsOf[q.user]
           ds == [i \in DOMAIN L |-> RowOf(ov, q, L[i])]
<1>1. /\ L \in Seq(Groups) /\ DOMAIN L = 1..Len(L) /\ Len(L) \in Nat
      /\ q.groups \in Seq(Groups) /\ DOMAIN q.groups = 1..Len(q.groups)
      /\ Len(q.groups) \in Nat /\ q.pc \in {"user", "group"}
  BY DEF Running
<1>2. /\ k \in Nat /\ k <= Len(L) /\ Len(q.groups) = Len(L) - k
      /\ \A i \in DOMAIN q.groups : q.groups[i] = L[k + i] /\ k + i \in DOMAIN L
  <2>1. k \in Nat /\ k <= Len(L) /\ Len(q.groups) = Len(L) - k
    BY <1>1 DEF PastGroups
  <2>2. \A i \in DOMAIN q.groups : q.groups[i] = L[k + i]
    BY <1>1 DEF PastGroups
  <2>3. \A i \in DOMAIN q.groups : k + i \in DOMAIN L
    BY <1>1, <2>1
  <2>4. QED BY <2>1, <2>2, <2>3
<1>3. CASE ContinuesUser(ov, q, v)
  BY <1>3 DEF ContinuesUser, Decides, evaluatePolicy
<1>4. CASE ContinuesGroup(ov, q, v)
  <2>1. ~ Decisive(RowOf(ov, q, q.user))
    BY <1>1, <1>4 DEF ContinuesGroup, PassedSilent
  <2>2. PICK i \in DOMAIN q.groups :
          /\ Decisive(RowOf(ov, q, q.groups[i])) /\ SilentUpTo(ov, q, i)
          /\ v = GroupVerdict(RowOf(ov, q, q.groups[i]))
    BY <1>4 DEF ContinuesGroup
  <2>3. k + i \in 1..Len(L) /\ L[k + i] = q.groups[i]
    BY <1>1, <1>2, <2>2
  <2>4. \A j \in 1..Len(L) : j < k + i => ~ Decisive(ds[j])
    <3> SUFFICES ASSUME NEW j \in 1..Len(L), j < k + i PROVE ~ Decisive(ds[j])
      OBVIOUS
    <3>1. CASE j <= k
      BY <1>1, <1>2, <3>1 DEF PassedSilent
    <3>2. CASE j > k
      <4>1. j - k \in DOMAIN q.groups /\ j - k < i /\ k + (j - k) = j
        BY <1>1, <1>2, <2>2, <3>2
      <4>2. q.groups[j - k] = L[j]
        BY <1>2, <4>1
      <4>3. QED BY <1>1, <2>2, <4>1, <4>2 DEF SilentUpTo
    <3>3. QED BY <1>1, <1>2, <3>1, <3>2
  <2>5. ds[k + i] = RowOf(ov, q, q.groups[i]) /\ DOMAIN ds = 1..Len(L)
    BY <1>1, <2>3
  <2>6. FirstDecisive(ds) = ds[k + i] /\ FirstDecisive(ds) # NULL
    <3>1. Decisive(ds[k + i])
      BY <2>2, <2>5
    <3> HIDE DEF ds
    <3>2. QED BY <1>1, <2>3, <2>4, <2>5, <3>1, FirstDecisiveIs
  <2>7. QED BY <2>1, <2>2, <2>5, <2>6 DEF Decides, evaluatePolicy
<1>5. CASE ContinuesPlatform(ov, po, q, v)
  <2>1. ~ Decisive(RowOf(ov, q, q.user))
    BY <1>1, <1>5 DEF ContinuesPlatform, PassedSilent
  <2>2. \A j \in DOMAIN ds : ~ Decisive(ds[j])
    <3> SUFFICES ASSUME NEW j \in 1..Len(L) PROVE ~ Decisive(ds[j])
      BY <1>1
    <3>1. CASE j <= k
      BY <1>1, <1>2, <3>1 DEF PassedSilent
    <3>2. CASE j > k
      <4>1. j - k \in DOMAIN q.groups /\ k + (j - k) = j
        BY <1>1, <1>2, <3>2
      <4>2. q.groups[j - k] = L[j]
        BY <1>2, <4>1
      <4>3. QED BY <1>1, <1>5, <4>1, <4>2 DEF ContinuesPlatform
    <3>3. QED BY <1>1, <1>2, <3>1, <3>2
  <2>3. FirstDecisive(ds) = NULL
    <3> HIDE DEF ds
    <3>1. QED BY <2>2, FirstDecisiveNone
  <2>4. QED BY <1>5, <2>1, <2>3 DEF Decides, evaluatePolicy, ContinuesPlatform
<1>6. QED BY <1>3, <1>4, <1>5 DEF Continues

\* A changed row that the check has passed leaves what is still to come alone.
LEMMA PassedRowChanges ==
  ASSUME NEW ov \in Overrides, NEW po, NEW q \in Running, NEW k, PastGroups(q, k),
         NEW key \in Surfaces \X Subjects \X Platforms, NEW d,
         PassedSilent(ov, q, k), ~ PassedSilent([ov EXCEPT ![key] = d], q, k),
         NEW v, Continues([ov EXCEPT ![key] = d], po, q, v)
  PROVE  Continues(ov, po, q, v)
<1> DEFINE L == GroupsOf[q.user]
           new == [ov EXCEPT ![key] = d]
<1>1. /\ L \in Seq(Groups) /\ DOMAIN L = 1..Len(L) /\ Len(L) \in Nat
      /\ q.groups \in Seq(Groups) /\ DOMAIN q.groups = 1..Len(q.groups)
      /\ Len(q.groups) \in Nat /\ q.pc \in {"user", "group"}
      /\ q.user \in Users
  BY DEF Running
<1>2. /\ k \in Nat /\ k <= Len(L) /\ Len(q.groups) = Len(L) - k
      /\ \A i \in DOMAIN q.groups : q.groups[i] = L[k + i] /\ k + i \in DOMAIN L
  <2>1. k \in Nat /\ k <= Len(L) /\ Len(q.groups) = Len(L) - k
    BY <1>1 DEF PastGroups
  <2>2. \A i \in DOMAIN q.groups : q.groups[i] = L[k + i]
    BY <1>1 DEF PastGroups
  <2>3. \A i \in DOMAIN q.groups : k + i \in DOMAIN L
    BY <1>1, <2>1
  <2>4. QED BY <2>1, <2>2, <2>3
<1>3. \A x : <<q.surface, x, q.platform>> # key => RowOf(new, q, x) = RowOf(ov, q, x)
  BY DEF RowOf, Overrides
<1>4. \A i \in DOMAIN q.groups : RowOf(new, q, q.groups[i]) = RowOf(ov, q, q.groups[i])
  <2> SUFFICES ASSUME NEW i \in DOMAIN q.groups
               PROVE  <<q.surface, q.groups[i], q.platform>> # key
    BY <1>3
  <2>1. k + i \in DOMAIN L /\ L[k + i] = q.groups[i] /\ L[k + i] \in Groups
    BY <1>1, <1>2
  <2>2. CASE \E j \in 1..k : Decisive(RowOf(new, q, L[j]))
    <3>1. PICK j \in 1..k : Decisive(RowOf(new, q, L[j]))
      BY <2>2
    <3>2. key = <<q.surface, L[j], q.platform>>
      BY <1>3, <3>1 DEF PassedSilent
    <3>3. j \in DOMAIN L /\ j # k + i
      BY <1>1, <1>2
    <3>4. L[j] # L[k + i]
      BY <1>1, <2>1, <3>3
    <3>5. QED BY <2>1, <3>2, <3>4
  <2>3. CASE \A j \in 1..k : ~ Decisive(RowOf(new, q, L[j]))
    <3>1. key = <<q.surface, q.user, q.platform>>
      BY <1>3, <2>3 DEF PassedSilent
    <3>2. QED BY <1>1, <2>1, <3>1
  <2>4. QED BY <2>2, <2>3
<1>5. q.pc = "user" => RowOf(new, q, q.user) = RowOf(ov, q, q.user)
  <2> SUFFICES ASSUME q.pc = "user" PROVE <<q.surface, q.user, q.platform>> # key
    BY <1>3
  <2>1. FALSE
    BY DEF PassedSilent, PastGroups
  <2>2. QED BY <2>1
<1>6. QED
  <2> HIDE DEF new
  <2>1. Continues(new, po, q, v)
    BY DEF new
  <2>2. QED
    BY <1>4, <1>5, <2>1 DEF Continues, ContinuesUser, ContinuesGroup,
       ContinuesPlatform, SilentUpTo

-----------------------------------------------------------------------------
(* Type correctness.                                                       *)

\* A check under way is no idle slot.
LEMMA IdleOrRunning ==
  ASSUME TypeOK, NEW e \in Checks
  PROVE  /\ Active(e) => check[e] \in Running
         /\ ~ Active(e) => check[e] = Idle
         /\ Idle.pc = "idle"
  BY DEF TypeOK, Running, Idle, Active

\* What the tables decide about a check is DecisionNow of its request.
LEMMA DecisionIs ==
  ASSUME NEW q
  PROVE  /\ DecisionNow(q.surface, q.user, q.platform) = Decides(overrides, policies, q)
         /\ DecisionNow(q.surface, q.user, q.platform)'
            = Decides(overrides', policies', q)
  BY DEF DecisionNow, Decides, RowOf, GetSubjectPolicyOverride, GetPlatformPolicy

\* The type invariant holds at first.
LEMMA InitType == Init => TypeOK
<1> SUFFICES ASSUME Init PROVE TypeOK
  OBVIOUS
<1>1. overrides \in Overrides /\ policies \in Policies
  BY DEF Init, Overrides, Policies
<1>2. QED BY <1>1 DEF Init, TypeOK, Overrides, Policies

\* A changed table is seen by the checks as a verdict.
LEMMA ObservedType ==
  ASSUME TypeOK, overrides' \in Overrides, policies' \in Policies, Observed
  PROVE  /\ check' = check /\ response' = response /\ blind' = blind
         /\ seen' \in [Checks -> SUBSET Verdict] /\ moved' \in [Checks -> Nat]
         /\ \A e \in Checks :
              /\ ~ Active(e) => seen'[e] = seen[e] /\ moved'[e] = moved[e]
              /\ Active(e) => seen'[e] = seen[e] \cup {Decides(overrides', policies', check[e])}
                              /\ moved'[e] = moved[e] + 1
<1>1. \A e \in Checks :
        DecisionNow(check[e].surface, check[e].user, check[e].platform)'
        = Decides(overrides', policies', check[e])
  BY DecisionIs DEF Observed, DecisionNow, Decides, RowOf, GetSubjectPolicyOverride,
     GetPlatformPolicy
<1>2. \A e \in Checks : Active(e) => Decides(overrides', policies', check[e]) \in Verdict
  BY IdleOrRunning, DecidesType DEF Running
<1>3. seen' = [e \in Checks |->
                 IF check[e].pc = "idle" THEN seen[e]
                 ELSE seen[e] \cup {Decides(overrides', policies', check[e])}]
  BY <1>1 DEF Observed
<1>4. moved' = [e \in Checks |->
                  IF check[e].pc = "idle" THEN moved[e] ELSE moved[e] + 1]
  BY DEF Observed
<1>5. seen' \in [Checks -> SUBSET Verdict]
  BY <1>2, <1>3 DEF TypeOK, Active
<1>6. moved' \in [Checks -> Nat]
  BY <1>4 DEF TypeOK
<1>7. QED BY <1>3, <1>4, <1>5, <1>6 DEF Active, Observed

\* A committed change has an audit event to write, or was reported as failed.
LEMMA CommittedType ==
  ASSUME TypeOK, NEW a \in Admins,
         NEW action \in {"platform_policy_upsert", "subject_override_upsert"},
         Committed(a, action)
  PROVE  /\ put' \in [Admins -> AuditEvent \cup {NULL}] /\ changes' \in Nat
         /\ UNCHANGED audited
<1>1. changes' \in Nat
  BY DEF Committed, TypeOK
<1>2. [action |-> action, change |-> changes'] \in AuditEvent
  BY <1>1 DEF AuditEvent
<1>3. QED BY <1>1, <1>2 DEF Committed, TypeOK

\* An upsert of either table stores a row of its type.
LEMMA PlatformType ==
  ASSUME TypeOK, NEW a \in Admins, NEW surface \in Surfaces, NEW p \in Platforms,
         NEW row \in PolicyRow, putPlatformPolicy(a, surface, p, row)
  PROVE  /\ TypeOK' /\ Observed /\ overrides' = overrides
         /\ overrides' \in Overrides /\ policies' \in Policies
<1>1. policies' \in Policies /\ overrides' = overrides /\ overrides' \in Overrides
  BY DEF putPlatformPolicy, UpsertPlatformPolicy, TypeOK, Overrides, Policies
<1>2. Committed(a, "platform_policy_upsert") /\ Observed
  BY DEF putPlatformPolicy
<1>3. QED
  BY <1>1, <1>2, CommittedType, ObservedType DEF TypeOK, Overrides, Policies

\* So does a change of an override.
LEMMA OverrideType ==
  ASSUME TypeOK, NEW a \in Admins, NEW surface \in Surfaces, NEW subject \in Subjects,
         NEW p \in Platforms, NEW decision \in Decisions,
         putOverride(a, surface, subject, p, decision)
  PROVE  /\ TypeOK' /\ Observed /\ policies' = policies
         /\ overrides' = [overrides EXCEPT ![<<surface, subject, p>>] = decision]
         /\ overrides' \in Overrides /\ policies' \in Policies
<1>1. /\ policies' \in Policies /\ policies' = policies
      /\ overrides' = [overrides EXCEPT ![<<surface, subject, p>>] = decision]
  BY DEF putOverride, UpsertSubjectPolicyOverride, TypeOK, Policies
<1>2. overrides' \in Overrides
  BY <1>1 DEF TypeOK, Overrides
<1>3. Committed(a, "subject_override_upsert") /\ Observed
  BY DEF putOverride
<1>4. QED
  BY <1>1, <1>2, <1>3, CommittedType, ObservedType DEF TypeOK, Overrides, Policies

\* A new check is a running one.
LEMMA RequireType ==
  ASSUME TypeOK, NEW e \in Checks, NEW surface \in Surfaces, NEW u \in Users,
         NEW p \in Platforms, requirePrincipal(e, surface, u, p)
  PROVE  TypeOK'
<1>1. DecisionNow(surface, u, p) \in Verdict
  <2> DEFINE q == [surface |-> surface, user |-> u, platform |-> p]
  <2>1. q.surface = surface /\ q.user = u /\ q.platform = p
    OBVIOUS
  <2>2. policies \in Policies
    BY DEF TypeOK, Policies
  <2> HIDE DEF q
  <2>3. QED BY <2>1, <2>2, DecisionIs, DecidesType
<1>2. \A list \in Seq(Groups) :
        [pc |-> "user", surface |-> surface, user |-> u, platform |-> p,
         groups |-> list] \in Running
  BY DEF Running
<1>3. GroupsOf[u] \in Seq(Groups) /\ <<>> \in Seq(Groups)
  OBVIOUS
<1>4. check' \in [Checks -> {Idle} \cup Running]
  BY <1>2, <1>3 DEF requirePrincipal, TypeOK, Running, ListUserGroups
<1>5. QED
  BY <1>1, <1>4 DEF requirePrincipal, TypeOK, Running, adminVars

\* A lookup ends the check with a verdict, or moves it on.
LEMMA CheckType ==
  ASSUME TypeOK, NEW e \in Checks, CheckStep(e)
  PROVE  TypeOK'
<1> DEFINE q == check[e]
<1>1. q \in Running /\ Active(e)
  BY IdleOrRunning DEF CheckStep, LookupUser, LookupGroup, LookupPlatform, Active
<1>2. \A v \in Verdict :
        /\ Response(q.surface, v) \in [surface : Surfaces, verdict : Verdict,
                                       reported : {w.reason : w \in Verdict}]
  <2> SUFFICES ASSUME NEW v \in Verdict
               PROVE  Response(q.surface, v).reported \in {w.reason : w \in Verdict}
    BY <1>1 DEF Response, Running
  <2>1. /\ Deny("platform_denylist") \in Verdict
        /\ Deny("platform_denylist").reason = "platform_denylist"
    BY DEF Verdict, Deny
  <2>2. QED BY <2>1 DEF Response
<1>3. \A v \in Verdict : Answer(e, v) =>
        /\ check' \in [Checks -> {Idle} \cup Running]
        /\ response' \in [Checks -> {NULL} \cup
             [surface : Surfaces, verdict : Verdict, reported : {w.reason : w \in Verdict}]]
  BY <1>2 DEF Answer, TypeOK, Running
<1>4. ASSUME NEW layer \in {"groups", "user", "group", "platform"}, Missed(e, layer)
      PROVE  blind' \in [Checks -> SUBSET {"groups", "user", "group", "platform"}]
  BY <1>4 DEF Missed, TypeOK
<1>5. /\ check' \in [Checks -> {Idle} \cup Running]
      /\ response' \in [Checks -> {NULL} \cup
           [surface : Surfaces, verdict : Verdict, reported : {w.reason : w \in Verdict}]]
      /\ blind' \in [Checks -> SUBSET {"groups", "user", "group", "platform"}]
  <2>1. CASE LookupUser(e)
    <3>1. [q EXCEPT !.pc = "group"] \in Running
      BY <1>1 DEF Running
    <3>2. check' = [check EXCEPT ![e].pc = "group"] => check' \in [Checks -> {Idle} \cup Running]
      BY <3>1 DEF TypeOK, Running
    <3>3. QED BY <2>1, <3>2, <1>3, <1>4, OverrideVerdicts DEF LookupUser, TypeOK
  <2>2. CASE LookupGroup(e)
    <3>1. Tail(q.groups) \in Seq(Groups)
      BY <1>1, <2>2 DEF Running, LookupGroup
    <3>2. [q EXCEPT !.groups = Tail(q.groups)] \in Running
      BY <1>1, <3>1 DEF Running
    <3>3. check' = [check EXCEPT ![e].groups = RestOf(@)]
          => check' \in [Checks -> {Idle} \cup Running]
      BY <3>2 DEF TypeOK, Running, RestOf
    <3>4. QED BY <2>2, <3>3, <1>3, <1>4, OverrideVerdicts DEF LookupGroup, TypeOK
  <2>3. CASE LookupPlatform(e)
    <3>1. GetPlatformPolicy(q.surface, q.platform) \in PolicyRow \cup {NULL}
      BY <1>1 DEF GetPlatformPolicy, Running, TypeOK
    <3>2. QED
      BY <2>3, <3>1, <1>3, <1>4, PlatformVerdictType DEF LookupPlatform, TypeOK
  <2>4. QED BY <2>1, <2>2, <2>3 DEF CheckStep
<1>6. UNCHANGED <<overrides, policies, changes, adminVars, seen, moved>>
  BY DEF CheckStep, LookupUser, LookupGroup, LookupPlatform
<1>7. QED BY <1>5, <1>6 DEF TypeOK, Running, adminVars

\* The endpoints of users and of groups set the overrides of all subjects.
LEMMA RouteSubjects ==
  ASSUME NEW route \in OverrideRoutes, NEW subject \in route.subjects
  PROVE  route.surface \in Surfaces /\ subject \in Subjects
  BY DEF OverrideRoutes, Subjects

\* The remaining actions store what they found, or nothing.
LEMMA NextType == TypeOK /\ [Next]_vars => TypeOK'
<1> SUFFICES ASSUME TypeOK, [Next]_vars PROVE TypeOK'
  OBVIOUS
<1>1. ASSUME NEW a \in Admins, NEW surface \in Surfaces, NEW p \in Platforms,
             NEW row \in PolicyRow, putPlatformPolicy(a, surface, p, row)
      PROVE  TypeOK'
  BY <1>1, PlatformType
<1>2. ASSUME NEW a \in Admins, NEW route \in OverrideRoutes, NEW p \in Platforms,
             NEW decision \in Decisions, NEW subject \in route.subjects,
             putOverride(a, route.surface, subject, p, decision)
      PROVE  TypeOK'
  <2>1. route.surface \in Surfaces /\ subject \in Subjects
    BY RouteSubjects
  <2>2. QED BY <1>2, <2>1, OverrideType
<1>3. ASSUME NEW a \in Admins, audit(a) PROVE TypeOK'
  BY <1>3 DEF audit, TypeOK, checkVars
<1>4. ASSUME NEW e \in Checks, NEW surface \in Surfaces, NEW u \in Users,
             NEW p \in Platforms, requirePrincipal(e, surface, u, p)
      PROVE  TypeOK'
  BY <1>4, RequireType
<1>5. ASSUME NEW e \in Checks, CheckStep(e) PROVE TypeOK'
  BY <1>5, CheckType
<1>6. CASE Crash
  <2>1. check' \in [Checks -> {Idle}] /\ put' \in [Admins -> {NULL}]
    BY <1>6 DEF Crash
  <2>2. check' \in [Checks -> {Idle} \cup Running]
    BY <2>1
  <2>3. QED BY <1>6, <2>1, <2>2 DEF Crash, TypeOK, Running
<1>7. CASE UNCHANGED vars
  BY <1>7 DEF vars, TypeOK
<1>8. QED
  BY <1>1, <1>2, <1>3, <1>4, <1>5, <1>6, <1>7 DEF Next

\* Policy rows, checks under way and answers keep their types.
THEOREM TypeCorrect == Spec => []TypeOK
  BY InitType, NextType, PTL DEF Spec

-----------------------------------------------------------------------------
(* What a step does to one check.                                          *)

\* The slot of the check keeps its values.
SlotKept(e) ==
    /\ check'[e] = check[e] /\ response'[e] = response[e] /\ blind'[e] = blind[e]
    /\ seen'[e] = seen[e] /\ moved'[e] = moved[e]

TablesKept == overrides' = overrides /\ policies' = policies

\* One row of one table is set, and the check sees it.
RowSet ==
    /\ overrides' \in Overrides /\ policies' \in Policies
    /\ \/ overrides' = overrides
       \/ /\ policies' = policies
          /\ \E key \in Surfaces \X Subjects \X Platforms, d \in Decisions :
               overrides' = [overrides EXCEPT ![key] = d]

SlotObserves(e) ==
    /\ check'[e] = check[e] /\ response'[e] = response[e] /\ blind'[e] = blind[e]
    /\ ~ Active(e) => seen'[e] = seen[e] /\ moved'[e] = moved[e]
    /\ Active(e) =>
         /\ seen'[e] = seen[e] \cup {Decides(overrides', policies', check[e])}
         /\ moved'[e] = moved[e] + 1

\* The process stops.
SlotCut(e) ==
    /\ check'[e] = Idle /\ response'[e] = response[e] /\ blind'[e] = blind[e]
    /\ seen'[e] = seen[e] /\ moved'[e] = moved[e]

\* A new check of check slot e, with the groups it was told of.
SlotStarts(e) ==
    /\ response'[e] = NULL /\ moved'[e] = 0
    /\ check'[e] \in Running /\ check'[e].pc = "user"
    /\ blind'[e] = {} => check'[e].groups = GroupsOf[check'[e].user]
    /\ seen'[e] = {Decides(overrides, policies, check'[e])}

\* The check ends with an answer that was read from a row, or after a lookup
\* of its layer failed.
SlotAnswers(e, v) ==
    /\ check'[e] = Idle /\ response'[e].verdict = v
    /\ seen'[e] = seen[e] /\ moved'[e] = moved[e]

UserAnswers(e) ==
    /\ check[e].pc = "user" /\ Decisive(RowOf(overrides, check[e], check[e].user))
    /\ SlotAnswers(e, UserVerdict(RowOf(overrides, check[e], check[e].user)))
    /\ blind'[e] = blind[e]

GroupAnswers(e) ==
    /\ check[e].pc = "group" /\ check[e].groups # <<>>
    /\ Decisive(RowOf(overrides, check[e], Head(check[e].groups)))
    /\ SlotAnswers(e, GroupVerdict(RowOf(overrides, check[e], Head(check[e].groups))))
    /\ blind'[e] = blind[e]

PlatformAnswers(e) ==
    /\ check[e].pc = "group" /\ check[e].groups = <<>>
    /\ \E v \in Verdict :
         /\ SlotAnswers(e, v)
         /\ \/ /\ blind'[e] = blind[e]
               /\ v = PlatformVerdict(policies[<<check[e].surface, check[e].platform>>],
                                      check[e].platform)
            \/ blind'[e] = blind[e] \cup {"platform"}

\* The check goes on to its next lookup, past a row that said nothing or that
\* it could not read.
SlotGoesOn(e, q) ==
    /\ check'[e] = q /\ response'[e] = response[e]
    /\ seen'[e] = seen[e] /\ moved'[e] = moved[e]

UserPasses(e) ==
    /\ check[e].pc = "user"
    /\ SlotGoesOn(e, [check[e] EXCEPT !.pc = "group"])
    /\ \/ /\ ~ Decisive(RowOf(overrides, check[e], check[e].user))
          /\ blind'[e] = blind[e]
       \/ blind'[e] = blind[e] \cup {"user"}

GroupPasses(e) ==
    /\ check[e].pc = "group" /\ check[e].groups # <<>>
    /\ SlotGoesOn(e, [check[e] EXCEPT !.groups = Tail(check[e].groups)])
    /\ \/ /\ ~ Decisive(RowOf(overrides, check[e], Head(check[e].groups)))
          /\ blind'[e] = blind[e]
       \/ blind'[e] = blind[e] \cup {"group"}

SlotLooksUp(e) ==
    UserAnswers(e) \/ GroupAnswers(e) \/ PlatformAnswers(e)
    \/ UserPasses(e) \/ GroupPasses(e)

\* The lookups of a layer, as seen from their slot.
LEMMA LooksUp ==
  ASSUME TypeOK, TypeOK', NEW e \in Checks, CheckStep(e)
  PROVE  SlotLooksUp(e) /\ TablesKept
<1> DEFINE q == check[e]
<1>1. q \in Running
  BY IdleOrRunning DEF CheckStep, LookupUser, LookupGroup, LookupPlatform, Active
<1>2. TablesKept /\ UNCHANGED <<seen, moved>>
  BY DEF TablesKept, CheckStep, LookupUser, LookupGroup, LookupPlatform
<1>3. \A v : Answer(e, v) => SlotAnswers(e, v)
  <2> SUFFICES ASSUME NEW v, Answer(e, v) PROVE SlotAnswers(e, v)
    OBVIOUS
  <2>1. response'[e] = Response(q.surface, v) /\ check'[e] = Idle
    BY DEF Answer, TypeOK
  <2>2. response'[e].verdict = v
    BY <2>1 DEF Response
  <2>3. QED BY <1>2, <2>1, <2>2 DEF SlotAnswers
<1>4. ASSUME NEW layer, Missed(e, layer)
      PROVE  blind'[e] = blind[e] \cup {layer}
  BY <1>4 DEF Missed, TypeOK
<1>5. CASE LookupUser(e)
  <2> DEFINE d == RowOf(overrides, q, q.user)
  <2>1. GetSubjectPolicyOverride(q.surface, q.user, q.platform) = d
    BY DEF GetSubjectPolicyOverride, RowOf
  <2>2. q.pc = "user"
    BY <1>5 DEF LookupUser
  <2>3. \/ Decisive(d) /\ Answer(e, UserVerdict(d)) /\ UNCHANGED blind
        \/ /\ check' = [check EXCEPT ![e].pc = "group"] /\ UNCHANGED response
           /\ (~ Decisive(d) /\ UNCHANGED blind) \/ Missed(e, "user")
    BY <1>5, <2>1 DEF LookupUser, UserDecides
  <2>4. check' = [check EXCEPT ![e].pc = "group"]
        => check'[e] = [q EXCEPT !.pc = "group"]
    BY DEF TypeOK
  <2>5. CASE Decisive(d) /\ Answer(e, UserVerdict(d)) /\ UNCHANGED blind
    BY <1>2, <1>3, <2>2, <2>5 DEF UserAnswers, SlotLooksUp
  <2>6. CASE /\ check' = [check EXCEPT ![e].pc = "group"] /\ UNCHANGED response
             /\ (~ Decisive(d) /\ UNCHANGED blind) \/ Missed(e, "user")
    <3>1. SlotGoesOn(e, [q EXCEPT !.pc = "group"])
      BY <1>2, <2>4, <2>6 DEF SlotGoesOn
    <3>2. QED BY <1>2, <1>4, <2>2, <2>6, <3>1 DEF UserPasses, SlotLooksUp
  <2>7. QED BY <2>3, <2>5, <2>6
<1>6. CASE LookupGroup(e)
  <2> DEFINE d == RowOf(overrides, q, Head(q.groups))
  <2>1. GetSubjectPolicyOverride(q.surface, Head(q.groups), q.platform) = d
    BY DEF GetSubjectPolicyOverride, RowOf
  <2>2. q.pc = "group" /\ q.groups # <<>>
    BY <1>6 DEF LookupGroup
  <2>3. \/ Decisive(d) /\ Answer(e, GroupVerdict(d)) /\ UNCHANGED blind
        \/ /\ check' = [check EXCEPT ![e].groups = RestOf(@)] /\ UNCHANGED response
           /\ (~ Decisive(d) /\ UNCHANGED blind) \/ Missed(e, "group")
    BY <1>6, <2>1 DEF LookupGroup
  <2>4. check' = [check EXCEPT ![e].groups = RestOf(@)]
        => check'[e] = [q EXCEPT !.groups = Tail(q.groups)]
    BY <1>1 DEF TypeOK, RestOf, Running
  <2>5. CASE Decisive(d) /\ Answer(e, GroupVerdict(d)) /\ UNCHANGED blind
    BY <1>2, <1>3, <2>2, <2>5 DEF GroupAnswers, SlotLooksUp
  <2>6. CASE /\ check' = [check EXCEPT ![e].groups = RestOf(@)] /\ UNCHANGED response
             /\ (~ Decisive(d) /\ UNCHANGED blind) \/ Missed(e, "group")
    <3>1. SlotGoesOn(e, [q EXCEPT !.groups = Tail(q.groups)])
      BY <1>2, <2>4, <2>6 DEF SlotGoesOn
    <3>2. QED BY <1>2, <1>4, <2>2, <2>6, <3>1 DEF GroupPasses, SlotLooksUp
  <2>7. QED BY <2>3, <2>5, <2>6
<1>7. CASE LookupPlatform(e)
  <2> DEFINE row == policies[<<q.surface, q.platform>>]
  <2>1. row \in PolicyRow \cup {NULL} /\ q.pc = "group" /\ q.groups = <<>>
    BY <1>1, <1>7 DEF TypeOK, Running, LookupPlatform
  <2>2. \/ Answer(e, PlatformVerdict(row, q.platform)) /\ UNCHANGED blind
        \/ Answer(e, PlatformVerdict(NULL, q.platform)) /\ Missed(e, "platform")
    BY <1>7 DEF LookupPlatform, GetPlatformPolicy
  <2>3. /\ PlatformVerdict(row, q.platform) \in Verdict
        /\ PlatformVerdict(NULL, q.platform) \in Verdict
    BY <2>1, PlatformVerdictType
  <2>4. PlatformAnswers(e)
    BY <1>3, <1>4, <2>1, <2>2, <2>3 DEF PlatformAnswers
  <2>5. QED BY <1>2, <2>4 DEF SlotLooksUp
<1>8. QED BY <1>5, <1>6, <1>7 DEF CheckStep

\* Any step starts check e, looks something up for it, sets a row it sees, stops
\* it, or leaves it and the tables alone.
LEMMA SlotSteps ==
  ASSUME TypeOK, TypeOK', NEW e \in Checks, [Next]_vars
  PROVE  \/ SlotKept(e) /\ TablesKept
         \/ SlotObserves(e) /\ RowSet
         \/ ~ Active(e) /\ SlotStarts(e) /\ TablesKept
         \/ SlotLooksUp(e) /\ TablesKept
         \/ SlotCut(e) /\ TablesKept
<1>1. ASSUME NEW a \in Admins, NEW surface \in Surfaces, NEW p \in Platforms,
             NEW row \in PolicyRow, putPlatformPolicy(a, surface, p, row)
      PROVE  SlotObserves(e) /\ RowSet
  BY <1>1, PlatformType, ObservedType DEF SlotObserves, RowSet
<1>2. ASSUME NEW a \in Admins, NEW route \in OverrideRoutes, NEW p \in Platforms,
             NEW decision \in Decisions, NEW subject \in route.subjects,
             putOverride(a, route.surface, subject, p, decision)
      PROVE  SlotObserves(e) /\ RowSet
  <2>1. route.surface \in Surfaces /\ subject \in Subjects
    BY RouteSubjects
  <2>2. <<route.surface, subject, p>> \in Surfaces \X Subjects \X Platforms
    BY <2>1
  <2>3. PICK surface \in Surfaces : surface = route.surface
    BY <2>1
  <2>4. putOverride(a, surface, subject, p, decision)
    BY <1>2, <2>3
  <2>5. /\ Observed /\ policies' = policies
        /\ overrides' = [overrides EXCEPT ![<<surface, subject, p>>] = decision]
        /\ overrides' \in Overrides /\ policies' \in Policies
    BY <2>1, <2>4, OverrideType
  <2>6. SlotObserves(e)
    BY <2>5, ObservedType DEF SlotObserves
  <2>7. RowSet
    BY <2>2, <2>3, <2>5 DEF RowSet
  <2>8. QED BY <2>6, <2>7
<1>3. ASSUME NEW a \in Admins, audit(a) PROVE SlotKept(e) /\ TablesKept
  BY <1>3 DEF audit, checkVars, SlotKept, TablesKept
<1>4. ASSUME NEW f \in Checks, NEW surface \in Surfaces, NEW u \in Users,
             NEW p \in Platforms, requirePrincipal(f, surface, u, p)
      PROVE  /\ TablesKept
             /\ SlotKept(e) \/ (~ Active(e) /\ SlotStarts(e))
  <2>1. TablesKept
    BY <1>4 DEF requirePrincipal, TablesKept
  <2>2. CASE f # e
    BY <1>4, <2>1, <2>2 DEF requirePrincipal, SlotKept, TypeOK
  <2>3. CASE f = e
    <3> DEFINE q == check'[e]
    <3>1. /\ q.pc = "user" /\ q.surface = surface /\ q.user = u /\ q.platform = p
          /\ blind'[e] = {} => q.groups = GroupsOf[u]
      BY <1>4, <2>3 DEF requirePrincipal, TypeOK, ListUserGroups
    <3>2. q \in Running
      BY <3>1 DEF TypeOK, Idle, Running
    <3>3. DecisionNow(q.surface, q.user, q.platform) = Decides(overrides, policies, q)
      BY DecisionIs
    <3>4. /\ response'[e] = NULL /\ moved'[e] = 0 /\ ~ Active(e)
          /\ seen'[e] = {DecisionNow(surface, u, p)}
      BY <1>4, <2>3 DEF requirePrincipal, TypeOK, Active
    <3>5. QED BY <2>1, <3>1, <3>2, <3>3, <3>4 DEF SlotStarts
  <2>4. QED BY <2>2, <2>3, <2>1
<1>5. ASSUME NEW f \in Checks, CheckStep(f)
      PROVE  TablesKept /\ (SlotKept(e) \/ SlotLooksUp(e))
  <2>1. CASE f = e
    BY <1>5, <2>1, LooksUp
  <2>2. CASE f # e
    <3>1. TablesKept
      BY <1>5, LooksUp
    <3>2. SlotKept(e)
      BY <1>5, <2>2 DEF CheckStep, LookupUser, LookupGroup, LookupPlatform, Answer,
         Missed, SlotKept, TypeOK
    <3>3. QED BY <3>1, <3>2
  <2>3. QED BY <2>1, <2>2
<1>6. CASE Crash
  BY <1>6 DEF Crash, SlotCut, TablesKept
<1>7. CASE UNCHANGED vars
  BY <1>7 DEF vars, SlotKept, TablesKept
<1>8. QED
  BY <1>1, <1>2, <1>3, <1>4, <1>5, <1>6, <1>7 DEF Next

-----------------------------------------------------------------------------
(* The answer of a check is still to come while it runs.                   *)

\* An answer ends the check, and the next one begins without an answer.
LEMMA AnsweredIsIdleStep ==
  ASSUME TypeOK, TypeOK', AnsweredIsIdle, [Next]_vars
  PROVE  AnsweredIsIdle'
<1> SUFFICES ASSUME NEW e \in Checks, response'[e] # NULL PROVE check'[e].pc = "idle"
  BY DEF AnsweredIsIdle, Active
<1>1. CASE SlotKept(e) \/ SlotObserves(e)
  BY <1>1 DEF SlotKept, SlotObserves, AnsweredIsIdle, Active
<1>2. CASE SlotStarts(e)
  BY <1>2 DEF SlotStarts
<1>3. CASE SlotCut(e) \/ \E v : SlotAnswers(e, v)
  BY <1>3, IdleOrRunning DEF SlotCut, SlotAnswers
<1>4. CASE \E q : SlotGoesOn(e, q) /\ Active(e)
  BY <1>4 DEF SlotGoesOn, AnsweredIsIdle, Active
<1>5. SlotLooksUp(e) => \/ \E v : SlotAnswers(e, v)
                        \/ \E q : SlotGoesOn(e, q) /\ Active(e)
  BY DEF SlotLooksUp, UserAnswers, GroupAnswers, PlatformAnswers, UserPasses,
     GroupPasses, Active
<1>6. QED BY <1>1, <1>2, <1>3, <1>4, <1>5, SlotSteps

-----------------------------------------------------------------------------
(* The decision of now is one of the check's instants.                     *)

\* The decision is about the request, not about how far its check has come.
LEMMA DecidesRequest ==
  ASSUME NEW ov, NEW po, NEW q, NEW r,
         q.surface = r.surface, q.user = r.user, q.platform = r.platform
  PROVE  Decides(ov, po, q) = Decides(ov, po, r)
  BY DEF Decides, RowOf

\* A check that goes on is about the same request.
LEMMA PassesOn ==
  ASSUME TypeOK, NEW e \in Checks, UserPasses(e) \/ GroupPasses(e)
  PROVE  /\ check'[e].surface = check[e].surface /\ check'[e].user = check[e].user
         /\ check'[e].platform = check[e].platform /\ check'[e].pc = "group"
         /\ check[e] \in Running
<1>1. check[e] \in Running
  BY IdleOrRunning DEF UserPasses, GroupPasses, Active
<1>2. QED
  BY <1>1 DEF UserPasses, GroupPasses, SlotGoesOn, Running

\* A row that changes is seen, and no other step changes the decision.
LEMMA NowSeenStep ==
  ASSUME TypeOK, TypeOK', NowSeen, [Next]_vars
  PROVE  NowSeen'
<1> SUFFICES ASSUME NEW e \in Checks, check'[e].pc # "idle"
             PROVE  Decides(overrides', policies', check'[e]) \in seen'[e]
  BY DEF NowSeen, Active
<1>1. CASE SlotKept(e) /\ TablesKept
  BY <1>1 DEF SlotKept, TablesKept, NowSeen, Active
<1>2. CASE SlotObserves(e)
  BY <1>2 DEF SlotObserves, NowSeen, Active
<1>3. CASE SlotStarts(e) /\ TablesKept
  BY <1>3 DEF SlotStarts, TablesKept
<1>4. CASE SlotCut(e) \/ \E v : SlotAnswers(e, v)
  BY <1>4, IdleOrRunning DEF SlotCut, SlotAnswers
<1>5. CASE TablesKept /\ (UserPasses(e) \/ GroupPasses(e))
  <2>1. Decides(overrides, policies, check'[e]) = Decides(overrides, policies, check[e])
    BY <1>5, PassesOn, DecidesRequest
  <2>2. Active(e) /\ seen'[e] = seen[e]
    BY <1>5 DEF UserPasses, GroupPasses, SlotGoesOn, Active
  <2>3. QED BY <1>5, <2>1, <2>2 DEF NowSeen, TablesKept
<1>6. SlotLooksUp(e) => (\E v : SlotAnswers(e, v)) \/ UserPasses(e) \/ GroupPasses(e)
  BY DEF SlotLooksUp, UserAnswers, GroupAnswers, PlatformAnswers
<1>7. QED BY <1>1, <1>2, <1>3, <1>4, <1>5, <1>6, SlotSteps

-----------------------------------------------------------------------------
(* What a check has read so far.                                           *)

\* A check that starts is past none of its user's groups.
LEMMA StartsAtNone ==
  ASSUME NEW e \in Checks, SlotStarts(e), blind'[e] = {}
  PROVE  PastGroups(check'[e], 0) /\ \A ov : PassedSilent(ov, check'[e], 0)
<1> PICK q \in Running : q = check'[e]
  BY DEF SlotStarts
<1>1. q.user \in Users /\ q.groups = GroupsOf[q.user] /\ q.pc = "user"
  BY DEF SlotStarts, Running
<1>2. GroupsOf[q.user] \in Seq(Groups) /\ Len(GroupsOf[q.user]) \in Nat
  BY <1>1
<1>3. PastGroups(q, 0)
  BY <1>1, <1>2 DEF PastGroups
<1>4. \A ov : PassedSilent(ov, q, 0)
  BY <1>1 DEF PassedSilent
<1>5. QED BY <1>3, <1>4

\* A check that passes a group is past one more; a row it read there is silent.
LEMMA PassesOneMore ==
  ASSUME NEW ov, NEW q \in Running, NEW k, PastGroups(q, k), q.pc = "group",
         q.groups # <<>>
  PROVE  LET r == [q EXCEPT !.groups = Tail(q.groups)] IN
         /\ PastGroups(r, k + 1)
         /\ PassedSilent(ov, q, k) /\ ~ Decisive(RowOf(ov, q, Head(q.groups)))
            => PassedSilent(ov, r, k + 1)
<1> DEFINE L == GroupsOf[q.user]
           r == [q EXCEPT !.groups = Tail(q.groups)]
<1>1. /\ L \in Seq(Groups) /\ Len(L) \in Nat /\ DOMAIN L = 1..Len(L)
      /\ q.groups \in Seq(Groups) /\ Len(q.groups) \in Nat \ {0}
  BY DEF Running
<1>2. /\ k \in Nat /\ k <= Len(L) /\ Len(q.groups) = Len(L) - k
      /\ \A i \in 1..Len(q.groups) : q.groups[i] = L[k + i]
  BY DEF PastGroups
<1>3. /\ r.user = q.user /\ r.surface = q.surface /\ r.platform = q.platform
      /\ r.pc = "group" /\ r.groups = Tail(q.groups)
  BY DEF Running
<1>4. /\ Len(Tail(q.groups)) = Len(q.groups) - 1
      /\ \A i \in 1..Len(Tail(q.groups)) : Tail(q.groups)[i] = q.groups[i + 1]
      /\ Head(q.groups) = q.groups[1]
  BY <1>1
<1>5. PastGroups(r, k + 1)
  <2>1. k + 1 \in 0..Len(L) /\ Len(r.groups) = Len(L) - (k + 1)
    BY <1>1, <1>2, <1>3, <1>4
  <2>2. \A i \in 1..Len(r.groups) : r.groups[i] = L[(k + 1) + i]
    <3> SUFFICES ASSUME NEW i \in 1..Len(r.groups) PROVE r.groups[i] = L[(k + 1) + i]
      OBVIOUS
    <3>1. i + 1 \in 1..Len(q.groups) /\ k + (i + 1) = (k + 1) + i
      <4>1. Len(r.groups) = Len(q.groups) - 1
        BY <1>3, <1>4
      <4> HIDE DEF r
      <4>2. QED BY <1>1, <1>2, <4>1
    <3>2. q.groups[i + 1] = L[k + (i + 1)]
      BY <1>2, <3>1
    <3>3. QED BY <1>3, <1>4, <3>1, <3>2
  <2>3. QED BY <1>3, <2>1, <2>2 DEF PastGroups
<1>6. ASSUME PassedSilent(ov, q, k), ~ Decisive(RowOf(ov, q, Head(q.groups)))
      PROVE  PassedSilent(ov, r, k + 1)
  <2>1. Head(q.groups) = L[k + 1]
    BY <1>1, <1>2, <1>4
  <2>2. \A x : RowOf(ov, r, x) = RowOf(ov, q, x)
    BY <1>3 DEF RowOf
  <2>3. \A i \in 1..(k + 1) : ~ Decisive(RowOf(ov, q, L[i]))
    BY <1>2, <1>6, <2>1 DEF PassedSilent
  <2>4. QED BY <1>3, <1>6, <2>2, <2>3 DEF PassedSilent
<1>7. QED BY <1>5, <1>6

\* Rows that change end the silence of what was read; lookups extend it.
LEMMA ReadSoFarStep ==
  ASSUME TypeOK, TypeOK', ReadSoFar, [Next]_vars
  PROVE  ReadSoFar'
<1> DEFINE Part(e, k) ==
             /\ PastGroups(check[e], k)
             /\ moved[e] = 0 => PassedSilent(overrides, check[e], k)
           Part2(e, k) ==
             /\ PastGroups(check'[e], k)
             /\ moved'[e] = 0 => PassedSilent(overrides', check'[e], k)
<1> SUFFICES ASSUME NEW e \in Checks, check'[e].pc # "idle", blind'[e] = {}
             PROVE  \E k \in Nat : Part2(e, k)
  BY DEF ReadSoFar, Active
<1>1. Active(e) /\ blind[e] = {} => \E k \in Nat : Part(e, k)
  BY DEF ReadSoFar
<1>2. CASE SlotKept(e) /\ TablesKept
  BY <1>1, <1>2 DEF SlotKept, TablesKept, Active
<1>3. CASE SlotObserves(e)
  <2>1. Active(e) /\ blind[e] = {} /\ check'[e] = check[e]
    BY <1>3 DEF SlotObserves, Active
  <2>2. moved'[e] = moved[e] + 1 /\ moved[e] \in Nat
    BY <1>3, <2>1 DEF SlotObserves, TypeOK
  <2>3. moved'[e] # 0
    BY <2>2
  <2>4. QED BY <1>1, <2>1, <2>3
<1>4. CASE SlotStarts(e)
  BY <1>4, StartsAtNone
<1>5. CASE SlotCut(e) \/ \E v : SlotAnswers(e, v)
  BY <1>5, IdleOrRunning DEF SlotCut, SlotAnswers
<1>6. CASE TablesKept /\ UserPasses(e)
  <2> DEFINE q == check[e]
  <2>1. /\ Active(e) /\ q \in Running /\ moved'[e] = moved[e] /\ q.pc = "user"
        /\ check'[e] = [q EXCEPT !.pc = "group"]
    BY <1>6, PassesOn DEF UserPasses, SlotGoesOn, Active
  <2>2. blind[e] = {} /\ ~ Decisive(RowOf(overrides, q, q.user))
    BY <1>6 DEF UserPasses
  <2>3. PICK k \in Nat : Part(e, k)
    BY <1>1, <2>1, <2>2
  <2>4. k = 0
    BY <2>1, <2>3 DEF PastGroups
  <2>5. /\ check'[e].pc = "group" /\ check'[e].groups = q.groups
        /\ check'[e].user = q.user /\ check'[e].surface = q.surface
        /\ check'[e].platform = q.platform
    BY <2>1 DEF Running
  <2>6. PastGroups(check'[e], 0)
    BY <2>3, <2>4, <2>5 DEF PastGroups
  <2>7. PassedSilent(overrides', check'[e], 0)
    BY <1>6, <2>2, <2>5 DEF PassedSilent, RowOf, TablesKept
  <2>8. QED BY <2>6, <2>7
<1>7. CASE TablesKept /\ GroupPasses(e)
  <2>1. PICK q \in Running : q = check[e]
    BY <1>7, PassesOn
  <2>2. /\ Active(e) /\ moved'[e] = moved[e] /\ q.pc = "group" /\ q.groups # <<>>
        /\ check'[e] = [q EXCEPT !.groups = Tail(q.groups)]
    BY <1>7, <2>1 DEF GroupPasses, SlotGoesOn, Active
  <2>3. blind[e] = {} /\ ~ Decisive(RowOf(overrides, q, Head(q.groups)))
    BY <1>7, <2>1 DEF GroupPasses
  <2>4. PICK k \in Nat : PastGroups(q, k) /\ (moved[e] = 0 => PassedSilent(overrides, q, k))
    BY <1>1, <2>1, <2>2, <2>3
  <2>5. PICK r : r = [q EXCEPT !.groups = Tail(q.groups)]
    OBVIOUS
  <2>6. PastGroups(r, k + 1) /\ (moved[e] = 0 => PassedSilent(overrides, r, k + 1))
    BY <2>2, <2>3, <2>4, <2>5, PassesOneMore
  <2>7. k + 1 \in Nat /\ r = check'[e] /\ overrides' = overrides
    BY <1>7, <2>2, <2>5 DEF TablesKept
  <2>8. QED BY <2>2, <2>6, <2>7
<1>8. SlotLooksUp(e) => (\E v : SlotAnswers(e, v)) \/ UserPasses(e) \/ GroupPasses(e)
  BY DEF SlotLooksUp, UserAnswers, GroupAnswers, PlatformAnswers
<1>9. QED BY <1>2, <1>3, <1>4, <1>5, <1>6, <1>7, <1>8, SlotSteps

-----------------------------------------------------------------------------
(* What a check would still answer was decided at an instant of it.        *)

\* After the first change: if the rows read so far are still silent, the check
\* is heading for the decision of now; if not, the change was behind it.
LEMMA FirstChange ==
  ASSUME NEW ov \in Overrides, NEW po, NEW ov2, NEW po2, NEW q \in Running, NEW k,
         PastGroups(q, k), PassedSilent(ov, q, k),
         \/ ov2 = ov
         \/ /\ po2 = po
            /\ \E key \in Surfaces \X Subjects \X Platforms, d \in Decisions :
                 ov2 = [ov EXCEPT ![key] = d],
         NEW v, Continues(ov2, po2, q, v)
  PROVE  v = Decides(ov2, po2, q) \/ Continues(ov, po, q, v)
<1>1. CASE PassedSilent(ov2, q, k)
  BY <1>1, ContinuesDecides
<1>2. CASE ~ PassedSilent(ov2, q, k)
  <2>1. PICK key \in Surfaces \X Subjects \X Platforms, d \in Decisions :
          po2 = po /\ ov2 = [ov EXCEPT ![key] = d]
    BY <1>2
  <2>2. Continues([ov EXCEPT ![key] = d], po, q, v)
    BY <2>1
  <2>3. ~ PassedSilent([ov EXCEPT ![key] = d], q, k)
    BY <1>2, <2>1
  <2>4. QED BY <2>2, <2>3, PassedRowChanges
<1>3. QED BY <1>1, <1>2

\* Past a silent row, a check answers what it would have answered before it.
LEMMA PassingContinues ==
  ASSUME NEW ov, NEW po, NEW q \in Running, NEW v,
         \/ /\ q.pc = "user" /\ ~ Decisive(RowOf(ov, q, q.user))
            /\ Continues(ov, po, [q EXCEPT !.pc = "group"], v)
         \/ /\ q.pc = "group" /\ q.groups # <<>>
            /\ ~ Decisive(RowOf(ov, q, Head(q.groups)))
            /\ Continues(ov, po, [q EXCEPT !.groups = Tail(q.groups)], v)
  PROVE  Continues(ov, po, q, v)
<1>1. CASE /\ q.pc = "user" /\ ~ Decisive(RowOf(ov, q, q.user))
           /\ Continues(ov, po, [q EXCEPT !.pc = "group"], v)
  <2>1. PICK r : r = [q EXCEPT !.pc = "group"]
    OBVIOUS
  <2>2. /\ r.surface = q.surface /\ r.user = q.user /\ r.platform = q.platform
        /\ r.groups = q.groups /\ r.pc = "group"
    BY <2>1 DEF Running
  <2>3. Continues(ov, po, r, v)
    BY <1>1, <2>1
  <2>4. \A x : RowOf(ov, r, x) = RowOf(ov, q, x)
    BY <2>2 DEF RowOf
  <2>5. QED
    BY <1>1, <2>2, <2>3, <2>4 DEF Continues, ContinuesUser, ContinuesGroup,
       ContinuesPlatform, SilentUpTo
<1>2. CASE /\ q.pc = "group" /\ q.groups # <<>>
           /\ ~ Decisive(RowOf(ov, q, Head(q.groups)))
           /\ Continues(ov, po, [q EXCEPT !.groups = Tail(q.groups)], v)
  <2>1. PICK r : r = [q EXCEPT !.groups = Tail(q.groups)]
    OBVIOUS
  <2>2. /\ r.surface = q.surface /\ r.user = q.user /\ r.platform = q.platform
        /\ r.groups = Tail(q.groups) /\ r.pc = "group"
    BY <1>2, <2>1 DEF Running
  <2>3. Continues(ov, po, r, v)
    BY <1>2, <2>1
  <2>4. \A x : RowOf(ov, r, x) = RowOf(ov, q, x)
    BY <2>2 DEF RowOf
  <2>5. /\ q.groups \in Seq(Groups) /\ Len(q.groups) \in Nat \ {0}
        /\ DOMAIN q.groups = 1..Len(q.groups)
        /\ DOMAIN r.groups = 1..(Len(q.groups) - 1)
        /\ \A i \in DOMAIN r.groups : r.groups[i] = q.groups[i + 1]
        /\ Head(q.groups) = q.groups[1]
    BY <1>2, <2>2 DEF Running
  <2>6. CASE ContinuesGroup(ov, r, v)
    <3>1. PICK i \in DOMAIN r.groups :
            /\ Decisive(RowOf(ov, q, r.groups[i]))
            /\ \A j \in DOMAIN r.groups : j < i => ~ Decisive(RowOf(ov, q, r.groups[j]))
            /\ v = GroupVerdict(RowOf(ov, q, r.groups[i]))
      BY <2>4, <2>6 DEF ContinuesGroup, SilentUpTo
    <3>2. i + 1 \in DOMAIN q.groups /\ r.groups[i] = q.groups[i + 1]
      BY <2>5
    <3>3. ASSUME NEW j \in DOMAIN q.groups, j < i + 1
          PROVE  ~ Decisive(RowOf(ov, q, q.groups[j]))
      <4>1. CASE j = 1
        BY <1>2, <2>5, <4>1
      <4>2. CASE j # 1
        <5>1. j - 1 \in DOMAIN r.groups /\ j - 1 < i /\ (j - 1) + 1 = j
          BY <2>5, <3>3, <4>2
        <5>2. QED BY <2>5, <3>1, <5>1
      <4>3. QED BY <4>1, <4>2
    <3>4. QED
      BY <1>2, <3>1, <3>2, <3>3 DEF Continues, ContinuesGroup, SilentUpTo
  <2>7. CASE ContinuesPlatform(ov, po, r, v)
    <3>1. ASSUME NEW j \in DOMAIN q.groups
          PROVE  ~ Decisive(RowOf(ov, q, q.groups[j]))
      <4>1. CASE j = 1
        BY <1>2, <2>5, <4>1
      <4>2. CASE j # 1
        <5>1. j - 1 \in DOMAIN r.groups /\ (j - 1) + 1 = j
          BY <2>5, <3>1, <4>2
        <5>2. QED BY <2>4, <2>5, <2>7, <5>1 DEF ContinuesPlatform
      <4>3. QED BY <4>1, <4>2
    <3>2. QED
      BY <1>2, <2>2, <2>7, <3>1 DEF Continues, ContinuesPlatform
  <2>8. QED BY <2>2, <2>3, <2>6, <2>7 DEF Continues, ContinuesUser
<1>3. QED BY <1>1, <1>2

\* The first change is seen; the ones after it are not the property's concern.
LEMMA ContinueSeenStep ==
  ASSUME TypeOK, TypeOK', NowSeen, NowSeen', ReadSoFar, ContinueSeen, [Next]_vars
  PROVE  ContinueSeen'
<1> SUFFICES ASSUME NEW e \in Checks, check'[e].pc # "idle", blind'[e] = {},
                    moved'[e] <= 1, NEW v,
                    Continues(overrides', policies', check'[e], v)
             PROVE  v \in seen'[e]
  BY DEF ContinueSeen, Active
<1>1. Active(e) /\ blind[e] = {} /\ moved[e] <= 1
      => \A w : Continues(overrides, policies, check[e], w) => w \in seen[e]
  BY DEF ContinueSeen
<1>2. CASE SlotKept(e) /\ TablesKept
  BY <1>1, <1>2 DEF SlotKept, TablesKept, Active
<1>3. CASE SlotObserves(e) /\ RowSet
  <2>1. /\ Active(e) /\ blind[e] = {} /\ check'[e] = check[e]
        /\ moved'[e] = moved[e] + 1 /\ moved[e] \in Nat
        /\ seen'[e] = seen[e] \cup {Decides(overrides', policies', check[e])}
    BY <1>3 DEF SlotObserves, Active, TypeOK
  <2>2. moved[e] = 0
    BY <2>1
  <2>3. PICK q \in Running : q = check[e]
    BY <2>1, IdleOrRunning
  <2>4. PICK k \in Nat : PastGroups(q, k) /\ PassedSilent(overrides, q, k)
    BY <2>1, <2>2, <2>3 DEF ReadSoFar
  <2>5. overrides \in Overrides
    BY DEF TypeOK, Overrides
  <2>6. v = Decides(overrides', policies', q) \/ Continues(overrides, policies, q, v)
    <3>1. Continues(overrides', policies', q, v)
      BY <2>1, <2>3
    <3>2. \/ overrides' = overrides
          \/ /\ policies' = policies
             /\ \E key \in Surfaces \X Subjects \X Platforms, d \in Decisions :
                  overrides' = [overrides EXCEPT ![key] = d]
      BY <1>3 DEF RowSet
    <3>3. QED BY <2>4, <2>5, <3>1, <3>2, FirstChange
  <2>7. QED BY <1>1, <2>1, <2>2, <2>3, <2>6
<1>4. CASE SlotStarts(e) /\ TablesKept
  <2>1. PICK q \in Running : q = check'[e]
    BY <1>4 DEF SlotStarts
  <2>2. PastGroups(q, 0) /\ PassedSilent(overrides, q, 0)
    BY <1>4, <2>1, StartsAtNone
  <2>3. v = Decides(overrides, policies, q)
    BY <1>4, <2>1, <2>2, ContinuesDecides DEF TablesKept
  <2>4. QED BY <1>4, <2>1, <2>3 DEF SlotStarts
<1>5. CASE SlotCut(e) \/ \E w : SlotAnswers(e, w)
  BY <1>5, IdleOrRunning DEF SlotCut, SlotAnswers
<1>6. CASE TablesKept /\ (UserPasses(e) \/ GroupPasses(e))
  <2>1. PICK q \in Running : q = check[e]
    BY <1>6, PassesOn
  <2>2. /\ Active(e) /\ blind[e] = {} /\ moved'[e] = moved[e] /\ seen'[e] = seen[e]
    BY <1>6 DEF UserPasses, GroupPasses, SlotGoesOn, Active
  <2>3. \/ /\ q.pc = "user" /\ ~ Decisive(RowOf(overrides, q, q.user))
           /\ check'[e] = [q EXCEPT !.pc = "group"]
        \/ /\ q.pc = "group" /\ q.groups # <<>>
           /\ ~ Decisive(RowOf(overrides, q, Head(q.groups)))
           /\ check'[e] = [q EXCEPT !.groups = Tail(q.groups)]
    BY <1>6, <2>1 DEF UserPasses, GroupPasses, SlotGoesOn
  <2>4. Continues(overrides, policies, check'[e], v)
    BY <1>6 DEF TablesKept
  <2>5. Continues(overrides, policies, q, v)
    <3>1. CASE /\ q.pc = "user" /\ ~ Decisive(RowOf(overrides, q, q.user))
               /\ check'[e] = [q EXCEPT !.pc = "group"]
      <4>1. Continues(overrides, policies, [q EXCEPT !.pc = "group"], v)
        BY <2>4, <3>1
      <4>2. QED BY <3>1, <4>1, PassingContinues
    <3>2. CASE /\ q.pc = "group" /\ q.groups # <<>>
               /\ ~ Decisive(RowOf(overrides, q, Head(q.groups)))
               /\ check'[e] = [q EXCEPT !.groups = Tail(q.groups)]
      <4>1. Continues(overrides, policies, [q EXCEPT !.groups = Tail(q.groups)], v)
        BY <2>4, <3>2
      <4>2. QED BY <3>2, <4>1, PassingContinues
    <3>3. QED BY <2>3, <3>1, <3>2
  <2>6. QED BY <1>1, <2>1, <2>2, <2>5
<1>7. SlotLooksUp(e) => (\E w : SlotAnswers(e, w)) \/ UserPasses(e) \/ GroupPasses(e)
  BY DEF SlotLooksUp, UserAnswers, GroupAnswers, PlatformAnswers
<1>8. QED BY <1>2, <1>3, <1>4, <1>5, <1>6, <1>7, SlotSteps

\* An answer given after lookups that all succeeded is what the check was
\* heading for.
LEMMA AnswerContinues ==
  ASSUME TypeOK, NEW e \in Checks, SlotLooksUp(e), blind'[e] = {}, check'[e].pc = "idle"
  PROVE  /\ Active(e) /\ blind[e] = {} /\ moved'[e] = moved[e] /\ seen'[e] = seen[e]
         /\ Continues(overrides, policies, check[e], response'[e].verdict)
<1>1. PICK q \in Running : q = check[e] /\ Active(e)
  BY IdleOrRunning DEF SlotLooksUp, UserAnswers, GroupAnswers, PlatformAnswers,
     UserPasses, GroupPasses, Active
<1>2. ~ (UserPasses(e) \/ GroupPasses(e))
  BY PassesOn
<1>3. CASE UserAnswers(e)
  BY <1>1, <1>3 DEF UserAnswers, SlotAnswers, Continues, ContinuesUser
<1>4. CASE GroupAnswers(e)
  <2>1. /\ q.pc = "group" /\ 1 \in DOMAIN q.groups /\ Head(q.groups) = q.groups[1]
        /\ SilentUpTo(overrides, q, 1)
    BY <1>1, <1>4 DEF GroupAnswers, Running, SilentUpTo
  <2>2. ContinuesGroup(overrides, q, response'[e].verdict)
    BY <1>1, <1>4, <2>1 DEF GroupAnswers, SlotAnswers, ContinuesGroup
  <2>3. QED BY <1>1, <1>4, <2>2 DEF GroupAnswers, SlotAnswers, Continues
<1>5. CASE PlatformAnswers(e)
  <2>1. q.pc = "group" /\ DOMAIN q.groups = {}
    BY <1>1, <1>5 DEF PlatformAnswers, Running
  <2>2. ContinuesPlatform(overrides, policies, q, response'[e].verdict)
    BY <1>1, <1>5, <2>1 DEF PlatformAnswers, SlotAnswers, ContinuesPlatform
  <2>3. QED BY <1>1, <1>5, <2>2 DEF PlatformAnswers, SlotAnswers, Continues
<1>6. QED BY <1>2, <1>3, <1>4, <1>5 DEF SlotLooksUp

\* An answer belongs to the instants its check has lived through.
LEMMA VerdictStep ==
  ASSUME TypeOK, TypeOK', AnsweredIsIdle, AnsweredIsIdle', ContinueSeen,
         VerdictHeldAtSomeInstant, [Next]_vars
  PROVE  VerdictHeldAtSomeInstant'
<1> SUFFICES ASSUME NEW e \in Checks, response'[e] # NULL, blind'[e] = {}, moved'[e] <= 1
             PROVE  response'[e].verdict \in seen'[e]
  BY DEF VerdictHeldAtSomeInstant
<1>1. check'[e].pc = "idle"
  BY DEF AnsweredIsIdle, Active
<1>2. CASE SlotKept(e) \/ SlotObserves(e) \/ SlotCut(e)
  <2>1. response[e] # NULL /\ response'[e] = response[e] /\ blind[e] = {}
    BY <1>2 DEF SlotKept, SlotObserves, SlotCut
  <2>2. ~ Active(e)
    BY <2>1 DEF AnsweredIsIdle
  <2>3. seen'[e] = seen[e] /\ moved'[e] = moved[e]
    BY <1>2, <2>2 DEF SlotKept, SlotObserves, SlotCut
  <2>4. QED BY <2>1, <2>3 DEF VerdictHeldAtSomeInstant
<1>3. CASE SlotStarts(e)
  BY <1>3 DEF SlotStarts
<1>4. CASE SlotLooksUp(e)
  BY <1>1, <1>4, AnswerContinues DEF ContinueSeen
<1>5. QED BY <1>2, <1>3, <1>4, SlotSteps

-----------------------------------------------------------------------------
(* A user's deny.                                                          *)

\* A check that passes the user's override met an instant without a deny.
LEMMA DenyPendingStep ==
  ASSUME TypeOK, TypeOK', NowSeen, DenyPending, [Next]_vars
  PROVE  DenyPending'
<1> SUFFICES ASSUME NEW e \in Checks, check'[e].pc = "group", "user" \notin blind'[e]
             PROVE  \E v \in seen'[e] : v # Deny("user_override_deny")
  BY DEF DenyPending
<1>1. CASE SlotKept(e) \/ SlotObserves(e)
  <2>1. check'[e] = check[e] /\ blind'[e] = blind[e] /\ seen[e] \subseteq seen'[e]
    BY <1>1 DEF SlotKept, SlotObserves
  <2>2. QED BY <2>1 DEF DenyPending
<1>2. CASE SlotStarts(e)
  BY <1>2 DEF SlotStarts
<1>3. CASE SlotCut(e) \/ \E v : SlotAnswers(e, v)
  BY <1>3, IdleOrRunning DEF SlotCut, SlotAnswers
<1>4. CASE UserPasses(e)
  <2>1. PICK q \in Running : q = check[e] /\ Active(e)
    BY <1>4, PassesOn DEF UserPasses, Active
  <2>2. ~ Decisive(RowOf(overrides, q, q.user)) /\ seen'[e] = seen[e]
    BY <1>4, <2>1 DEF UserPasses, SlotGoesOn
  <2>3. Decides(overrides, policies, q) # Deny("user_override_deny")
    BY <2>2, DecidesType DEF TypeOK, Policies, Running
  <2>4. QED BY <2>1, <2>2, <2>3 DEF NowSeen
<1>5. CASE GroupPasses(e)
  BY <1>5 DEF GroupPasses, SlotGoesOn, DenyPending
<1>6. SlotLooksUp(e) => (\E v : SlotAnswers(e, v)) \/ UserPasses(e) \/ GroupPasses(e)
  BY DEF SlotLooksUp, UserAnswers, GroupAnswers, PlatformAnswers
<1>7. QED BY <1>1, <1>2, <1>3, <1>4, <1>5, <1>6, SlotSteps

\* An answer that is not the deny comes from an override that does not deny, or
\* from a check that is past it.
LEMMA StandingDenyStep ==
  ASSUME TypeOK, TypeOK', AnsweredIsIdle, AnsweredIsIdle', NowSeen, DenyPending,
         StandingDenyHonoured, [Next]_vars
  PROVE  StandingDenyHonoured'
<1> SUFFICES ASSUME NEW e \in Checks, response'[e] # NULL, "user" \notin blind'[e],
                    seen'[e] = {Deny("user_override_deny")}
             PROVE  response'[e].verdict = Deny("user_override_deny")
  BY DEF StandingDenyHonoured
<1>1. CASE SlotKept(e) \/ SlotObserves(e) \/ SlotCut(e)
  <2>1. response[e] # NULL /\ response'[e] = response[e] /\ blind[e] = blind'[e]
    BY <1>1 DEF SlotKept, SlotObserves, SlotCut
  <2>2. ~ Active(e)
    BY <2>1 DEF AnsweredIsIdle
  <2>3. seen'[e] = seen[e]
    BY <1>1, <2>2 DEF SlotKept, SlotObserves, SlotCut
  <2>4. QED BY <2>1, <2>3 DEF StandingDenyHonoured
<1>2. CASE SlotStarts(e)
  BY <1>2 DEF SlotStarts
<1>3. CASE UserAnswers(e)
  <2>1. PICK d : d = RowOf(overrides, check[e], check[e].user)
    OBVIOUS
  <2>2. Decisive(d) /\ response'[e].verdict = UserVerdict(d) /\ seen'[e] = seen[e]
    BY <1>3, <2>1 DEF UserAnswers, SlotAnswers
  <2>3. UserVerdict(d) \in seen[e]
    BY <1>3, <2>1, <2>2 DEF NowSeen, Active, UserAnswers, Decides, evaluatePolicy
  <2>4. QED BY <2>2, <2>3
<1>4. CASE GroupAnswers(e) \/ PlatformAnswers(e)
  <2>1. check[e].pc = "group" /\ "user" \notin blind[e] /\ seen'[e] = seen[e]
    BY <1>4 DEF GroupAnswers, PlatformAnswers, SlotAnswers
  <2>2. QED BY <2>1 DEF DenyPending
<1>5. CASE UserPasses(e) \/ GroupPasses(e)
  BY <1>5, PassesOn DEF AnsweredIsIdle, Active
<1>6. QED BY <1>1, <1>2, <1>3, <1>4, <1>5, SlotSteps DEF SlotLooksUp

-----------------------------------------------------------------------------
(* The theorems.                                                           *)

\* The invariant holds at first, when no check is under way.
LEMMA InitDecision == Init => DecisionInv
<1> SUFFICES ASSUME Init PROVE DecisionInv
  OBVIOUS
<1>1. \A e \in Checks : check[e] = Idle /\ response[e] = NULL
  BY DEF Init
<1>2. Idle.pc = "idle"
  BY DEF Idle
<1>3. QED
  BY <1>1, <1>2, InitType DEF DecisionInv, ReadInv, AnsweredIsIdle, NowSeen, ReadSoFar,
     ContinueSeen, DenyPending, VerdictHeldAtSomeInstant, StandingDenyHonoured, Active

\* Every step preserves it.
LEMMA NextDecision == DecisionInv /\ [Next]_vars => DecisionInv'
<1> SUFFICES ASSUME DecisionInv, [Next]_vars PROVE DecisionInv'
  OBVIOUS
<1>1. TypeOK /\ TypeOK'
  BY NextType DEF DecisionInv
<1>2. AnsweredIsIdle' /\ NowSeen' /\ ReadSoFar'
  BY <1>1, AnsweredIsIdleStep, NowSeenStep, ReadSoFarStep DEF DecisionInv, ReadInv
<1>3. ContinueSeen'
  BY <1>1, <1>2, ContinueSeenStep DEF DecisionInv, ReadInv
<1>4. DenyPending'
  BY <1>1, DenyPendingStep DEF DecisionInv, ReadInv
<1>5. VerdictHeldAtSomeInstant' /\ StandingDenyHonoured'
  BY <1>1, <1>2, VerdictStep, StandingDenyStep DEF DecisionInv, ReadInv
<1>6. QED BY <1>1, <1>2, <1>3, <1>4, <1>5 DEF DecisionInv, ReadInv

\* The invariant of the checks under way.
LEMMA DecisionInvariant == Spec => []DecisionInv
  BY InitDecision, NextDecision, PTL DEF Spec

\* A decision read row by row, while at most one row changes, is one the tables
\* would have given at one instant of the check.
THEOREM VerdictsHeldAtAnInstant == Spec => []VerdictHeldAtSomeInstant
<1>1. DecisionInv => VerdictHeldAtSomeInstant
  BY DEF DecisionInv
<1>2. QED BY <1>1, DecisionInvariant, PTL

\* A user-level deny that stands throughout a check is the check's answer.
THEOREM StandingDeniesAreHonoured == Spec => []StandingDenyHonoured
<1>1. DecisionInv => StandingDenyHonoured
  BY DEF DecisionInv
<1>2. QED BY <1>1, DecisionInvariant, PTL
=============================================================================
