--------------------------- MODULE PolicyService ---------------------------
(***************************************************************************)
(* Policy as a service: administrators change rows while requests are      *)
(* being decided.  A decision reads its rows one statement at a time,      *)
(* layer by layer, and stops at the first layer that speaks.  A lookup     *)
(* that fails counts as a row that is not there.  A change is an upsert    *)
(* followed by an audit event, two statements without a transaction.       *)
(***************************************************************************)
EXTENDS PolicyDecision, Statements

CONSTANTS
    Surfaces,     \* "oauth2" and "forward_auth"
    Users, Groups,
    GroupsOf,     \* user -> its groups, ordered by name
    Checks,       \* requests being decided at once
    Admins,       \* policy changes being made at once
    MaxChanges    \* bound on the policy changes of a run

Subjects == Users \cup Groups

\* An override names the type of its subject, and a user is in a group once.
ASSUME PolicyAssumption ==
    /\ Surfaces \subseteq {"oauth2", "forward_auth"}
    /\ Users \cap Groups = {}
    /\ GroupsOf \in [Users -> Seq(Groups)]
    /\ \A u \in Users : \A i, j \in DOMAIN GroupsOf[u] :
         i # j => GroupsOf[u][i] # GroupsOf[u][j]
    /\ Faults \subseteq FaultKinds
    /\ MaxChanges \in Nat
    /\ NULL \notin Decisions /\ NULL \notin PolicyRow /\ NULL \notin Users

AuditEvent == [action : {"platform_policy_upsert", "subject_override_upsert"},
               change : Nat]

VARIABLES
    overrides,   \* subject_policy_overrides
    policies,    \* platform_policies
    check,       \* decisions under way
    put,         \* policy changes under way
    changes,     \* history: how many changes were committed
    audited,     \* audit_events: the action, and the change it records
    response,    \* history: the last answer of each check
    seen,        \* history: what evaluatePolicy said at each instant of a check
    moved,       \* history: changes committed since a check began
    blind        \* history: the lookups of a check that failed

vars == <<overrides, policies, check, put, changes, audited,
          response, seen, moved, blind>>
adminVars == <<put, audited>>
checkVars == <<check, response, seen, moved, blind>>

Idle == [pc |-> "idle", surface |-> NULL, user |-> NULL, platform |-> NULL,
         groups |-> <<>>]

\* The row of a key, or NULL when there is none.
GetSubjectPolicyOverride(surface, subject, p) == overrides[<<surface, subject, p>>]
GetPlatformPolicy(surface, p) == policies[<<surface, p>>]

\* A user's groups, ordered by name.
ListUserGroups(u) == GroupsOf[u]

\* What the two tables decide about a request.
DecisionNow(surface, u, p) ==
    evaluatePolicy(GetSubjectPolicyOverride(surface, u, p),
                   [i \in DOMAIN GroupsOf[u] |->
                       GetSubjectPolicyOverride(surface, GroupsOf[u][i], p)],
                   GetPlatformPolicy(surface, p), p)

-----------------------------------------------------------------------------
\* The server starts on a database that may already hold any policy.
Init ==
    /\ overrides \in [Surfaces \X Subjects \X Platforms -> Decisions \cup {NULL}]
    /\ policies \in [Surfaces \X Platforms -> PolicyRow \cup {NULL}]
    /\ check = [e \in Checks |-> Idle]
    /\ put = [a \in Admins |-> NULL]
    /\ changes = 0
    /\ audited = {}
    /\ response = [e \in Checks |-> NULL]
    /\ seen = [e \in Checks |-> {}]
    /\ moved = [e \in Checks |-> 0]
    /\ blind = [e \in Checks |-> {}]

-----------------------------------------------------------------------------
(* Changing the policy.                                                    *)

\* The new tables are seen by every check under way.
Observed ==
    /\ UNCHANGED <<check, response, blind>>
    /\ seen' = [e \in Checks |->
                  IF check[e].pc = "idle" THEN seen[e]
                  ELSE seen[e] \cup {DecisionNow(check[e].surface, check[e].user,
                                                 check[e].platform)'}]
    /\ moved' = [e \in Checks |->
                  IF check[e].pc = "idle" THEN moved[e] ELSE moved[e] + 1]

\* The upsert is committed; an error it reports all the same ends the request.
Committed(a, action) ==
    /\ put[a] = NULL
    /\ changes < MaxChanges
    /\ changes' = changes + 1
    /\ \E outcome \in Outcomes \ {"failed"} :
         put' = [put EXCEPT ![a] =
                   IF Reported(outcome) THEN [action |-> action, change |-> changes']
                                        ELSE NULL]
    /\ UNCHANGED audited

\* ON CONFLICT ... DO UPDATE: the key's row holds the new value either way.
UpsertPlatformPolicy(surface, p, row) ==
    policies' = [policies EXCEPT ![<<surface, p>>] = row]

UpsertSubjectPolicyOverride(surface, subject, p, decision) ==
    overrides' = [overrides EXCEPT ![<<surface, subject, p>>] = decision]

putPlatformPolicy(a, surface, p, row) ==
    /\ Committed(a, "platform_policy_upsert")
    /\ UpsertPlatformPolicy(surface, p, row)
    /\ UNCHANGED overrides
    /\ Observed

putOverride(a, surface, subject, p, decision) ==
    /\ Committed(a, "subject_override_upsert")
    /\ UpsertSubjectPolicyOverride(surface, subject, p, decision)
    /\ UNCHANGED policies
    /\ Observed

\* Each surface has an endpoint for the overrides of users and one for groups.
OverrideRoutes ==
    {[surface |-> surface, subjects |-> kind] :
        surface \in Surfaces, kind \in {Users, Groups}}

\* The audit event, whose error is dropped, and the 200 response.
audit(a) ==
    /\ put[a] # NULL
    /\ \E outcome \in Outcomes :
         audited' = IF Applied(outcome) THEN audited \cup {put[a]} ELSE audited
    /\ put' = [put EXCEPT ![a] = NULL]
    /\ UNCHANGED <<overrides, policies, changes, checkVars>>

-----------------------------------------------------------------------------
(* Deciding a request.                                                     *)

\* Mutated form of Response: the reason is replaced by the error code.
ResponseCode(surface, verdict) ==
    [surface |-> surface, verdict |-> verdict, reported |-> "policy_denied"]

\* What the caller is told.  Forward-auth names one reason for every denial.
Response(surface, verdict) ==
    [surface |-> surface, verdict |-> verdict,
     reported |-> IF surface = "forward_auth" /\ ~ verdict.allowed
                  THEN "platform_denylist" ELSE verdict.reason]

Answer(e, verdict) ==
    /\ response' = [response EXCEPT ![e] = Response(check[e].surface, verdict)]
    /\ check' = [check EXCEPT ![e] = Idle]

Missed(e, layer) == blind' = [blind EXCEPT ![e] = @ \cup {layer}]

\* The caller is known; listing its groups may fail, and then it has none.
requirePrincipal(e, surface, u, p) ==
    /\ check[e].pc = "idle"
    /\ \E lookup \in Lookups :
         /\ check' = [check EXCEPT ![e] =
              [pc |-> "user", surface |-> surface, user |-> u, platform |-> p,
               groups |-> IF lookup = "ok" THEN ListUserGroups(u) ELSE <<>>]]
         /\ blind' = [blind EXCEPT ![e] = IF lookup = "ok" THEN {} ELSE {"groups"}]
    /\ response' = [response EXCEPT ![e] = NULL]
    /\ seen' = [seen EXCEPT ![e] = {DecisionNow(surface, u, p)}]
    /\ moved' = [moved EXCEPT ![e] = 0]
    /\ UNCHANGED <<overrides, policies, changes, adminVars>>

\* Mutated form of UserDecides: only an override that allows ends the check.
UserAllows(decision) == decision = "allow"

UserDecides(decision) == Decisive(decision)

LookupUser(e) ==
    /\ check[e].pc = "user"
    /\ LET decision == GetSubjectPolicyOverride(check[e].surface, check[e].user,
                                                check[e].platform)
       IN \/ /\ UserDecides(decision)
             /\ Answer(e, UserVerdict(decision))
             /\ UNCHANGED blind
          \/ /\ ~ UserDecides(decision)
             /\ check' = [check EXCEPT ![e].pc = "group"]
             /\ UNCHANGED <<response, blind>>
          \/ /\ "unread" \in Lookups
             /\ check' = [check EXCEPT ![e].pc = "group"]
             /\ Missed(e, "user")
             /\ UNCHANGED response
    /\ UNCHANGED <<overrides, policies, changes, adminVars, seen, moved>>

\* Mutated forms of RestOf: one group is enough; the loop does not advance.
NoneOf(groups) == <<>>
AllOf(groups) == groups

\* The groups the loop has left.
RestOf(groups) == Tail(groups)

\* One group of the list; the list runs out, or a group decides.
LookupGroup(e) ==
    /\ check[e].pc = "group" /\ check[e].groups # <<>>
    /\ LET decision == GetSubjectPolicyOverride(check[e].surface, Head(check[e].groups),
                                                check[e].platform)
       IN \/ /\ Decisive(decision)
             /\ Answer(e, GroupVerdict(decision))
             /\ UNCHANGED blind
          \/ /\ ~ Decisive(decision)
             /\ check' = [check EXCEPT ![e].groups = RestOf(@)]
             /\ UNCHANGED <<response, blind>>
          \/ /\ "unread" \in Lookups
             /\ check' = [check EXCEPT ![e].groups = RestOf(@)]
             /\ Missed(e, "group")
             /\ UNCHANGED response
    /\ UNCHANGED <<overrides, policies, changes, adminVars, seen, moved>>

LookupPlatform(e) ==
    /\ check[e].pc = "group" /\ check[e].groups = <<>>
    /\ \/ /\ LET p == check[e].platform IN
               Answer(e, PlatformVerdict(GetPlatformPolicy(check[e].surface, p), p))
          /\ UNCHANGED blind
       \/ /\ "unread" \in Lookups
          /\ Answer(e, PlatformVerdict(NULL, check[e].platform))
          /\ Missed(e, "platform")
    /\ UNCHANGED <<overrides, policies, changes, adminVars, seen, moved>>

-----------------------------------------------------------------------------
Crash ==
    /\ "crash" \in Faults
    /\ \/ \E a \in Admins : put[a] # NULL
       \/ \E e \in Checks : check[e].pc # "idle"
    /\ put' = [a \in Admins |-> NULL]
    /\ check' = [e \in Checks |-> Idle]
    /\ UNCHANGED <<overrides, policies, changes, audited, response,
                   seen, moved, blind>>

CheckStep(e) == LookupUser(e) \/ LookupGroup(e) \/ LookupPlatform(e)

Next ==
    \/ \E a \in Admins, surface \in Surfaces, p \in Platforms, row \in PolicyRow :
         putPlatformPolicy(a, surface, p, row)
    \/ \E a \in Admins, route \in OverrideRoutes, p \in Platforms,
          decision \in Decisions :
         \E subject \in route.subjects :
             putOverride(a, route.surface, subject, p, decision)
    \/ \E a \in Admins : audit(a)
    \/ \E e \in Checks, surface \in Surfaces, u \in Users, p \in Platforms :
         requirePrincipal(e, surface, u, p)
    \/ \E e \in Checks : CheckStep(e)
    \/ Crash

Spec == Init /\ [][Next]_vars

FairSpec == Spec /\ \A e \in Checks : WF_vars(CheckStep(e))

-----------------------------------------------------------------------------
(* Properties.                                                             *)

TypeOK ==
    /\ overrides \in [Surfaces \X Subjects \X Platforms -> Decisions \cup {NULL}]
    /\ policies \in [Surfaces \X Platforms -> PolicyRow \cup {NULL}]
    /\ check \in [Checks -> {Idle} \cup
         [pc : {"user", "group"}, surface : Surfaces, user : Users,
          platform : Platforms, groups : Seq(Groups)]]
    /\ put \in [Admins -> AuditEvent \cup {NULL}]
    /\ changes \in Nat
    /\ audited \subseteq AuditEvent
    /\ response \in [Checks -> {NULL} \cup 
         [surface : Surfaces, verdict : Verdict,
          reported : {v.reason : v \in Verdict}]]
    /\ seen \in [Checks -> SUBSET Verdict]
    /\ moved \in [Checks -> Nat]
    /\ blind \in [Checks -> SUBSET {"groups", "user", "group", "platform"}]

\* A decision read layer by layer is one the tables would have given at one
\* instant of it, if no lookup failed and at most one row changed meanwhile.
VerdictHeldAtSomeInstant ==
    \A e \in Checks :
        response[e] # NULL /\ blind[e] = {} /\ moved[e] <= 1
        => response[e].verdict \in seen[e]

\* A user-level deny that stands throughout a check is honoured, whatever else
\* changes and whatever the other lookups return.
StandingDenyHonoured ==
    \A e \in Checks :
        response[e] # NULL /\ "user" \notin blind[e]
        /\ seen[e] = {Deny("user_override_deny")}
        => response[e].verdict = Deny("user_override_deny")

\* Every check is answered, or cut off.
EveryCheckEnds == \A e \in Checks : check[e].pc # "idle" ~> check[e].pc = "idle"

\* Decisions follow the documented precedence of the layers.
DocumentedPrecedence ==
    \A surface \in Surfaces, u \in Users, p \in Platforms :
        DecisionNow(surface, u, p) =
            DocumentedDecision(GetSubjectPolicyOverride(surface, u, p),
                               [i \in DOMAIN GroupsOf[u] |->
                                   GetSubjectPolicyOverride(surface, GroupsOf[u][i], p)],
                               GetPlatformPolicy(surface, p), p)
=============================================================================
