---------------------------- MODULE AccessProofs ----------------------------
(***************************************************************************)
(* Proofs about Access, for any number of clients, users, authorizations,  *)
(* token requests and policy changes.                                      *)
(*                                                                         *)
(* Every step of Access is a step of OAuthGrants and one of PolicyService, *)
(* or leaves their variables alone.  So the inductive invariants of the    *)
(* two hold here as well, and are used under the names Grants and Policy:  *)
(* instances of the modules in which they are proved.  What is left is the *)
(* way between the two: the verdict an authorization acts on is about its  *)
(* own user and client, and a verdict that allowed them at an instant of   *)
(* the check has put the pair among those ever permitted.                  *)
(***************************************************************************)
EXTENDS Access, TLAPS

Grants == INSTANCE OAuthGrantsProofs
Policy == INSTANCE PolicyServiceProofs

-----------------------------------------------------------------------------
(* G and Grants, P and Policy have the same definitions.                   *)

\* What the proofs of OAuthGrants assume of its constants holds here.
LEMMA GrantsAssumptions == Grants!ConstantsAssumption /\ Grants!KeysAssumption
  BY AccessAssumption
     DEF G!ConstantsAssumption, Grants!ConstantsAssumption, G!KeysAssumption,
         Grants!KeysAssumption,
         G!Sources, Grants!Sources, G!NoTime, Grants!NoTime, G!Timestamp,
         Grants!Timestamp, G!Owner, Grants!Owner, G!CodeRow,
         Grants!CodeRow, G!AccessRow, Grants!AccessRow, G!RefreshRow,
         Grants!RefreshRow, G!MintRecord, Grants!MintRecord, G!FaultKinds,
         Grants!FaultKinds

\* So does what those of PolicyService assume.
LEMMA PolicyAssumptions == Policy!PolicyAssumption
  BY AccessAssumption
     DEF P!PolicyAssumption, Policy!PolicyAssumption,
         P!FaultKinds, Policy!FaultKinds, P!Decisions, Policy!Decisions,
         P!PolicyRow, Policy!PolicyRow, P!Modes, Policy!Modes

\* The steps of the grants are the same under both names.
LEMMA SameGrants == [G!Next]_G!vars => [Grants!Next]_Grants!vars
  BY DEF G!vars, Grants!vars, G!Idle, Grants!Idle, G!NoTime, Grants!NoTime,
         G!Holding, Grants!Holding, G!Running, Grants!Running, G!StampOnce,
         Grants!StampOnce, G!FaultKinds, Grants!FaultKinds, G!Outcomes,
         Grants!Outcomes, G!Applied, Grants!Applied, G!Reported,
         Grants!Reported, G!Cardinality, Grants!Cardinality,
         G!CreateOAuthAuthorizationCode,
         Grants!CreateOAuthAuthorizationCode, G!CreateOAuthAccessToken,
         Grants!CreateOAuthAccessToken, G!CreateOAuthRefreshToken,
         Grants!CreateOAuthRefreshToken, G!ConsumeOAuthAuthorizationCode,
         Grants!ConsumeOAuthAuthorizationCode,
         G!RevokeOAuthAccessTokenByHash,
         Grants!RevokeOAuthAccessTokenByHash,
         G!RevokeOAuthRefreshTokenByHash,
         Grants!RevokeOAuthRefreshTokenByHash, G!AccessRoom,
         Grants!AccessRoom, G!RefreshRoom, Grants!RefreshRoom,
         G!AuthorizeOAuth2Client, Grants!AuthorizeOAuth2Client,
         G!ExchangeOAuth2Token, Grants!ExchangeOAuth2Token, G!PkceHolds,
         Grants!PkceHolds, G!CodeUsable, Grants!CodeUsable,
         G!RefreshUsable, Grants!RefreshUsable, G!Hold, Grants!Hold,
         G!ReadCode, Grants!ReadCode, G!ReadRefresh, Grants!ReadRefresh,
         G!issueJWT, Grants!issueJWT, G!ConsumeCode, Grants!ConsumeCode,
         G!RevokeOldRefresh, Grants!RevokeOldRefresh, G!CreateAccessToken,
         Grants!CreateAccessToken, G!CreateRefreshToken,
         Grants!CreateRefreshToken, G!ExchangeClientCredentials,
         Grants!ExchangeClientCredentials, G!RevokeAccessToken,
         Grants!RevokeAccessToken, G!RevokeRefreshToken,
         Grants!RevokeRefreshToken, G!Crash, Grants!Crash, G!Tick,
         Grants!Tick, G!HandlerStep, Grants!HandlerStep, G!Next,
         Grants!Next

\* So are their initial states.
LEMMA SameGrantsInit == G!Init => Grants!Init
  BY DEF G!Init, Grants!Init, G!Idle, Grants!Idle, G!NoTime, Grants!NoTime

\* And their types.
LEMMA SameGrantsType == Grants!TypeOK => G!TypeOK
  BY DEF G!TypeOK, Grants!TypeOK,
         G!Sources, Grants!Sources, G!NoTime, Grants!NoTime, G!Timestamp,
         Grants!Timestamp, G!Owner, Grants!Owner, G!CodeRow,
         Grants!CodeRow, G!AccessRow, Grants!AccessRow, G!RefreshRow,
         Grants!RefreshRow, G!MintRecord, Grants!MintRecord, G!FaultKinds,
         Grants!FaultKinds, G!RequestState, Grants!RequestState

\* A change of a platform's policy is the same step under both names.
LEMMA SamePutPlatformPolicy ==
  ASSUME NEW a, NEW surface, NEW p, NEW row
  PROVE  P!putPlatformPolicy(a, surface, p, row) = Policy!putPlatformPolicy(a, surface, p, row)
  BY DEF P!putPlatformPolicy, Policy!putPlatformPolicy, P!Observed,
         Policy!Observed, P!Committed, Policy!Committed, P!Reported,
         Policy!Reported, P!Outcomes, Policy!Outcomes,
         P!UpsertPlatformPolicy, Policy!UpsertPlatformPolicy,
         P!DecisionNow, Policy!DecisionNow, P!GetSubjectPolicyOverride,
         Policy!GetSubjectPolicyOverride, P!GetPlatformPolicy,
         Policy!GetPlatformPolicy, P!evaluatePolicy, Policy!evaluatePolicy,
         P!FirstDecisive, Policy!FirstDecisive, P!PlatformVerdict,
         Policy!PlatformVerdict, P!UserVerdict, Policy!UserVerdict,
         P!GroupVerdict, Policy!GroupVerdict, P!Allow, Policy!Allow,
         P!Deny, Policy!Deny, P!Decisive, Policy!Decisive

\* So is a change of an override,
LEMMA SamePutOverride ==
  ASSUME NEW a, NEW surface, NEW subject, NEW p, NEW decision
  PROVE  P!putOverride(a, surface, subject, p, decision)
         = Policy!putOverride(a, surface, subject, p, decision)
  BY DEF P!putOverride, Policy!putOverride, P!Observed, Policy!Observed,
         P!Committed, Policy!Committed, P!Reported, Policy!Reported,
         P!Outcomes, Policy!Outcomes, P!UpsertSubjectPolicyOverride,
         Policy!UpsertSubjectPolicyOverride, P!DecisionNow,
         Policy!DecisionNow, P!GetSubjectPolicyOverride,
         Policy!GetSubjectPolicyOverride, P!GetPlatformPolicy,
         Policy!GetPlatformPolicy, P!evaluatePolicy, Policy!evaluatePolicy,
         P!FirstDecisive, Policy!FirstDecisive, P!PlatformVerdict,
         Policy!PlatformVerdict, P!UserVerdict, Policy!UserVerdict,
         P!GroupVerdict, Policy!GroupVerdict, P!Allow, Policy!Allow,
         P!Deny, Policy!Deny, P!Decisive, Policy!Decisive

\* the audit event,
LEMMA SameAudit ==
  ASSUME NEW a
  PROVE  P!audit(a) = Policy!audit(a)
  BY DEF P!audit, Policy!audit, P!Outcomes, Policy!Outcomes, P!Applied,
         Policy!Applied, P!checkVars, Policy!checkVars

\* the begin of a check,
LEMMA SameRequirePrincipal ==
  ASSUME NEW e, NEW surface, NEW u, NEW p
  PROVE  P!requirePrincipal(e, surface, u, p) = Policy!requirePrincipal(e, surface, u, p)
  BY DEF P!requirePrincipal, Policy!requirePrincipal, P!Lookups,
         Policy!Lookups, P!ListUserGroups, Policy!ListUserGroups,
         P!adminVars, Policy!adminVars, P!DecisionNow, Policy!DecisionNow,
         P!GetSubjectPolicyOverride, Policy!GetSubjectPolicyOverride,
         P!GetPlatformPolicy, Policy!GetPlatformPolicy, P!evaluatePolicy,
         Policy!evaluatePolicy, P!FirstDecisive, Policy!FirstDecisive,
         P!PlatformVerdict, Policy!PlatformVerdict, P!UserVerdict,
         Policy!UserVerdict, P!GroupVerdict, Policy!GroupVerdict, P!Allow,
         Policy!Allow, P!Deny, Policy!Deny, P!Decisive, Policy!Decisive

\* its lookup of the user,
LEMMA SameLookupUser ==
  ASSUME NEW e
  PROVE  P!LookupUser(e) = Policy!LookupUser(e)
  BY DEF P!LookupUser, Policy!LookupUser, P!GetSubjectPolicyOverride,
         Policy!GetSubjectPolicyOverride, P!UserDecides,
         Policy!UserDecides, P!Decisive, Policy!Decisive, P!Answer,
         Policy!Answer, P!Response, Policy!Response, P!Idle, Policy!Idle,
         P!UserVerdict, Policy!UserVerdict, P!Lookups, Policy!Lookups,
         P!Missed, Policy!Missed, P!adminVars, Policy!adminVars, P!Allow,
         Policy!Allow, P!Deny, Policy!Deny

\* of a group,
LEMMA SameLookupGroup ==
  ASSUME NEW e
  PROVE  P!LookupGroup(e) = Policy!LookupGroup(e)
  BY DEF P!LookupGroup, Policy!LookupGroup, P!GetSubjectPolicyOverride,
         Policy!GetSubjectPolicyOverride, P!Decisive, Policy!Decisive,
         P!Answer, Policy!Answer, P!Response, Policy!Response, P!Idle,
         Policy!Idle, P!GroupVerdict, Policy!GroupVerdict, P!Lookups,
         Policy!Lookups, P!Missed, Policy!Missed, P!adminVars,
         Policy!adminVars, P!Allow, Policy!Allow, P!Deny, Policy!Deny,
         P!RestOf, Policy!RestOf

\* and of the platform,
LEMMA SameLookupPlatform ==
  ASSUME NEW e
  PROVE  P!LookupPlatform(e) = Policy!LookupPlatform(e)
  BY DEF P!LookupPlatform, Policy!LookupPlatform, P!GetPlatformPolicy,
         Policy!GetPlatformPolicy, P!PlatformVerdict,
         Policy!PlatformVerdict, P!Answer, Policy!Answer, P!Response,
         Policy!Response, P!Idle, Policy!Idle, P!Lookups, Policy!Lookups,
         P!Missed, Policy!Missed, P!adminVars, Policy!adminVars, P!Allow,
         Policy!Allow, P!Deny, Policy!Deny

\* and a crash.
LEMMA SameCrash ==
  P!Crash = Policy!Crash
  BY DEF P!Crash, Policy!Crash, P!Idle, Policy!Idle

-----------------------------------------------------------------------------
(* A step of Access is one of the grants and one of the policy.            *)

\* A slot of the token endpoint that is free holds nothing.
IdleSlots == \A r \in Requests : request[r].pc = "idle" => request[r] = G!Idle

\* An authorization under way names all it has to, and a registered URI.
Admitted ==
    /\ authorize \in [Authorizations -> Authorization \cup {NULL}]
    /\ \A e \in Authorizations : authorize[e] # NULL =>
         LET params == authorize[e].params IN
         /\ Bound(params)
         /\ params.redirect_uri \in Registered[params.client_id]

\* What a complete request names.
LEMMA BoundParameters ==
  ASSUME NEW params \in Parameters, Bound(params)
  PROVE  /\ params.client_id \in Clients /\ params.redirect_uri \in Redirects
         /\ params.scope \in Scopes /\ params.code_challenge \in Challenges \cup {NULL}
  <1>1. /\ params.client_id # NULL /\ params.redirect_uri # NULL /\ params.scope # NULL
    BY DEF Bound, Required
  <1> QED BY <1>1 DEF Parameters, Parameter

\* The authorization under way in slot e.
LEMMA AdmittedRequest ==
  ASSUME Admitted, NEW e \in Authorizations, authorize[e] # NULL
  PROVE  \E q \in Authorization :
           /\ q = authorize[e] /\ q.user \in Users /\ q.params \in Parameters
           /\ Bound(q.params)
           /\ q.params.redirect_uri \in Registered[q.params.client_id]
           /\ q.params.client_id \in Clients /\ q.params.redirect_uri \in Redirects
           /\ q.params.scope \in Scopes
           /\ q.params.code_challenge \in Challenges \cup {NULL}
  <1>1. PICK q \in Authorization : q = authorize[e]
    BY DEF Admitted
  <1>2. q.user \in Users /\ q.params \in Parameters
    BY DEF Authorization
  <1>3. /\ Bound(q.params)
        /\ q.params.redirect_uri \in Registered[q.params.client_id]
    BY <1>1 DEF Admitted
  <1> QED BY <1>1, <1>2, <1>3, BoundParameters

\* The statement that stores the code is the whole of AuthorizeOAuth2Client.
LEMMA IssueAuthorizes ==
  ASSUME Admitted, NEW e \in Authorizations, Issue(e)
  PROVE  G!Next
  <1>1. authorize[e] # NULL
    BY DEF Issue, Decided
  <1>2. PICK q \in Authorization :
           /\ q = authorize[e] /\ q.user \in Users /\ q.params \in Parameters
           /\ q.params.redirect_uri \in Registered[q.params.client_id]
           /\ q.params.client_id \in Clients /\ q.params.redirect_uri \in Redirects
           /\ q.params.scope \in Scopes
           /\ q.params.code_challenge \in Challenges \cup {NULL}
    BY <1>1, AdmittedRequest
  <1>3. G!AuthorizeOAuth2Client(q.params.client_id, q.user, q.params.redirect_uri,
                                q.params.scope, q.params.code_challenge)
    BY <1>2 DEF Issue, PkceInOrder, Finish, G!AuthorizeOAuth2Client
  <1> QED BY <1>2, <1>3 DEF G!Next

\* What the token and revocation endpoints do is a step of the grants.
LEMMA ExchangeIsGrant ==
  ASSUME Exchange
  PROVE  G!Next /\ UNCHANGED <<policyVars, authorize, permitted, overtaken>>
  BY DEF Exchange, G!Next, Parameter

\* A crash stops the running token requests, if there are any.
LEMMA CrashOfGrants ==
  ASSUME IdleSlots, DOMAIN request = Requests, Crash,
         request = [r \in DOMAIN request |-> request[r]]
  PROVE  G!Crash \/ UNCHANGED G!vars
  <1>1. CASE \E r \in Requests : G!Running(r)
    BY <1>1 DEF Crash, G!Crash
  <1>2. CASE \A r \in Requests : ~ G!Running(r)
    <2>1. \A r \in Requests : request[r] = G!Idle
      BY <1>2 DEF IdleSlots, G!Running
    <2>2. request' = request
      BY <2>1 DEF Crash
    <2> QED BY <2>2 DEF Crash, G!vars
  <1> QED BY <1>1, <1>2

\* Every step is a step of OAuthGrants, or leaves its variables alone.
LEMMA StepOfGrants ==
  ASSUME Admitted, IdleSlots, request \in [Requests -> Grants!RequestState], [Next]_vars
  PROVE  [G!Next]_G!vars
  <1>1. ASSUME NEW e \in Authorizations, NEW u, NEW params, Begin(e, u, params)
        PROVE  UNCHANGED G!vars
    BY <1>1 DEF Begin, G!vars, grantVars
  <1>2. ASSUME NEW e \in Authorizations, Decide(e) PROVE UNCHANGED G!vars
    BY <1>2 DEF Decide, G!vars, grantVars
  <1>3. ASSUME NEW e \in Authorizations, Reject(e) PROVE UNCHANGED G!vars
    BY <1>3 DEF Reject, Finish, G!vars
  <1>4. ASSUME Administer PROVE UNCHANGED G!vars
    BY <1>4 DEF Administer, G!vars, grantVars
  <1>5. ASSUME Crash PROVE G!Crash \/ UNCHANGED G!vars
    BY <1>5, CrashOfGrants
  <1>6. CASE UNCHANGED vars
    BY <1>6 DEF vars, grantVars, G!vars
  <1> QED
    BY <1>1, <1>2, <1>3, <1>4, <1>5, <1>6, IssueAuthorizes, ExchangeIsGrant DEF Next, G!Next

\* A crash ends the checks and the policy changes under way, if there are any.
LEMMA CrashOfPolicy ==
  ASSUME Policy!TypeOK, Crash
  PROVE  P!Crash \/ UNCHANGED P!vars
  <1>1. CASE \/ \E a \in Admins : put[a] # NULL
             \/ \E e \in Checks : check[e].pc # "idle"
    BY <1>1 DEF Crash, P!Crash, Checks
  <1>2. CASE /\ \A a \in Admins : put[a] = NULL
             /\ \A e \in Checks : check[e].pc = "idle"
    <2>1. put \in [Admins -> Policy!AuditEvent \cup {NULL}] /\ DOMAIN check = Checks
          /\ check = [e \in Checks |-> check[e]]
      BY DEF Policy!TypeOK
    <2>2. \A e \in Checks : check[e] = P!Idle
      BY <1>2 DEF Policy!TypeOK, Policy!Idle, P!Idle
    <2>3. put' = put
      BY <1>2, <2>1 DEF Crash
    <2>4. check' = check
      BY <2>1, <2>2 DEF Crash, Checks
    <2> QED BY <2>3, <2>4 DEF Crash, P!vars
  <1> QED BY <1>1, <1>2

\* What an administrator does is a step of the policy.
LEMMA AdministerIsPolicy ==
  ASSUME Administer
  PROVE  P!Next
  <1>1. ASSUME NEW a \in Admins, NEW p \in Clients, NEW row \in P!PolicyRow,
               P!putPlatformPolicy(a, "oauth2", p, row)
        PROVE  P!Next
    BY <1>1 DEF P!Next, Surfaces, Platforms
  <1>2. ASSUME NEW a \in Admins, NEW subject \in P!Subjects, NEW p \in Clients,
               NEW decision \in P!Decisions,
               P!putOverride(a, "oauth2", subject, p, decision)
        PROVE  P!Next
    <2> DEFINE route(kind) == [surface |-> "oauth2", subjects |-> kind]
    <2>1. PICK kind \in {Users, Groups} : subject \in kind
      BY DEF P!Subjects
    <2>2. route(kind) \in P!OverrideRoutes
      BY DEF P!OverrideRoutes, Surfaces
    <2>3. route(kind).surface = "oauth2" /\ subject \in route(kind).subjects
      BY <2>1
    <2> HIDE DEF route
    <2> QED BY <1>2, <2>2, <2>3 DEF P!Next, Platforms
  <1>3. ASSUME NEW a \in Admins, P!audit(a) PROVE P!Next
    BY <1>3 DEF P!Next
  <1> QED BY <1>1, <1>2, <1>3 DEF Administer

\* Every step is a step of PolicyService, or leaves its variables alone.
LEMMA StepOfPolicy ==
  ASSUME Policy!TypeOK, [Next]_vars
  PROVE  [P!Next]_P!vars
  <1>1. ASSUME NEW e \in Authorizations, NEW u \in Users, NEW params \in Parameters,
               Begin(e, u, params)
        PROVE  P!Next
    <2>1. params.client_id \in Clients
      BY <1>1, BoundParameters DEF Begin
    <2> QED BY <1>1, <2>1 DEF Begin, P!Next, Checks, Surfaces, Platforms
  <1>2. ASSUME NEW e \in Authorizations, Decide(e) PROVE P!Next
    BY <1>2 DEF Decide, P!Next, Checks
  <1>3. ASSUME NEW e \in Authorizations, Reject(e) \/ Issue(e) PROVE UNCHANGED P!vars
    BY <1>3 DEF Reject, Issue, Finish, P!vars, policyVars
  <1>4. ASSUME Exchange PROVE UNCHANGED P!vars
    BY <1>4 DEF Exchange, P!vars, policyVars
  <1>5. CASE UNCHANGED vars
    BY <1>5 DEF vars, policyVars, P!vars
  <1> QED
    BY <1>1, <1>2, <1>3, <1>4, <1>5, AdministerIsPolicy, CrashOfPolicy DEF Next, P!Next

\* The steps of the policy are the same under both names.
LEMMA SamePolicy == [P!Next]_P!vars => [Policy!Next]_Policy!vars
  <1> SUFFICES ASSUME P!Next PROVE Policy!Next
    BY DEF P!vars, Policy!vars
  <1>1. /\ P!PolicyRow = Policy!PolicyRow /\ P!Decisions = Policy!Decisions
        /\ P!OverrideRoutes = Policy!OverrideRoutes
    BY DEF P!PolicyRow, Policy!PolicyRow, P!Modes, Policy!Modes, P!Decisions,
           Policy!Decisions, P!OverrideRoutes, Policy!OverrideRoutes
  <1>2. ASSUME NEW a \in Admins, NEW surface \in Surfaces, NEW p \in Platforms,
               NEW row \in P!PolicyRow, P!putPlatformPolicy(a, surface, p, row)
        PROVE  Policy!Next
    BY <1>1, <1>2, SamePutPlatformPolicy DEF Policy!Next
  <1>3. ASSUME NEW a \in Admins, NEW route \in P!OverrideRoutes, NEW p \in Platforms,
               NEW decision \in P!Decisions, NEW subject \in route.subjects,
               P!putOverride(a, route.surface, subject, p, decision)
        PROVE  Policy!Next
    BY <1>1, <1>3, SamePutOverride DEF Policy!Next
  <1>4. ASSUME NEW a \in Admins, P!audit(a) PROVE Policy!Next
    BY <1>4, SameAudit DEF Policy!Next
  <1>5. ASSUME NEW e \in Checks, NEW surface \in Surfaces, NEW u \in Users,
               NEW p \in Platforms, P!requirePrincipal(e, surface, u, p)
        PROVE  Policy!Next
    BY <1>5, SameRequirePrincipal DEF Policy!Next
  <1>6. ASSUME NEW e \in Checks, P!CheckStep(e) PROVE Policy!Next
    BY <1>6, SameLookupUser, SameLookupGroup, SameLookupPlatform
       DEF Policy!Next, P!CheckStep, Policy!CheckStep
  <1>7. ASSUME P!Crash PROVE Policy!Next
    BY <1>7, SameCrash DEF Policy!Next
  <1> QED BY <1>2, <1>3, <1>4, <1>5, <1>6, <1>7 DEF P!Next

\* So are its initial states,
LEMMA SamePolicyInit == P!Init => Policy!Init
  BY DEF P!Init, Policy!Init, P!Idle, Policy!Idle, P!Decisions, Policy!Decisions,
         P!PolicyRow, Policy!PolicyRow, P!Modes, Policy!Modes, P!Subjects, Policy!Subjects

\* and its types.
LEMMA SamePolicyType == Policy!TypeOK => P!TypeOK
  BY DEF P!TypeOK, Policy!TypeOK, P!Idle, Policy!Idle, P!Decisions, Policy!Decisions,
         P!PolicyRow, Policy!PolicyRow, P!Modes, Policy!Modes, P!Subjects, Policy!Subjects,
         P!AuditEvent, Policy!AuditEvent, P!Verdict, Policy!Verdict

-----------------------------------------------------------------------------
(* The invariant.                                                          *)

\* The user and the client of an authorization.
PairOf(e) == <<authorize[e].user, authorize[e].params.client_id>>

\* A check under way is about the user and client of its authorization.
Linked ==
    \A e \in Authorizations : check[e].pc # "idle" =>
        /\ authorize[e] # NULL
        /\ check[e].surface = "oauth2" /\ check[e].user = authorize[e].user
        /\ check[e].platform = authorize[e].params.client_id

\* Who is allowed now, or was at an instant of a check, is permitted.
NowPermitted == \A pair \in Pairs : Allowed(pair[1], pair[2]) => pair \in permitted
SeenPermitted ==
    \A e \in Authorizations : authorize[e] # NULL =>
        \A v \in seen[e] : v.allowed => PairOf(e) \in permitted

NothingMissed == \A e \in Authorizations : blind[e] = {}

PartsInv == Grants!IInv /\ Policy!DecisionInv
AccessInv ==
    /\ Admitted /\ IdleSlots /\ PartsInv
    /\ permitted \subseteq Pairs /\ overtaken \subseteq Pairs
TraceInv == Linked /\ NowPermitted /\ SeenPermitted /\ NothingMissed /\ TokenTracesToPolicy

\* The invariants of the parts hold at the start of Access.
LEMMA PartsInit == Init => PartsInv
  BY GrantsAssumptions, PolicyAssumptions, SameGrantsInit, SamePolicyInit,
     Grants!InitIInv, Policy!InitDecision DEF Init, PartsInv

\* They are kept by whatever is a step of the parts.
LEMMA PartsStep ==
  ASSUME AccessInv, [Next]_vars
  PROVE  PartsInv' /\ [Grants!Next]_Grants!vars /\ [Policy!Next]_Policy!vars
  <1>1. Grants!TypeOK /\ Policy!TypeOK
    BY DEF AccessInv, PartsInv, Grants!IInv, Policy!DecisionInv
  <1>2. [Grants!Next]_Grants!vars
    BY <1>1, StepOfGrants, SameGrants DEF AccessInv, Grants!TypeOK
  <1>3. [Policy!Next]_Policy!vars
    BY <1>1, StepOfPolicy, SamePolicy
  <1>4. Grants!IInv'
    BY <1>2, GrantsAssumptions, Grants!IInvStep DEF AccessInv, PartsInv
  <1>5. Policy!DecisionInv'
    BY <1>3, PolicyAssumptions, Policy!NextDecision DEF AccessInv, PartsInv
  <1> QED BY <1>2, <1>3, <1>4, <1>5 DEF PartsInv

\* A free slot of the token endpoint still holds nothing after a step.
LEMMA IdleSlotsStep ==
  ASSUME IdleSlots, request \in [Requests -> Grants!RequestState], [G!Next]_G!vars
  PROVE  IdleSlots'
  <1>1. ASSUME NEW r \in Requests, NEW s, NEW o, G!Hold(r, s, o) PROVE IdleSlots'
    BY <1>1 DEF IdleSlots, G!Hold
  <1>2. ASSUME NEW r \in Requests, G!issueJWT(r) PROVE IdleSlots'
    <2>1. PICK q \in Grants!RequestState : q = request[r]
      OBVIOUS
    <2>2. request' = [request EXCEPT ![r] = [q EXCEPT !.pc = "access",
                                                      !.exp = now + AccessTTL]]
      BY <1>2, <2>1 DEF G!issueJWT
    <2> QED BY <2>2 DEF IdleSlots, Grants!RequestState
  <1>3. ASSUME NEW r \in Requests, G!CreateAccessToken(r) PROVE IdleSlots'
    <2>1. PICK q \in Grants!RequestState : q = request[r]
      OBVIOUS
    <2>2. PICK a \in AccessIds, outcome \in G!Outcomes :
            request' = [request EXCEPT ![r] =
                          IF G!Reported(outcome)
                          THEN [q EXCEPT !.pc = "refresh", !.access = a] ELSE G!Idle]
      BY <1>3, <2>1 DEF G!CreateAccessToken
    <2> QED BY <2>2 DEF IdleSlots, Grants!RequestState
  <1>4. ASSUME NEW r \in Requests, G!CreateRefreshToken(r) PROVE IdleSlots'
    BY <1>4 DEF IdleSlots, G!CreateRefreshToken
  <1>5. ASSUME G!Crash PROVE IdleSlots'
    BY <1>5 DEF IdleSlots, G!Crash
  <1>6. CASE UNCHANGED request
    BY <1>6 DEF IdleSlots
  <1>7. ASSUME NEW r \in Requests, G!HandlerStep(r) PROVE IdleSlots'
    BY <1>2, <1>3, <1>4, <1>7 DEF G!HandlerStep, G!ConsumeCode, G!RevokeOldRefresh
  <1>8. ASSUME NEW r \in Requests, NEW cl, NEW secret, NEW s,
               \/ \E redirect, verifier : G!ReadCode(r, cl, secret, s, redirect, verifier)
               \/ G!ReadRefresh(r, cl, secret, s)
        PROVE  IdleSlots'
    BY <1>1, <1>8 DEF G!ReadCode, G!ReadRefresh
  <1> QED
    BY <1>5, <1>6, <1>7, <1>8
       DEF G!Next, G!vars, G!AuthorizeOAuth2Client, G!ExchangeClientCredentials,
           G!RevokeAccessToken, G!RevokeRefreshToken, G!Tick

\* An authorization is in order when it begins and unchanged until it ends.
LEMMA AdmittedStep ==
  ASSUME Admitted, [Next]_vars
  PROVE  Admitted'
  <1>1. ASSUME NEW e \in Authorizations, NEW u \in Users, NEW params \in Parameters,
               Begin(e, u, params)
        PROVE  Admitted'
    <2>1. PICK q \in Authorization : q = [user |-> u, params |-> params]
      BY DEF Authorization
    <2>2. authorize' = [authorize EXCEPT ![e] = q] /\ q.params = params
      BY <1>1, <2>1 DEF Begin
    <2> QED BY <1>1, <2>2 DEF Admitted, Begin
  <1>2. ASSUME NEW e \in Authorizations, Finish(e) PROVE Admitted'
    BY <1>2 DEF Finish, Admitted
  <1>3. CASE Crash
    BY <1>3 DEF Crash, Admitted
  <1>4. CASE UNCHANGED authorize
    BY <1>4 DEF Admitted
  <1> QED
    BY <1>1, <1>2, <1>3, <1>4 DEF Next, vars, Decide, Reject, Issue, Administer, Exchange

\* The histories name pairs.
LEMMA PairsStep ==
  ASSUME Admitted, permitted \subseteq Pairs, overtaken \subseteq Pairs, [Next]_vars
  PROVE  permitted' \subseteq Pairs /\ overtaken' \subseteq Pairs
         /\ permitted \subseteq permitted' /\ overtaken \subseteq overtaken'
  <1>1. ASSUME NEW e \in Authorizations, Issue(e)
        PROVE  overtaken' \subseteq Pairs /\ permitted' = permitted
               /\ overtaken \subseteq overtaken'
    <2>1. authorize[e] # NULL
      BY <1>1 DEF Issue, Decided
    <2>2. <<authorize[e].user, authorize[e].params.client_id>> \in Pairs
      BY <2>1, AdmittedRequest DEF Pairs
    <2> QED BY <1>1, <2>2 DEF Issue, Finish
  <1>2. CASE Administer
    BY <1>2 DEF Administer
  <1> QED
    BY <1>1, <1>2 DEF Next, vars, Begin, Decide, Reject, Finish, Exchange, Crash

\* The invariant is preserved.
LEMMA AccessStep == AccessInv /\ [Next]_vars => AccessInv'
  <1> SUFFICES ASSUME AccessInv, [Next]_vars PROVE AccessInv'
    OBVIOUS
  <1>1. request \in [Requests -> Grants!RequestState]
    BY DEF AccessInv, PartsInv, Grants!IInv, Grants!TypeOK
  <1>2. IdleSlots'
    BY <1>1, StepOfGrants, IdleSlotsStep DEF AccessInv
  <1> QED BY <1>2, AdmittedStep, PairsStep, PartsStep DEF AccessInv

\* It holds at the start.
LEMMA AccessInit == Init => AccessInv
  <1> SUFFICES ASSUME Init PROVE AccessInv
    OBVIOUS
  <1>1. Admitted /\ permitted \subseteq Pairs /\ overtaken \subseteq Pairs
    BY DEF Init, Admitted
  <1>2. IdleSlots
    BY DEF Init, IdleSlots, G!Init
  <1> QED BY <1>1, <1>2, PartsInit DEF AccessInv

\* It holds in every reachable state.
LEMMA AccessInvariant == Spec => []AccessInv
  BY AccessInit, AccessStep, PTL DEF Spec

\* All the handler does before it stores a code, its lookups, checks and
\* faults, does to the tables what the one step of OAuthGrants does.
THEOREM GrantsImplemented == Spec => ImplementsGrants
  <1>1. Init => G!Init
    BY DEF Init
  <1>2. AccessInv /\ [Next]_vars => [G!Next]_G!vars
    BY StepOfGrants DEF AccessInv, PartsInv, Grants!IInv, Grants!TypeOK
  <1> QED BY <1>1, <1>2, AccessInvariant, PTL DEF Spec, ImplementsGrants, G!Spec

\* What it does to the policy, and what administrators do, is PolicyService.
THEOREM PolicyImplemented == Spec => P!Spec
  <1>1. Init => P!Init
    BY DEF Init
  <1>2. AccessInv /\ [Next]_vars => [P!Next]_P!vars
    BY StepOfPolicy DEF AccessInv, PartsInv, Policy!DecisionInv
  <1> QED BY <1>1, <1>2, AccessInvariant, PTL DEF Spec, P!Spec

\* The tables, the local variables and the histories of the whole are well typed.
THEOREM TypeCorrect == Spec => []TypeOK
  <1>1. AccessInv => TypeOK
    BY SameGrantsType, SamePolicyType
       DEF AccessInv, PartsInv, Grants!IInv, Policy!DecisionInv, Admitted, TypeOK
  <1> QED BY <1>1, AccessInvariant, PTL

-----------------------------------------------------------------------------
(* From a verdict to a token.                                              *)

\* A check under way, and what a step of its own makes of it.
LEMMA CheckSteps ==
  ASSUME Policy!TypeOK, NEW e \in Authorizations, P!CheckStep(e), NEW d \in Authorizations,
         check'[d].pc # "idle"
  PROVE  /\ check[d].pc # "idle"
         /\ check'[d].surface = check[d].surface /\ check'[d].user = check[d].user
         /\ check'[d].platform = check[d].platform
  <1>1. check \in [Checks -> {Policy!Idle} \cup Policy!Running]
    BY DEF Policy!TypeOK, Policy!Running
  <1>2. check[e].pc # "idle" /\ check[e] \in Policy!Running
    BY <1>1 DEF P!CheckStep, P!LookupUser, P!LookupGroup, P!LookupPlatform,
                Policy!Idle, Checks
  <1>3. PICK q \in Policy!Running : q = check[e]
    BY <1>2
  <1>4. CASE check' = [check EXCEPT ![e] = P!Idle]
    BY <1>1, <1>4 DEF P!Idle, Checks
  <1>5. CASE check' = [check EXCEPT ![e].pc = "group"]
    <2>1. check' = [check EXCEPT ![e] = [q EXCEPT !.pc = "group"]]
      BY <1>3, <1>5
    <2> QED BY <1>1, <1>2, <1>3, <2>1 DEF Policy!Running, Checks
  <1>6. CASE check' = [check EXCEPT ![e].groups = P!RestOf(check[e].groups)]
    <2>1. check' = [check EXCEPT ![e] = [q EXCEPT !.groups = P!RestOf(q.groups)]]
      BY <1>3, <1>6
    <2> QED BY <1>1, <1>2, <1>3, <2>1 DEF Policy!Running, Checks
  <1> QED
    BY <1>4, <1>5, <1>6
       DEF P!CheckStep, P!LookupUser, P!LookupGroup, P!LookupPlatform, P!Answer

\* While a check is under way its authorization is, too.
LEMMA LinkedStep ==
  ASSUME AccessInv, Linked, [Next]_vars
  PROVE  Linked'
  <1>1. /\ Policy!TypeOK /\ Policy!AnsweredIsIdle
        /\ check \in [Checks -> {Policy!Idle} \cup Policy!Running]
        /\ authorize \in [Authorizations -> Authorization \cup {NULL}]
    BY DEF AccessInv, PartsInv, Policy!DecisionInv, Policy!ReadInv, Policy!TypeOK,
           Policy!Running, Admitted
  <1>2. ASSUME NEW e \in Authorizations, NEW u \in Users, NEW params \in Parameters,
               Begin(e, u, params)
        PROVE  Linked'
    <2>1. PICK q \in Authorization : q = [user |-> u, params |-> params]
      BY DEF Authorization
    <2>2. q # NULL /\ q.user = u /\ q.params = params
      BY <2>1, AccessAssumption
    <2>3. authorize' = [authorize EXCEPT ![e] = q]
      BY <1>2, <2>1 DEF Begin
    <2>4. PICK groups :
            check' = [check EXCEPT ![e] =
                        [pc |-> "user", surface |-> "oauth2", user |-> u,
                         platform |-> params.client_id, groups |-> groups]]
      BY <1>2 DEF Begin, P!requirePrincipal
    <2> QED BY <1>1, <2>2, <2>3, <2>4 DEF Linked, Checks
  <1>3. ASSUME NEW e \in Authorizations, Decide(e) PROVE Linked'
    BY <1>1, <1>3, CheckSteps DEF Decide, Linked
  <1>4. ASSUME NEW e \in Authorizations, Decided(e), Finish(e) PROVE Linked'
    <2>1. check[e].pc = "idle" /\ check' = check
      BY <1>1, <1>4 DEF Decided, Finish, policyVars, Policy!AnsweredIsIdle,
                        Policy!Active, Checks
    <2> QED BY <1>1, <1>4, <2>1 DEF Finish, Linked
  <1>5. CASE Administer
    BY <1>5 DEF Administer, P!putPlatformPolicy, P!putOverride, P!audit, P!Observed,
                P!checkVars, Linked
  <1>6. CASE Crash
    BY <1>6 DEF Crash, Linked, P!Idle
  <1>7. CASE Exchange \/ UNCHANGED vars
    BY <1>7 DEF Exchange, vars, policyVars, Linked
  <1> QED
    BY <1>2, <1>3, <1>4, <1>5, <1>6, <1>7 DEF Next, Reject, Issue

\* The tables change only by a request of an administrator.
LEMMA TablesStay ==
  ASSUME [Next]_vars
  PROVE  Administer \/ UNCHANGED <<overrides, policies>>
  <1> DEFINE Same == UNCHANGED <<overrides, policies>>
  <1>1. ASSUME NEW e, NEW u, NEW params, Begin(e, u, params) PROVE Same
    BY <1>1 DEF Begin, P!requirePrincipal
  <1>2. ASSUME NEW e, Decide(e) PROVE Same
    BY <1>2 DEF Decide, P!CheckStep, P!LookupUser, P!LookupGroup, P!LookupPlatform
  <1>3. ASSUME NEW e, Reject(e) \/ Issue(e) PROVE Same
    BY <1>3 DEF Reject, Issue, Finish, policyVars
  <1>4. CASE Exchange \/ Crash \/ UNCHANGED vars
    BY <1>4 DEF Exchange, Crash, vars, policyVars
  <1> QED BY <1>1, <1>2, <1>3, <1>4 DEF Next

\* As soon as the tables allow a pair, it counts as permitted.
LEMMA NowPermittedStep ==
  ASSUME AccessInv, NowPermitted, [Next]_vars
  PROVE  NowPermitted'
  <1>1. CASE Administer
    BY <1>1 DEF Administer, NowPermitted, Pairs
  <1>2. CASE UNCHANGED <<overrides, policies>>
    <2>1. \A u, cl : Allowed(u, cl)' = Allowed(u, cl)
      BY <1>2 DEF Allowed, P!DecisionNow, P!GetSubjectPolicyOverride, P!GetPlatformPolicy
    <2>2. permitted \subseteq permitted'
      BY PairsStep DEF AccessInv
    <2> QED BY <2>1, <2>2 DEF NowPermitted, Pairs
  <1> QED BY <1>1, <1>2, TablesStay

\* Whom a check met as allowed, at whatever instant, is permitted.
LEMMA SeenPermittedStep ==
  ASSUME AccessInv, Linked, NowPermitted, NowPermitted', SeenPermitted, [Next]_vars
  PROVE  SeenPermitted'
  <1>1. /\ authorize \in [Authorizations -> Authorization \cup {NULL}]
        /\ seen \in [Authorizations -> SUBSET Policy!Verdict]
        /\ permitted \subseteq permitted'
    BY PairsStep DEF AccessInv, PartsInv, Policy!DecisionInv, Policy!TypeOK, Admitted, Checks
  <1>2. ASSUME NEW e \in Authorizations, NEW u \in Users, NEW params \in Parameters,
               Begin(e, u, params)
        PROVE  SeenPermitted'
    <2>1. PICK q \in Authorization : q = [user |-> u, params |-> params]
      BY DEF Authorization
    <2>2. authorize' = [authorize EXCEPT ![e] = q] /\ q.user = u /\ q.params = params
      BY <1>2, <2>1 DEF Begin
    <2>3. seen' = [seen EXCEPT ![e] = {P!DecisionNow("oauth2", u, params.client_id)}]
      BY <1>2 DEF Begin, P!requirePrincipal
    <2>4. P!DecisionNow("oauth2", u, params.client_id).allowed
          => <<u, params.client_id>> \in permitted
      <3>1. params.client_id \in Clients
        BY <1>2, BoundParameters DEF Begin
      <3> QED BY <3>1 DEF NowPermitted, Allowed, Pairs
    <2>5. permitted' = permitted
      BY <1>2 DEF Begin
    <2> QED BY <1>1, <2>2, <2>3, <2>4, <2>5 DEF SeenPermitted, PairOf
  <1>3. CASE Administer
    <2>1. SUFFICES ASSUME NEW e \in Authorizations, authorize[e] # NULL,
                          NEW v \in seen'[e], v.allowed
                   PROVE  PairOf(e) \in permitted'
      BY <1>3 DEF Administer, SeenPermitted, PairOf
    <2>2. CASE v \in seen[e]
      BY <1>1, <2>1, <2>2 DEF SeenPermitted
    <2>3. CASE v \notin seen[e]
      <3>1. P!Observed
        BY <1>3, <2>1, <2>3 DEF Administer, P!putPlatformPolicy, P!putOverride, P!audit,
                                P!checkVars
      <3>2. /\ check[e].pc # "idle" /\ check' = check
            /\ v = P!DecisionNow(check[e].surface, check[e].user, check[e].platform)'
        BY <2>1, <2>3, <3>1 DEF P!Observed, Checks
      <3>3. PICK q \in Authorization :
               q = authorize[e] /\ q.user \in Users /\ q.params.client_id \in Clients
        BY <2>1, AdmittedRequest DEF AccessInv
      <3>4. v = P!DecisionNow("oauth2", q.user, q.params.client_id)'
        BY <3>2, <3>3 DEF Linked
      <3>5. Allowed(q.user, q.params.client_id)'
        BY <2>1, <3>4 DEF Allowed
      <3>6. <<q.user, q.params.client_id>> \in permitted'
        BY <3>3, <3>5 DEF NowPermitted, Pairs
      <3> QED BY <3>3, <3>6 DEF PairOf
    <2> QED BY <2>2, <2>3
  <1>4. ASSUME NEW e \in Authorizations, Finish(e) PROVE SeenPermitted'
    BY <1>1, <1>4 DEF Finish, policyVars, SeenPermitted, PairOf
  <1>5. CASE Crash
    BY <1>5 DEF Crash, SeenPermitted
  <1>6. CASE UNCHANGED <<authorize, seen, permitted>>
    BY <1>6 DEF SeenPermitted, PairOf
  <1> QED
    BY <1>2, <1>3, <1>4, <1>5, <1>6
       DEF Next, vars, policyVars, Decide, P!CheckStep, P!LookupUser, P!LookupGroup,
           P!LookupPlatform, Reject, Issue, Exchange

\* A lookup that cannot fail does not count as a row that is not there.
LEMMA NothingMissedStep ==
  ASSUME "unread" \notin Faults, AccessInv, NothingMissed, [Next]_vars
  PROVE  NothingMissed'
  <1>1. /\ P!Lookups = {"ok"}
        /\ blind \in [Authorizations -> SUBSET {"groups", "user", "group", "platform"}]
    BY DEF P!Lookups, AccessInv, PartsInv, Policy!DecisionInv, Policy!TypeOK, Checks
  <1>2. ASSUME NEW e \in Authorizations, NEW u, NEW p, P!requirePrincipal(e, "oauth2", u, p)
        PROVE  NothingMissed'
    BY <1>1, <1>2 DEF P!requirePrincipal, NothingMissed
  <1>3. ASSUME NEW e \in Authorizations, P!CheckStep(e) PROVE UNCHANGED blind
    BY <1>1, <1>3 DEF P!CheckStep, P!LookupUser, P!LookupGroup, P!LookupPlatform
  <1>4. CASE Administer
    BY <1>4 DEF Administer, P!putPlatformPolicy, P!putOverride, P!audit, P!Observed,
                P!checkVars, NothingMissed
  <1>5. CASE UNCHANGED blind
    BY <1>5 DEF NothingMissed
  <1> QED
    BY <1>2, <1>3, <1>4, <1>5
       DEF Next, vars, policyVars, Begin, Decide, Reject, Issue, Finish, Exchange, Crash

\* The code that is stored is for someone entitled to it.
LEMMA IssueIsEntitled ==
  ASSUME AccessInv, SeenPermitted, NothingMissed, NEW e \in Authorizations, Issue(e)
  PROVE  PairOf(e) \in permitted' \cup overtaken'
  <1>1. /\ Policy!VerdictHeldAtSomeInstant
        /\ authorize[e] # NULL /\ response[e] # NULL /\ response[e].verdict.allowed
        /\ permitted' = permitted
    BY DEF AccessInv, PartsInv, Policy!DecisionInv, Issue, Decided, Permitted, Finish
  <1>2. CASE moved[e] <= 1
    <2>1. response[e].verdict \in seen[e]
      BY <1>1, <1>2 DEF Policy!VerdictHeldAtSomeInstant, NothingMissed, Checks
    <2> QED BY <1>1, <2>1 DEF SeenPermitted
  <1>3. CASE ~ (moved[e] <= 1)
    BY <1>3 DEF Issue, PairOf
  <1> QED BY <1>2, <1>3

\* A row of oauth_authorization_codes that is new was stored by Issue.
LEMMA NewCode ==
  ASSUME AccessInv, [Next]_vars, NEW c \in CodeIds, codes[c] = NULL, codes'[c] # NULL
  PROVE  \E e \in Authorizations :
           Issue(e) /\ codes'[c].owner.user = authorize[e].user
                    /\ codes'[c].owner.client = authorize[e].params.client_id
  <1>1. Grants!TypeOK /\ Grants!LocalsAgree
    BY DEF AccessInv, PartsInv, Grants!IInv
  <1>2. ASSUME NEW r \in Requests, G!ConsumeCode(r) PROVE FALSE
    <2>1. request[r].source \in CodeIds /\ codes[request[r].source] # NULL
      BY <1>1, <1>2 DEF G!ConsumeCode, Grants!LocalsAgree, Grants!LocalsOf, Grants!Running,
                        Grants!SourceRow
    <2> QED BY <1>2, <2>1 DEF G!ConsumeCode, G!ConsumeOAuthAuthorizationCode
  <1>3. ASSUME Exchange PROVE FALSE
    BY <1>2, <1>3
       DEF Exchange, G!ReadCode, G!ReadRefresh, G!HandlerStep, G!RevokeOldRefresh,
           G!CreateAccessToken, G!CreateRefreshToken, G!RevokeAccessToken,
           G!RevokeRefreshToken, G!Tick
  <1>4. PICK e \in Authorizations : Issue(e)
    BY <1>3 DEF Next, vars, grantVars, Begin, Decide, Reject, Administer, Crash
  <1>5. PICK d \in CodeIds :
          codes' = G!CreateOAuthAuthorizationCode(d,
              [owner |-> [client |-> authorize[e].params.client_id,
                          user |-> authorize[e].user,
                          scope |-> authorize[e].params.scope],
               redirect |-> authorize[e].params.redirect_uri,
               challenge |-> authorize[e].params.code_challenge,
               expires |-> now + CodeTTL, consumed |-> G!NoTime])
    BY <1>4 DEF Issue
  <1>6. codes \in [CodeIds -> Grants!CodeRow \cup {NULL}]
    BY <1>1 DEF Grants!TypeOK
  <1>7. c = d
    BY <1>5 DEF G!CreateOAuthAuthorizationCode
  <1> QED BY <1>4, <1>5, <1>6, <1>7 DEF G!CreateOAuthAuthorizationCode

\* A row of oauth_access_tokens that is new has the owner of a code or of
\* another access token.
LEMMA NewAccess ==
  ASSUME AccessInv, [Next]_vars, NEW a \in AccessIds, access[a] = NULL, access'[a] # NULL
  PROVE  \/ \E c \in CodeIds : codes[c] # NULL /\ access'[a].owner = codes[c].owner
         \/ \E b \in AccessIds : access[b] # NULL /\ access'[a].owner = access[b].owner
  <1>1. Grants!TypeOK /\ Grants!LocalsAgree /\ Grants!OwnerPreserved
    BY DEF AccessInv, PartsInv, Grants!IInv
  <1>2. ASSUME NEW b \in AccessIds, G!RevokeAccessToken(b) PROVE FALSE
    BY <1>1, <1>2 DEF G!RevokeAccessToken, G!RevokeOAuthAccessTokenByHash, Grants!TypeOK
  <1>3. PICK r \in Requests : G!CreateAccessToken(r)
    <2>1. Exchange
      BY DEF Next, vars, grantVars, Begin, Decide, Reject, Issue, Finish, Administer, Crash
    <2> QED
      BY <1>2, <2>1
         DEF Exchange, G!ReadCode, G!ReadRefresh, G!HandlerStep, G!ConsumeCode,
             G!RevokeOldRefresh, G!CreateRefreshToken, G!RevokeRefreshToken, G!Tick
  <1>4. PICK b \in AccessIds :
          access' = G!CreateOAuthAccessToken(b,
              [owner |-> request[r].owner, expires |-> request[r].exp,
               revoked |-> G!NoTime])
    BY <1>3 DEF G!CreateAccessToken
  <1>5. access'[a].owner = request[r].owner
    <2>1. access \in [AccessIds -> Grants!AccessRow \cup {NULL}]
      BY <1>1 DEF Grants!TypeOK
    <2>2. a = b
      BY <1>4 DEF G!CreateOAuthAccessToken
    <2> QED BY <1>4, <2>1, <2>2 DEF G!CreateOAuthAccessToken
  <1>6. PICK s \in Grants!Sources :
          /\ s = request[r].source /\ Grants!SourceRow(s) # NULL
          /\ request[r].owner = Grants!SourceRow(s).owner
    <2>1. Grants!LocalsOf(r) /\ request[r] \in Grants!RequestState
      BY <1>1, <1>3 DEF G!CreateAccessToken, Grants!LocalsAgree, Grants!Running, Grants!TypeOK
    <2> QED BY <2>1 DEF Grants!LocalsOf, Grants!RequestState
  <1>7. CASE s \in CodeIds
    BY <1>5, <1>6, <1>7 DEF Grants!SourceRow
  <1>8. CASE s \notin CodeIds
    <2>1. s \in RefreshIds /\ refresh[s] # NULL /\ request[r].owner = refresh[s].owner
      BY <1>6, <1>8 DEF Grants!SourceRow, Grants!Sources
    <2>2. PICK b2 \in AccessIds : b2 = refresh[s].access
      BY <1>1, <2>1 DEF Grants!TypeOK, Grants!RefreshRow
    <2>3. access[b2] # NULL /\ refresh[s].owner = access[b2].owner
      BY <1>1, <2>1, <2>2 DEF Grants!OwnerPreserved
    <2> QED BY <1>5, <2>1, <2>3
  <1> QED BY <1>7, <1>8

\* Whoever is entitled stays so: the histories only grow.
LEMMA StaysEntitled ==
  ASSUME AccessInv, [Next]_vars, NEW owner, Entitled(owner)
  PROVE  <<owner.user, owner.client>> \in permitted' \cup overtaken'
  BY PairsStep DEF AccessInv, Entitled

\* A step stores codes and tokens only for those entitled to them.
LEMMA TokenStep ==
  ASSUME AccessInv, SeenPermitted, NothingMissed, TokenTracesToPolicy, [Next]_vars
  PROVE  TokenTracesToPolicy'
  <1>1. /\ Grants!IInv /\ Grants!TypeOK /\ Grants!LocalsAgree /\ [Grants!Next]_Grants!vars
        /\ Grants!ConstantsAssumption /\ Grants!KeysAssumption
    BY PartsStep, GrantsAssumptions DEF AccessInv, PartsInv, Grants!IInv
  <1>2. ASSUME NEW c \in CodeIds, codes'[c] # NULL
        PROVE  <<codes'[c].owner.user, codes'[c].owner.client>> \in permitted' \cup overtaken'
    <2>1. CASE codes[c] # NULL
      <3>1. codes'[c].owner = codes[c].owner
        BY <1>1, <2>1, Grants!CodesOnlyClose
      <3> QED BY <2>1, <3>1, StaysEntitled DEF TokenTracesToPolicy
    <2>2. CASE codes[c] = NULL
      BY <1>2, <2>2, NewCode, IssueIsEntitled DEF PairOf
    <2> QED BY <2>1, <2>2
  <1>3. ASSUME NEW a \in AccessIds, access'[a] # NULL
        PROVE  <<access'[a].owner.user, access'[a].owner.client>> \in permitted' \cup overtaken'
    <2>1. CASE access[a] # NULL
      <3>1. access'[a].owner = access[a].owner
        BY <1>1, <2>1, Grants!AccessStays
      <3> QED BY <2>1, <3>1, StaysEntitled DEF TokenTracesToPolicy
    <2>2. CASE access[a] = NULL
      BY <1>3, <2>2, NewAccess, StaysEntitled DEF TokenTracesToPolicy
    <2> QED BY <2>1, <2>2
  <1> QED BY <1>2, <1>3 DEF TokenTracesToPolicy, Entitled

\* The way from the verdict to the token holds at the start.
LEMMA TraceInit == Init => TraceInv
  <1> SUFFICES ASSUME Init PROVE TraceInv
    OBVIOUS
  <1>1. Linked /\ SeenPermitted /\ NothingMissed
    BY DEF Init, P!Init, P!Idle, Linked, SeenPermitted, NothingMissed, Checks
  <1>2. NowPermitted /\ TokenTracesToPolicy
    BY DEF Init, G!Init, NowPermitted, TokenTracesToPolicy
  <1> QED BY <1>1, <1>2 DEF TraceInv

\* The way from the verdict to the token holds throughout.
LEMMA TraceInvariant ==
  ASSUME "unread" \notin Faults
  PROVE  Spec => []TraceInv
  <1>1. AccessInv /\ TraceInv /\ [Next]_vars => TraceInv'
    BY LinkedStep, NowPermittedStep, SeenPermittedStep, NothingMissedStep, TokenStep
       DEF TraceInv
  <1> QED BY <1>1, TraceInit, AccessInvariant, PTL DEF Spec

\* No code and no token is for a pair that was never permitted, unless two
\* changes of the policy overtook the check of its authorization.
THEOREM TokensTraceToPolicy ==
  ASSUME "unread" \notin Faults
  PROVE  Spec => []TokenTracesToPolicy
  <1>1. TraceInv => TokenTracesToPolicy
    BY DEF TraceInv
  <1> QED BY <1>1, TraceInvariant, PTL

\* An authorization that ends with a code was issued it on the verdict of its own
\* check, which some instant of that check gave.
LEMMA IssueFollowsVerdict ==
  ASSUME AccessInv, NothingMissed, NEW e \in Authorizations, Issue(e), moved[e] <= 1
  PROVE  \E verdict \in seen[e] : verdict.allowed
  <1>1. /\ Policy!VerdictHeldAtSomeInstant
        /\ response[e] # NULL /\ response[e].verdict.allowed
    BY DEF AccessInv, PartsInv, Policy!DecisionInv, Issue, Decided, Permitted
  <1>2. response[e].verdict \in seen[e]
    BY <1>1 DEF Policy!VerdictHeldAtSomeInstant, NothingMissed, Checks
  <1> QED BY <1>1, <1>2

\* A code is stored only if the policy allowed its user in at some instant of its own
\* authorization's check, unless two changes overtook that check.
THEOREM CodesFollowVerdicts ==
  ASSUME "unread" \notin Faults
  PROVE  Spec => CodesFollowTheirVerdict
  <1>1. ASSUME AccessInv, NothingMissed, [Next]_vars, NEW e \in Authorizations,
               codes' # codes, authorize[e] # NULL, authorize'[e] = NULL
        PROVE  moved[e] > 1 \/ \E verdict \in seen[e] : verdict.allowed
    <2>1. PICK d \in Authorizations : Issue(d)
      BY <1>1 DEF Next, vars, grantVars, Begin, Decide, Reject, Administer, Exchange, Crash
    <2>2. d = e
      <3>1. authorize \in [Authorizations -> Authorization \cup {NULL}]
        BY <1>1 DEF AccessInv, Admitted
      <3> QED BY <1>1, <2>1, <3>1 DEF Issue, Finish
    <2>3. moved[e] \in Nat
      BY <1>1 DEF AccessInv, PartsInv, Policy!DecisionInv, Policy!TypeOK, Checks
    <2> QED BY <1>1, <2>1, <2>2, <2>3, IssueFollowsVerdict
  <1>2. AccessInv /\ NothingMissed /\ [Next]_vars =>
          (\A e \in Authorizations :
             codes' # codes /\ authorize[e] # NULL /\ authorize'[e] = NULL
             => moved[e] > 1 \/ \E verdict \in seen[e] : verdict.allowed)
    BY <1>1
  <1>3. TraceInv => NothingMissed
    BY DEF TraceInv
  <1> QED
    BY <1>2, <1>3, AccessInvariant, TraceInvariant, PTL DEF Spec, CodesFollowTheirVerdict

-----------------------------------------------------------------------------
(* While the policy changes at most once, the exception is empty.          *)

\* No check has met more changes than there were, and it takes two of them to
\* overtake it.
FewChanges ==
    /\ changes <= MaxChanges
    /\ \A e \in Authorizations : moved[e] <= changes
    /\ MaxChanges <= 1 => overtaken = {}

\* Every change that a check meets is counted.
LEMMA FewChangesStep ==
  ASSUME AccessInv, FewChanges, [Next]_vars
  PROVE  FewChanges'
  <1>1. /\ changes \in Nat /\ MaxChanges \in Nat
        /\ moved \in [Authorizations -> Nat]
    BY AccessAssumption
       DEF AccessInv, PartsInv, Policy!DecisionInv, Policy!TypeOK, Checks,
           P!PolicyAssumption
  <1>2. ASSUME NEW e \in Authorizations, NEW u, NEW p, P!requirePrincipal(e, "oauth2", u, p),
               UNCHANGED overtaken
        PROVE  FewChanges'
    BY <1>1, <1>2 DEF P!requirePrincipal, FewChanges, Checks
  <1>3. CASE Administer
    <2>1. ASSUME NEW a, NEW action, P!Committed(a, action), P!Observed PROVE FewChanges'
      <3>1. changes' = changes + 1 /\ changes' <= MaxChanges /\ overtaken' = overtaken
        BY <1>1, <1>3, <2>1 DEF P!Committed, Administer
      <3>2. \A e \in Authorizations : moved'[e] <= moved[e] + 1
        BY <1>1, <2>1 DEF P!Observed, Checks
      <3> QED BY <1>1, <2>1, <3>1, <3>2 DEF FewChanges, P!Observed, Checks
    <2>2. ASSUME NEW a, P!audit(a) PROVE FewChanges'
      BY <1>3, <2>2 DEF P!audit, P!checkVars, Administer, FewChanges
    <2> QED BY <1>3, <2>1, <2>2 DEF Administer, P!putPlatformPolicy, P!putOverride
  <1>4. ASSUME NEW e \in Authorizations, Issue(e) PROVE FewChanges'
    <2>1. MaxChanges <= 1 => moved[e] <= 1
      BY <1>1 DEF FewChanges
    <2> QED BY <1>4, <2>1 DEF Issue, Finish, policyVars, FewChanges
  <1>5. CASE UNCHANGED <<changes, moved, overtaken>>
    BY <1>5 DEF FewChanges
  <1> QED
    BY <1>2, <1>3, <1>4, <1>5
       DEF Next, vars, policyVars, Begin, Decide, P!CheckStep, P!LookupUser, P!LookupGroup,
           P!LookupPlatform, P!adminVars, Reject, Finish, Exchange, Crash

\* If no lookup fails and the policy changes at most once, no code and no token
\* is for a pair that the policy has at no time allowed.
THEOREM OneChangeNeverLetsIn ==
  ASSUME "unread" \notin Faults, MaxChanges <= 1
  PROVE  Spec => [](\A c \in CodeIds : codes[c] # NULL =>
                      <<codes[c].owner.user, codes[c].owner.client>> \in permitted)
                 /\ [](\A a \in AccessIds : access[a] # NULL =>
                      <<access[a].owner.user, access[a].owner.client>> \in permitted)
  <1>1. Init => FewChanges
    BY AccessAssumption DEF Init, P!Init, FewChanges, Checks, P!PolicyAssumption
  <1>2. FewChanges /\ TokenTracesToPolicy =>
          /\ \A c \in CodeIds : codes[c] # NULL =>
               <<codes[c].owner.user, codes[c].owner.client>> \in permitted
          /\ \A a \in AccessIds : access[a] # NULL =>
               <<access[a].owner.user, access[a].owner.client>> \in permitted
    BY DEF FewChanges, TokenTracesToPolicy, Entitled
  <1> QED
    BY <1>1, <1>2, FewChangesStep, TokensTraceToPolicy, AccessInvariant, PTL DEF Spec
=============================================================================
