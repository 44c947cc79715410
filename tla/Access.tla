------------------------------- MODULE Access -------------------------------
(***************************************************************************)
(* The way from a policy to a token.  GET /oauth2/authorize looks up its   *)
(* client and the caller, lets PolicyService decide, checks PKCE and       *)
(* stores a code, each by a statement of its own; the code is exchanged in *)
(* OAuthGrants, while administrators change the policy.  A client is the   *)
(* platform its policy is about.                                           *)
(***************************************************************************)
EXTENDS Integers, FiniteSets, Sequences, Statements

CONSTANTS
    Clients, Users, Scopes, Redirects, Verifiers, Challenges, Secrets,
    Registered, ClientSecret, RequirePkce, S256,
    CodeIds, AccessIds, RefreshIds, Requests,
    CodeTTL, AccessTTL, RefreshTTL, MaxTime,
    Groups, GroupsOf, Admins, MaxChanges,
    Authorizations,   \* requests to /oauth2/authorize at once
    NULL

Platforms == Clients
Surfaces == {"oauth2"}
Checks == Authorizations

VARIABLES
    codes, access, refresh, now, request, minted, delivered, acked,
    overrides, policies, check, put, changes, audited,
    response, seen, moved, blind,
    authorize,   \* the authorizations under way and their parameters
    permitted,   \* history: <<user, client>> pairs the policy ever allowed
    overtaken    \* history: pairs granted on a verdict that two changes overtook

G == INSTANCE OAuthGrants
P == INSTANCE PolicyService

grantVars == <<codes, access, refresh, now, request, minted, delivered, acked>>
policyVars == <<overrides, policies, check, put, changes, audited,
                response, seen, moved, blind>>
vars == <<grantVars, policyVars, authorize, permitted, overtaken>>

-----------------------------------------------------------------------------
(* The parameters of a request; one that is absent is NULL.                *)

Parameter(S) == S \cup {NULL}
Parameters ==
    [client_id : Parameter(Clients), redirect_uri : Parameter(Redirects),
     response_type : Parameter({"code"}), scope : Parameter(Scopes),
     state : Parameter({"state"}), code_challenge : Parameter(Challenges)]
Required == {"client_id", "redirect_uri", "response_type", "scope", "state"}
Authorization == [user : Users, params : Parameters]

ASSUME AccessAssumption ==
    /\ G!ConstantsAssumption /\ G!KeysAssumption /\ P!PolicyAssumption
    /\ NULL \notin Authorization

\* Mutated form of Bound: the scope is taken to be optional.
BoundButScope(params) == \A name \in Required \ {"scope"} : params[name] # NULL

\* The generated wrapper refuses a request that lacks a required parameter.
Bound(params) == \A name \in Required : params[name] # NULL

Allowed(u, cl) == P!DecisionNow("oauth2", u, cl).allowed
Pairs == Users \X Clients

Init ==
    /\ G!Init /\ P!Init
    /\ authorize = [e \in Authorizations |-> NULL]
    /\ permitted = {pair \in Pairs : Allowed(pair[1], pair[2])}
    /\ overtaken = {}

-----------------------------------------------------------------------------
\* Bound: authorizations begin only while keys remain for all of them.
CodeRoom == Cardinality({c \in CodeIds : codes[c] = NULL}) >
                Cardinality({e \in Authorizations : authorize[e] # NULL})

\* Client, redirect_uri and caller are in order: the decision begins.
Begin(e, u, params) ==
    /\ authorize[e] = NULL /\ CodeRoom
    /\ Bound(params)
    /\ params.redirect_uri \in Registered[params.client_id]
    /\ P!requirePrincipal(e, "oauth2", u, params.client_id)
    /\ authorize' = [authorize EXCEPT ![e] = [user |-> u, params |-> params]]
    /\ UNCHANGED <<grantVars, permitted, overtaken>>

Decide(e) ==
    /\ P!CheckStep(e)
    /\ UNCHANGED <<grantVars, authorize, permitted, overtaken>>

Decided(e) == authorize[e] # NULL /\ response[e] # NULL

\* Mutated forms of Permitted: only an override of the user stands in the way; a
\* user who was allowed once stays allowed.
NotDenied(e) == response[e].verdict.reason # "user_override_deny"
OnceAllowed(e) == <<authorize[e].user, authorize[e].params.client_id>> \in permitted

Permitted(e) == response[e].verdict.allowed

\* Mutated form of PkceInOrder: the challenge is left to the exchange.
PkceLater(e) == TRUE

PkceInOrder(e) ==
    LET params == authorize[e].params
    IN RequirePkce[params.client_id] => params.code_challenge # NULL

Finish(e) ==
    /\ authorize' = [authorize EXCEPT ![e] = NULL]
    /\ UNCHANGED <<access, refresh, now, request, minted, delivered, acked,
                   policyVars, permitted>>

\* 403 policy_denied, 400 pkce_required, or 500 code_store_failed.
Reject(e) ==
    /\ Decided(e)
    /\ ~ Permitted(e) \/ ~ PkceInOrder(e) \/ "failed" \in Outcomes
    /\ Finish(e)
    /\ UNCHANGED <<codes, overtaken>>

\* The INSERT of the code, and the redirect if its reply arrives.
Issue(e) ==
    /\ Decided(e) /\ Permitted(e) /\ PkceInOrder(e)
    /\ \E c \in CodeIds : LET params == authorize[e].params IN
         /\ codes[c] = NULL
         /\ codes' = G!CreateOAuthAuthorizationCode(c,
              [owner |-> [client |-> params.client_id, user |-> authorize[e].user,
                          scope |-> params.scope],
               redirect |-> params.redirect_uri, challenge |-> params.code_challenge,
               expires |-> now + CodeTTL, consumed |-> G!NoTime])
    /\ overtaken' = IF moved[e] <= 1 THEN overtaken
                    ELSE overtaken \cup {<<authorize[e].user, authorize[e].params.client_id>>}
    /\ Finish(e)

-----------------------------------------------------------------------------
(* The rest of the system.                                                 *)

\* A request of an administrator, whose change every user may come under.
Administer ==
    /\ \/ \E a \in Admins, p \in Clients, row \in P!PolicyRow :
            P!putPlatformPolicy(a, "oauth2", p, row)
       \/ \E a \in Admins, subject \in P!Subjects, p \in Clients, decision \in P!Decisions :
            P!putOverride(a, "oauth2", subject, p, decision)
       \/ \E a \in Admins : P!audit(a)
    /\ UNCHANGED <<grantVars, authorize, overtaken>>
    /\ permitted' = permitted \cup {pair \in Pairs : Allowed(pair[1], pair[2])'}

\* The token and revocation endpoints, and the clock.  Client credentials, whose
\* tokens belong to no user, are left out.
Exchange ==
    /\ \/ \E r \in Requests, cl \in Clients, secret \in Secrets, c \in CodeIds,
             redirect \in Redirects, verifier \in Parameter(Verifiers) :
            G!ReadCode(r, cl, secret, c, redirect, verifier)
       \/ \E r \in Requests, cl \in Clients, secret \in Secrets, f \in RefreshIds :
            G!ReadRefresh(r, cl, secret, f)
       \/ \E r \in Requests : G!HandlerStep(r)
       \/ \E a \in AccessIds : G!RevokeAccessToken(a)
       \/ \E f \in RefreshIds : G!RevokeRefreshToken(f)
       \/ G!Tick
    /\ UNCHANGED <<policyVars, authorize, permitted, overtaken>>

\* The process stops: every handler is gone, the tables are not.
Crash ==
    /\ "crash" \in Faults
    /\ \/ \E e \in Authorizations : authorize[e] # NULL
       \/ \E r \in Requests : G!Running(r)
       \/ \E a \in Admins : put[a] # NULL
    /\ authorize' = [e \in Authorizations |-> NULL]
    /\ request' = [r \in Requests |-> G!Idle]
    /\ put' = [a \in Admins |-> NULL]
    /\ check' = [e \in Authorizations |-> P!Idle]
    /\ UNCHANGED <<codes, access, refresh, now, minted, delivered, acked,
                   overrides, policies, changes, audited,
                   response, seen, moved, blind, permitted, overtaken>>

Next ==
    \/ \E e \in Authorizations, u \in Users, params \in Parameters : Begin(e, u, params)
    \/ \E e \in Authorizations : Decide(e) \/ Reject(e) \/ Issue(e)
    \/ Administer
    \/ Exchange
    \/ Crash

Spec == Init /\ [][Next]_vars

-----------------------------------------------------------------------------
(* Properties.                                                             *)

TypeOK ==
    /\ G!TypeOK /\ P!TypeOK
    /\ authorize \in [Authorizations -> Authorization \cup {NULL}]
    /\ permitted \subseteq Pairs /\ overtaken \subseteq Pairs

\* The handler, with all its lookups, checks and faults, does to the tables
\* what the single step of OAuthGrants does, and nothing else does more.
ImplementsGrants == G!Spec

\* Nobody holds a code or a token of a client that the policy has at no time
\* allowed to that user, although the verdict is put together from rows read
\* one by one while one of them changes, and is used some statements later;
\* provided that no lookup fails.  Two changes during one check are too many:
\* a deny set behind it and an allow set before it let through who was never in.
Entitled(owner) == <<owner.user, owner.client>> \in permitted \cup overtaken

TokenTracesToPolicy ==
    /\ \A c \in CodeIds : codes[c] # NULL => Entitled(codes[c].owner)
    /\ \A a \in AccessIds : access[a] # NULL => Entitled(access[a].owner)

\* A code is stored only on a verdict of its own request: at some instant between
\* the start of that request's check and the INSERT the policy allowed the user in,
\* whatever it said to earlier requests; provided that no lookup fails and at most
\* one change overtakes the check.
CodesFollowTheirVerdict ==
    [][\A e \in Authorizations :
         codes' # codes /\ authorize[e] # NULL /\ authorize'[e] = NULL
         => moved[e] > 1 \/ \E verdict \in seen[e] : verdict.allowed]_vars
=============================================================================
