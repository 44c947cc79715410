--------------------------- MODULE Authentication ---------------------------
(***************************************************************************)
(* Signing in to Orivis: registration, password login, the TOTP and        *)
(* passkey challenges, the start of a provider login, and the methods a    *)
(* signed-in user links and unlinks.                                       *)
(*                                                                         *)
(* As in OAuthGrants, an action is one SQL statement of one handler with   *)
(* the local code after it.  Lookups of rows that never change (users, and *)
(* the caller's own row) are folded into the statement that follows them.  *)
(* A handler that rejects its request before its first write stutters.     *)
(***************************************************************************)
EXTENDS Integers, FiniteSets, Statements

CONSTANTS
    Users,            \* accounts that can be registered
    Email, Username,  \* account -> the columns that must be unique
    Subjects,         \* credential ids and provider subjects a client can name
    ChallengeIds, SessionIds, MethodIds,   \* primary keys that can be drawn
    Requests,         \* handlers of several statements that can run at once
    ChallengeTTL, SessionTTL,
    MaxTime,          \* bound on the clock
    MaxSecrets,       \* bound on the TOTP enrolments of a run
    NULL

NoTime == -1
Timestamp == Nat \cup {NoTime}

ChallengeType == {"totp_login", "webauthn_login", "google_oauth"}
ChallengeRow == [type : ChallengeType, user : Users \cup {NULL},
                 expires : Nat, consumed : Timestamp]
SessionRow == [user : Users, expires : Nat]
MethodRow == [user : Users, type : {"password", "totp", "passkey", "oauth_google"},
              subject : Subjects \cup {NULL}]

\* History of a session: the challenge it answers, or NULL for the password
\* alone; when that challenge was read; whether the user had a second factor
\* when the password was checked; whose password that was.
Opening == [challenge : ChallengeIds \cup {NULL}, readAt : Timestamp,
            enrolled : BOOLEAN, password : Users \cup {NULL}]

ASSUME AuthenticationAssumption ==
    /\ Faults \subseteq FaultKinds
    /\ ChallengeTTL \in Nat /\ SessionTTL \in Nat
    /\ MaxTime \in Nat /\ MaxSecrets \in Nat
    /\ NULL \notin Users \cup Subjects \cup ChallengeIds
    /\ NULL \notin ChallengeRow /\ NULL \notin SessionRow
    /\ NULL \notin MethodRow /\ NULL \notin Opening

VARIABLES
    users,       \* users: the accounts registered
    methods,     \* user_auth_methods: key -> row, or NULL for no row
    totp,        \* totp_factors: user -> how often it was enrolled, 0 for no row
    credentials, \* webauthn_credentials: credential id -> its user
    challenges,  \* auth_challenges
    sessions,    \* sessions, with the expiry of the access token sent for it
    now,         \* the clock, which the server and the database share
    request,     \* the running handlers and their local variables
    opened,      \* history: session -> how it came about
    told,        \* history: the sessions whose token was sent
    shown        \* history: <<user, secret>> for each TOTP secret sent

tables == <<users, methods, totp, credentials, challenges, sessions>>
history == <<opened, told, shown>>
vars == <<tables, now, request, history>>

-----------------------------------------------------------------------------
\* A slot with no request in it.
Idle == [pc |-> "idle", user |-> NULL, challenge |-> NULL, readAt |-> NoTime,
         enrolled |-> FALSE, password |-> NULL, method |-> NULL, secret |-> 0]

\* pc names the SQL statement the handler executes next.
RequestState ==
    [pc : {"idle", "method", "factor", "challenge", "credential", "consume",
           "session"},
     user : Users \cup {NULL}, challenge : ChallengeIds \cup {NULL},
     readAt : Timestamp, enrolled : BOOLEAN, password : Users \cup {NULL},
     method : MethodRow \cup {NULL}, secret : Nat]

Running(r) == request[r].pc # "idle"
Goto(r, pc) == request' = [request EXCEPT ![r].pc = pc]
End(r) == request' = [request EXCEPT ![r] = Idle]

Init ==
    /\ users = {}
    /\ methods = [m \in MethodIds |-> NULL]
    /\ totp = [u \in Users |-> 0]
    /\ credentials = [id \in Subjects |-> NULL]
    /\ challenges = [c \in ChallengeIds |-> NULL]
    /\ sessions = [s \in SessionIds |-> NULL]
    /\ now = 0
    /\ request = [r \in Requests |-> Idle]
    /\ opened = [s \in SessionIds |-> NULL]
    /\ told = {} /\ shown = {}

-----------------------------------------------------------------------------
(* POST /v1/auth/register and POST /v1/auth/login/password.                *)

Taken(u) == \E v \in users : Email[v] = Email[u] \/ Username[v] = Username[u]

\* Mutated form of PasswordMethod: the type is the source given as metadata.
LocalMethod(u) == [user |-> u, type |-> "local", subject |-> NULL]

PasswordMethod(u) == [user |-> u, type |-> "password", subject |-> NULL]

\* The INSERT fails on the unique columns.
CreateUser(u) == ~ Taken(u) /\ users' = users \cup {u}

\* The account is there even when its INSERT is reported failed.
RegisterWithPassword(r, u) ==
    /\ ~ Running(r)
    /\ CreateUser(u)
    /\ \E outcome \in Outcomes \ {"failed"} :
         request' = [request EXCEPT ![r] =
             IF Reported(outcome)
             THEN [Idle EXCEPT !.pc = "method", !.user = u, !.password = u,
                               !.method = PasswordMethod(u)]
             ELSE Idle]
    /\ UNCHANGED <<methods, totp, credentials, challenges, sessions, now, history>>

Identifiers == {Email[u] : u \in Users} \cup {Username[u] : u \in Users}

\* One account's username may be another's email; which of the two rows is
\* returned is not specified.
GetUserByIdentifier(identifier) ==
    {u \in users : Email[u] = identifier \/ Username[u] = identifier}

\* A password is named by the account it was set for.
verifyPassword(password, u) == password = u

\* Mutated form of LoginWithPassword: the account is looked up again by its
\* identifier after the password was checked.
LoginReadsAgain(r, identifier, password) ==
    /\ ~ Running(r)
    /\ \E u, v \in GetUserByIdentifier(identifier) :
         /\ verifyPassword(password, u)
         /\ request' = [request EXCEPT ![r] =
              [Idle EXCEPT !.pc = "factor", !.user = v, !.password = password,
                           !.enrolled = totp[v] # 0]]
    /\ UNCHANGED <<tables, now, history>>

\* The password was right; the factor is looked up by the next statement.
LoginWithPassword(r, identifier, password) ==
    /\ ~ Running(r)
    /\ \E u \in GetUserByIdentifier(identifier) :
         /\ verifyPassword(password, u)
         /\ request' = [request EXCEPT ![r] =
              [Idle EXCEPT !.pc = "factor", !.user = u, !.password = password,
                           !.enrolled = totp[u] # 0]]
    /\ UNCHANGED <<tables, now, history>>

\* Mutated form of HasFactor: it asks the list of linked methods.
HasListedFactor(u) ==
    \E m \in MethodIds : methods[m] # NULL /\ methods[m].user = u
                                           /\ methods[m].type = "totp"

\* 0 for no row.
GetTotpFactorByUserID(u) == totp[u]

\* A row of totp_factors is enabled from the start and never deleted.
HasFactor(u) == GetTotpFactorByUserID(u) # 0

\* Every error of the lookup reads as no factor.
LookupFactor(r) ==
    /\ request[r].pc = "factor"
    /\ \E lookup \in Lookups :
         Goto(r, IF lookup = "ok" /\ HasFactor(request[r].user)
                 THEN "challenge" ELSE "session")
    /\ UNCHANGED <<tables, now, history>>

-----------------------------------------------------------------------------
(* Challenges.                                                             *)

Challenge(type, u, ttl) ==
    [type |-> type, user |-> u, expires |-> now + ttl, consumed |-> NoTime]

\* The INSERT of a row under a new key, and whether its error was nil.
createChallenge(row, c, outcome) ==
    /\ challenges[c] = NULL
    /\ challenges' = IF Applied(outcome) THEN [challenges EXCEPT ![c] = row]
                                         ELSE challenges

ChallengeTotp(r) ==
    /\ request[r].pc = "challenge"
    /\ \E c \in ChallengeIds, outcome \in Outcomes :
         createChallenge(Challenge("totp_login", request[r].user, ChallengeTTL),
                         c, outcome)
    /\ End(r)
    /\ UNCHANGED <<users, methods, totp, credentials, sessions, now, history>>

\* The id of the row is not part of the answer, whatever became of the INSERT.
GetWebAuthnChallengeOptions(u) ==
    /\ u \in users
    /\ \E c \in ChallengeIds :
         createChallenge(Challenge("webauthn_login", u, ChallengeTTL), c, "ok")
    /\ UNCHANGED <<users, methods, totp, credentials, sessions, now, request, history>>

\* RETURNING hands the NULL user_id to a Go string: the row is committed, the
\* scan fails, and the handler answers 500.  CompleteExternalProviderLogin
\* meets the same error on every such row, and so never gets past its lookup.
StartExternalProviderLogin ==
    /\ \E c \in ChallengeIds :
         createChallenge(Challenge("google_oauth", NULL, 2 * ChallengeTTL), c, "lost")
    /\ UNCHANGED <<users, methods, totp, credentials, sessions, now, request, history>>

\* Mutated form of ChallengeOpen: only the expiry is looked at.
ChallengeUnexpired(c, type) ==
    /\ challenges[c] # NULL
    /\ challenges[c].user # NULL
    /\ challenges[c].type = type
    /\ ~ (challenges[c].expires < now)

\* The row is found, its user_id scans, and it can still be answered.
ChallengeOpen(c, type) ==
    /\ challenges[c] # NULL
    /\ challenges[c].user # NULL
    /\ challenges[c].type = type
    /\ challenges[c].consumed = NoTime
    /\ ~ (challenges[c].expires < now)

Answering(r, c, pc) ==
    request' = [request EXCEPT ![r] =
        [Idle EXCEPT !.pc = pc, !.user = challenges[c].user,
                     !.challenge = c, !.readAt = now]]

\* The factor a challenge was made for is never deleted; whether the code fits
\* the secret now in force is left open.
VerifyTotpChallenge(r, c) ==
    /\ ~ Running(r)
    /\ ChallengeOpen(c, "totp_login")
    /\ HasFactor(challenges[c].user)
    /\ Answering(r, c, "consume")
    /\ UNCHANGED <<tables, now, history>>

VerifyWebAuthnChallenge(r, c) ==
    /\ ~ Running(r)
    /\ ChallengeOpen(c, "webauthn_login")
    /\ Answering(r, c, "credential")
    /\ UNCHANGED <<tables, now, history>>

\* NULL for no row.
GetWebAuthnCredentialByCredentialID(id) == credentials[id]

\* The credential named belongs to the challenge's user, or the answer is 401.
MatchCredential(r, id) ==
    /\ request[r].pc = "credential"
    /\ IF GetWebAuthnCredentialByCredentialID(id) = request[r].user
       THEN Goto(r, "consume") ELSE End(r)
    /\ UNCHANGED <<tables, now, history>>

\* The UPDATE carries AND consumed_at IS NULL.
ConsumeAuthChallenge(c) ==
    challenges' = [challenges EXCEPT ![c].consumed = IF @ = NoTime THEN now ELSE @]

\* Mutated form of SpendChallenge: the UPDATE is missing.
KeepChallenge(r) ==
    /\ request[r].pc = "consume"
    /\ Goto(r, "session")
    /\ UNCHANGED <<tables, now, history>>

\* The result of the UPDATE is dropped.  An error of the user's lookup that
\* follows ends the request.
SpendChallenge(r) ==
    /\ request[r].pc = "consume"
    /\ \E outcome \in Outcomes :
         IF Applied(outcome) THEN ConsumeAuthChallenge(request[r].challenge)
                             ELSE UNCHANGED challenges
    /\ \E lookup \in Lookups : IF lookup = "ok" THEN Goto(r, "session") ELSE End(r)
    /\ UNCHANGED <<users, methods, totp, credentials, sessions, now, history>>

\* The INSERT of a session row under a new key.
CreateSession(s, u) ==
    /\ sessions[s] = NULL
    /\ sessions' = [sessions EXCEPT ![s] = [user |-> u, expires |-> now + SessionTTL]]

\* The last statement of every sign-in, and its 200 or 201 response.
authenticateAndIssueSession(r) ==
    /\ request[r].pc = "session"
    /\ \E s \in SessionIds, outcome \in Outcomes :
         /\ IF Applied(outcome)
            THEN /\ CreateSession(s, request[r].user)
                 /\ opened' = [opened EXCEPT ![s] =
                      [challenge |-> request[r].challenge,
                       readAt |-> request[r].readAt,
                       enrolled |-> request[r].enrolled,
                       password |-> request[r].password]]
            ELSE UNCHANGED <<sessions, opened>>
         /\ told' = IF Reported(outcome) THEN told \cup {s} ELSE told
    /\ End(r)
    /\ UNCHANGED <<users, methods, totp, credentials, challenges, now, shown>>

-----------------------------------------------------------------------------
(* POST and DELETE /v1/me/methods.                                         *)

\* The caller holds the access token of session s, still valid.
requirePrincipal(s) == s \in told /\ now < sessions[s].expires

\* Mutated form of UpsertTotpFactor: ON CONFLICT DO NOTHING.
InsertTotpFactor(u) == totp' = [totp EXCEPT ![u] = IF @ = 0 THEN 1 ELSE @]

\* ON CONFLICT (user_id) DO UPDATE: a new secret replaces the old one.
UpsertTotpFactor(u) == totp' = [totp EXCEPT ![u] = @ + 1]

\* The TOTP secrets drawn so far.
Enrolments == {e \in Users \X (1 .. MaxSecrets) : e[2] <= totp[e[1]]}

\* Secrets are numbered in the order in which the table receives them.
LinkTotp(r, s) ==
    /\ ~ Running(r)
    /\ requirePrincipal(s)
    /\ Cardinality(Enrolments) < MaxSecrets
    /\ UpsertTotpFactor(sessions[s].user)
    /\ \E outcome \in Outcomes \ {"failed"} :
         request' = [request EXCEPT ![r] =
             IF Reported(outcome)
             THEN [Idle EXCEPT
                     !.pc = "method", !.user = sessions[s].user,
                     !.secret = totp[sessions[s].user] + 1,
                     !.method = [user |-> sessions[s].user, type |-> "totp",
                                 subject |-> NULL]]
             ELSE Idle]
    /\ UNCHANGED <<users, methods, credentials, challenges, sessions, now, history>>

\* Mutated form of CreateWebAuthnCredential: ON CONFLICT DO NOTHING.
KeepCredential(id, u) ==
    credentials' = [credentials EXCEPT ![id] = IF @ = NULL THEN u ELSE @]

\* A credential id that is already there, whoever it belongs to, is an error.
CreateWebAuthnCredential(id, u) ==
    /\ credentials[id] = NULL
    /\ credentials' = [credentials EXCEPT ![id] = u]

LinkPasskey(r, s, id) ==
    /\ ~ Running(r)
    /\ requirePrincipal(s)
    /\ CreateWebAuthnCredential(id, sessions[s].user)
    /\ \E outcome \in Outcomes \ {"failed"} :
         request' = [request EXCEPT ![r] =
             IF Reported(outcome)
             THEN [Idle EXCEPT
                     !.pc = "method", !.user = sessions[s].user,
                     !.method = [user |-> sessions[s].user, type |-> "passkey",
                                 subject |-> id]]
             ELSE Idle]
    /\ UNCHANGED <<users, methods, totp, challenges, sessions, now, history>>

\* The INSERT of a row under a new key; two rows may say the same.
CreateUserAuthMethod(m, row) ==
    /\ methods[m] = NULL
    /\ methods' = [methods EXCEPT ![m] = row]

\* A provider is linked by its method row alone: external_identities, which
\* the callback reads, is not written.
LinkGoogle(s, id) ==
    /\ requirePrincipal(s)
    /\ \E m \in MethodIds :
         CreateUserAuthMethod(m, [user |-> sessions[s].user, type |-> "oauth_google",
                                  subject |-> id])
    /\ UNCHANGED <<users, totp, credentials, challenges, sessions, now, request, history>>

\* The method row.  Registration drops its error and goes on to the session;
\* linking answers with it, and a TOTP secret is in that answer.
StoreMethod(r) ==
    /\ request[r].pc = "method"
    /\ \E m \in MethodIds, outcome \in Outcomes :
         /\ IF Applied(outcome) THEN CreateUserAuthMethod(m, request[r].method)
                                ELSE UNCHANGED methods
         /\ shown' = IF Reported(outcome) /\ request[r].method.type = "totp"
                     THEN shown \cup {<<request[r].user, request[r].secret>>}
                     ELSE shown
    /\ IF request[r].method.type = "password" THEN Goto(r, "session") ELSE End(r)
    /\ UNCHANGED <<users, totp, credentials, challenges, sessions, now, opened, told>>

\* The keys of the rows a user is shown.
ListUserAuthMethods(u) ==
    {m \in MethodIds : methods[m] # NULL /\ methods[m].user = u}

\* The user's id is part of the WHERE clause: no other user's row is hit.
DeleteUserAuthMethod(m, u) ==
    /\ m \in ListUserAuthMethods(u)
    /\ methods' = [methods EXCEPT ![m] = NULL]

\* The row goes; the factor or the credential it stands for stays.
UnlinkCurrentUserAuthMethod(s, m) ==
    /\ requirePrincipal(s)
    /\ DeleteUserAuthMethod(m, sessions[s].user)
    /\ UNCHANGED <<users, totp, credentials, challenges, sessions, now, request, history>>

-----------------------------------------------------------------------------
\* The process stops: running handlers are gone, the tables are not.
Crash ==
    /\ "crash" \in Faults
    /\ \E r \in Requests : Running(r)
    /\ request' = [r \in Requests |-> Idle]
    /\ UNCHANGED <<tables, now, history>>

Tick ==
    /\ now < MaxTime
    /\ now' = now + 1
    /\ UNCHANGED <<tables, request, history>>

\* The steps a running handler takes by itself, once it has been admitted.
HandlerStep(r) ==
    \/ LookupFactor(r)
    \/ ChallengeTotp(r)
    \/ \E id \in Subjects : MatchCredential(r, id)
    \/ SpendChallenge(r)
    \/ authenticateAndIssueSession(r)
    \/ StoreMethod(r)

Next ==
    \/ \E r \in Requests, u \in Users : RegisterWithPassword(r, u)
    \/ \E r \in Requests, identifier \in Identifiers, password \in Users :
         LoginWithPassword(r, identifier, password)
    \/ \E u \in Users : GetWebAuthnChallengeOptions(u)
    \/ StartExternalProviderLogin
    \/ \E r \in Requests, c \in ChallengeIds :
         VerifyTotpChallenge(r, c) \/ VerifyWebAuthnChallenge(r, c)
    \/ \E r \in Requests, s \in SessionIds : LinkTotp(r, s)
    \/ \E r \in Requests, s \in SessionIds, id \in Subjects :
         LinkPasskey(r, s, id)
    \/ \E s \in SessionIds, id \in Subjects : LinkGoogle(s, id)
    \/ \E s \in SessionIds, m \in MethodIds : UnlinkCurrentUserAuthMethod(s, m)
    \/ \E r \in Requests : HandlerStep(r)
    \/ Crash
    \/ Tick

Spec == Init /\ [][Next]_vars

-----------------------------------------------------------------------------
(* Properties.                                                             *)

\* Every variable has the shape of the tables and local variables it stands for.
TypeOK ==
    /\ users \subseteq Users
    /\ methods \in [MethodIds -> MethodRow \cup {NULL}]
    /\ totp \in [Users -> Nat]
    /\ credentials \in [Subjects -> Users \cup {NULL}]
    /\ challenges \in [ChallengeIds -> ChallengeRow \cup {NULL}]
    /\ sessions \in [SessionIds -> SessionRow \cup {NULL}]
    /\ now \in Nat
    /\ request \in [Requests -> RequestState]
    /\ opened \in [SessionIds -> Opening \cup {NULL}]
    /\ told \subseteq SessionIds
    /\ shown \subseteq Users \X Nat

\* A session that answers a challenge belongs to the user the challenge was
\* made for, and its request had read that challenge before it expired and
\* before anyone consumed it, however late the session was opened.
SessionAnswersOpenChallenge ==
    \A s \in SessionIds :
        sessions[s] # NULL /\ opened[s].challenge # NULL =>
            LET row == challenges[opened[s].challenge] IN
            /\ row # NULL
            /\ row.user = sessions[s].user
            /\ opened[s].readAt <= row.expires
            /\ row.consumed = NoTime \/ opened[s].readAt <= row.consumed

\* Unless a statement fails without effect, a challenge is consumed by the time
\* it has opened a session, so that a crash between the two statements loses
\* the sign-in and never leaves an answered challenge open.
AnsweredChallengeIsSpent ==
    \A s \in SessionIds :
        sessions[s] # NULL /\ opened[s].challenge # NULL
        => challenges[opened[s].challenge].consumed # NoTime

\* Unless the lookup of the factor fails, who had one when the password was
\* checked is asked for it, whatever is linked or unlinked meanwhile.
SecondFactorAsked ==
    \A s \in SessionIds :
        sessions[s] # NULL /\ opened[s].challenge = NULL
        => ~ opened[s].enrolled

\* A password opens sessions for the account it belongs to and for no other,
\* although the identifier it came with may match two accounts.
PasswordOwnerSignsIn ==
    \A s \in SessionIds :
        sessions[s] # NULL /\ opened[s].challenge = NULL
        => opened[s].password = sessions[s].user

\* The secret a user was sent is in force until a later enrolment replaces it,
\* although it is sent only two statements after it was stored.
ShownSecretStands == \A e \in shown : e[2] <= totp[e[1]]

\* A listed method stands for something: a TOTP row for a factor of its user, a
\* passkey row for a credential of its user, whichever statements failed.
ListedMethodIsBacked ==
    \A u \in Users : \A m \in ListUserAuthMethods(u) :
        /\ methods[m].type = "totp" => HasFactor(u)
        /\ methods[m].type = "passkey" =>
               GetWebAuthnCredentialByCredentialID(methods[m].subject) = u

\* Unlinking a method removes it: nobody keeps a second factor without a method
\* listed for it, once no link request is under way.
UnlinkedFactorIsGone ==
    \A u \in Users :
        totp[u] # 0 /\ (\A r \in Requests : ~ Running(r)) => HasListedFactor(u)
=============================================================================
