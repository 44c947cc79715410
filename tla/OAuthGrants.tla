---------------------------- MODULE OAuthGrants ----------------------------
(***************************************************************************)
(* The OAuth2 provider of the Orivis API server: authorization codes,      *)
(* access tokens and refresh tokens, and the HTTP handlers that create,    *)
(* redeem, rotate and revoke them.                                         *)
(*                                                                         *)
(* The handlers are goroutines.  They share nothing but the database, and  *)
(* none of them opens a transaction: each SQL statement commits by itself. *)
(* So an action of this module is one SQL statement of one handler         *)
(* together with the local code that follows it, up to the next statement. *)
(* A request carries from one statement to the next the row it read first, *)
(* however stale it has become.  A handler that rejects its request writes *)
(* nothing, and is a stuttering step here.                                 *)
(***************************************************************************)
EXTENDS Integers, FiniteSets, Statements

CONSTANTS
    Clients,          \* rows of oauth_clients
    Users, Scopes, Redirects, Verifiers, Challenges, Secrets,
    Registered,       \* client -> its redirect_uris
    ClientSecret,     \* client -> its secret, or NULL for a public client
    RequirePkce,      \* client -> require_pkce
    S256,             \* verifier -> its SHA-256 challenge
    CodeIds, AccessIds, RefreshIds,  \* primary keys that can be drawn
    Requests,         \* handlers of POST /oauth2/token that can run at once
    CodeTTL, AccessTTL, RefreshTTL,
    MaxTime,          \* bound on the clock
    NULL              \* the SQL NULL, and the key of no row

\* A grant is what a request can turn into a token: a code or a refresh token.
Sources == CodeIds \cup RefreshIds

NoTime == -1
Timestamp == Nat \cup {NoTime}

\* The columns a code passes on to its tokens, and they to their successors.
Owner == [client : Clients, user : Users \cup {NULL}, scope : Scopes]

CodeRow == [owner : Owner, redirect : Redirects,
            challenge : Challenges \cup {NULL},
            expires : Nat, consumed : Timestamp]
AccessRow == [owner : Owner, expires : Nat, revoked : Timestamp]
RefreshRow == [owner : Owner, access : AccessIds,
               expires : Nat, revoked : Timestamp]

\* History of an access token: the request that minted it, the grant it read.
MintRecord == [source : Sources, by : Requests, readAt : Nat]

ASSUME ConstantsAssumption ==
    /\ Registered \in [Clients -> SUBSET Redirects]
    /\ ClientSecret \in [Clients -> Secrets \cup {NULL}]
    /\ RequirePkce \in [Clients -> BOOLEAN]
    /\ S256 \in [Verifiers -> Challenges]
    /\ Faults \subseteq FaultKinds
    /\ CodeTTL \in Nat /\ AccessTTL \in Nat /\ RefreshTTL \in Nat
    /\ MaxTime \in Nat

ASSUME KeysAssumption ==
    /\ CodeIds \cap RefreshIds = {} /\ AccessIds \cap RefreshIds = {}
    /\ NULL \notin Users \cup Secrets \cup Challenges \cup AccessIds
    /\ NULL \notin Sources \cup Requests
    /\ NULL \notin Owner
    /\ NULL \notin CodeRow /\ NULL \notin AccessRow /\ NULL \notin RefreshRow
    /\ NULL \notin MintRecord
    /\ NULL \notin [owner : Owner, from : AccessIds \cup {NULL}]

VARIABLES
    codes,      \* oauth_authorization_codes: key -> row, or NULL for no row
    access,     \* oauth_access_tokens
    refresh,    \* oauth_refresh_tokens
    now,        \* the clock, which the server and the database share
    request,    \* the running token requests and their local variables
    minted,     \* history: access token -> who minted it, from what, read when
    delivered,  \* history: access tokens sent in a 200 response
    acked       \* history: tokens whose revocation was answered with 200

vars == <<codes, access, refresh, now, request, minted, delivered, acked>>

-----------------------------------------------------------------------------
(* Requests.                                                               *)

\* A slot with no request in it.
Idle == [pc |-> "idle", source |-> NULL, owner |-> NULL, readAt |-> NoTime,
         exp |-> NoTime, access |-> NULL]

\* pc names the SQL statement the handler executes next.
RequestState == [pc : {"idle", "close", "access", "refresh"},
                 source : Sources \cup {NULL},
                 owner : Owner \cup {NULL},
                 readAt : Timestamp,
                 exp : Timestamp,
                 access : AccessIds \cup {NULL}]

\* A request that has read an open grant and has yet to mint from it.
Holding(r) == request[r].pc \in {"close", "access"}
Running(r) == request[r].pc # "idle"

\* Mutated form of StampOnce: an UPDATE without its AND ... IS NULL.
StampAgain(time) == now

\* The UPDATEs that consume and revoke carry AND ... IS NULL.
StampOnce(time) == IF time = NoTime THEN now ELSE time

\* What each statement makes of its table: an INSERT of a row under a new key,
\* an UPDATE of the row with the key.
CreateOAuthAuthorizationCode(c, row) == [codes EXCEPT ![c] = row]
CreateOAuthAccessToken(a, row) == [access EXCEPT ![a] = row]
CreateOAuthRefreshToken(f, row) == [refresh EXCEPT ![f] = row]

ConsumeOAuthAuthorizationCode(c) ==
    [codes EXCEPT ![c].consumed = StampOnce(@)]
RevokeOAuthAccessTokenByHash(a) ==
    [access EXCEPT ![a].revoked = StampOnce(@)]
RevokeOAuthRefreshTokenByHash(f) ==
    [refresh EXCEPT ![f].revoked = StampOnce(@)]

\* Bound: requests are admitted only while keys remain for all of them.
AccessRoom == Cardinality({a \in AccessIds : access[a] = NULL}) >
                 Cardinality({r \in Requests : Holding(r)})
RefreshRoom == Cardinality({f \in RefreshIds : refresh[f] = NULL}) >
                 Cardinality({r \in Requests : Running(r)})

-----------------------------------------------------------------------------
Init ==
    /\ codes = [c \in CodeIds |-> NULL]
    /\ access = [a \in AccessIds |-> NULL]
    /\ refresh = [f \in RefreshIds |-> NULL]
    /\ now = 0
    /\ request = [r \in Requests |-> Idle]
    /\ minted = [a \in AccessIds |-> NULL]
    /\ delivered = {}
    /\ acked = {}

(* GET /oauth2/authorize.  Its only write is the last statement; what it   *)
(* reads before is fixed here (clients) or left open (who is logged in,    *)
(* what the policy says).                                                  *)
AuthorizeOAuth2Client(cl, u, redirect, scope, challenge) ==
    /\ redirect \in Registered[cl]
    /\ RequirePkce[cl] => challenge # NULL
    /\ \E c \in CodeIds :
        /\ codes[c] = NULL
        /\ codes' = CreateOAuthAuthorizationCode(c,
             [owner |-> [client |-> cl, user |-> u, scope |-> scope],
              redirect |-> redirect, challenge |-> challenge,
              expires |-> now + CodeTTL, consumed |-> NoTime])
    /\ UNCHANGED <<access, refresh, now, request, minted, delivered, acked>>

-----------------------------------------------------------------------------
(* POST /oauth2/token.                                                     *)

\* Basic authentication; the secret is compared only if the client has one.
ExchangeOAuth2Token(cl, secret) ==
    ClientSecret[cl] # NULL => secret = ClientSecret[cl]

\* The challenge is looked at only for clients that require PKCE, and always
\* as an S256 one.
PkceHolds(row, cl, verifier) ==
    RequirePkce[cl] => /\ verifier # NULL
                       /\ row.challenge = S256[verifier]

\* Mutated forms of CodeUsable and RefreshUsable: only the expiry is looked at.
CodeUnexpired(row) == ~ (row.expires < now)
RefreshUnexpired(row) == ~ (row.expires < now)

\* A timestamp is past its expiry one tick after it, not at it.
CodeUsable(row) == row.consumed = NoTime /\ ~ (row.expires < now)
RefreshUsable(row) == row.revoked = NoTime /\ ~ (row.expires < now)

\* Mutated form of Hold: the user is left out of the copied columns.
HoldForClient(r, source, owner) ==
    request' = [request EXCEPT ![r] =
        [pc |-> "close", source |-> source, owner |-> [owner EXCEPT !.user = NULL],
         readAt |-> now, exp |-> NoTime, access |-> NULL]]

\* A request has read an open grant and carries the row's columns on.
Hold(r, source, owner) ==
    request' = [request EXCEPT ![r] =
        [pc |-> "close", source |-> source, owner |-> owner, readAt |-> now,
         exp |-> NoTime, access |-> NULL]]

ReadCode(r, cl, secret, c, redirect, verifier) ==
    /\ request[r].pc = "idle" /\ AccessRoom /\ RefreshRoom
    /\ ExchangeOAuth2Token(cl, secret)
    /\ codes[c] # NULL
    /\ codes[c].owner.client = cl
    /\ codes[c].redirect = redirect
    /\ CodeUsable(codes[c])
    /\ PkceHolds(codes[c], cl, verifier)
    /\ Hold(r, c, codes[c].owner)
    /\ UNCHANGED <<codes, access, refresh, now, minted, delivered, acked>>

\* Who presents a token was sent it: the table keeps only its hash.
ReadRefresh(r, cl, secret, f) ==
    /\ request[r].pc = "idle" /\ AccessRoom /\ RefreshRoom
    /\ ExchangeOAuth2Token(cl, secret)
    /\ refresh[f] # NULL /\ refresh[f].access \in delivered
    /\ refresh[f].owner.client = cl
    /\ RefreshUsable(refresh[f])
    /\ Hold(r, f, refresh[f].owner)
    /\ UNCHANGED <<codes, access, refresh, now, minted, delivered, acked>>

\* Mutated form of issueJWT: the expiry is never set.
issueJWTForever(r) == request' = [request EXCEPT ![r].pc = "access"]

\* The JWT is signed, and its expiry fixed, before the token row is written.
issueJWT(r) ==
    request' = [request EXCEPT ![r] =
                  [@ EXCEPT !.pc = "access", !.exp = now + AccessTTL]]

\* Mutated form of ConsumeCode: the UPDATE is missing.
KeepCode(r) ==
    /\ request[r].pc = "close" /\ request[r].source \in CodeIds
    /\ issueJWT(r)
    /\ UNCHANGED <<codes, access, refresh, now, minted, delivered, acked>>

\* The result of the UPDATE, and the number of rows it hit, are dropped.
ConsumeCode(r) ==
    /\ request[r].pc = "close" /\ request[r].source \in CodeIds
    /\ \E outcome \in Outcomes :
         codes' = IF Applied(outcome)
                  THEN ConsumeOAuthAuthorizationCode(request[r].source)
                  ELSE codes
    /\ issueJWT(r)
    /\ UNCHANGED <<access, refresh, now, minted, delivered, acked>>

RevokeOldRefresh(r) ==
    /\ request[r].pc = "close" /\ request[r].source \in RefreshIds
    /\ \E outcome \in Outcomes :
         refresh' = IF Applied(outcome)
                    THEN RevokeOAuthRefreshTokenByHash(request[r].source)
                    ELSE refresh
    /\ issueJWT(r)
    /\ UNCHANGED <<codes, access, now, minted, delivered, acked>>

\* Mutated form of CreateAccessToken: on an error the exchange starts over.
RetryAccessToken(r) ==
    /\ request[r].pc = "access"
    /\ \E a \in AccessIds, outcome \in Outcomes :
        /\ access[a] = NULL
        /\ access' = IF Applied(outcome)
                     THEN CreateOAuthAccessToken(a,
                             [owner |-> request[r].owner, expires |-> request[r].exp,
                              revoked |-> NoTime])
                     ELSE access
        /\ request' = [request EXCEPT ![r] =
             IF Reported(outcome) THEN [@ EXCEPT !.pc = "refresh", !.access = a]
                                  ELSE [@ EXCEPT !.pc = "close"]]
    /\ UNCHANGED <<codes, refresh, now, minted, delivered, acked>>

CreateAccessToken(r) ==
    /\ request[r].pc = "access"
    /\ \E a \in AccessIds, outcome \in Outcomes :
        /\ access[a] = NULL
        /\ IF Applied(outcome)
           THEN /\ access' = CreateOAuthAccessToken(a,
                     [owner |-> request[r].owner, expires |-> request[r].exp,
                      revoked |-> NoTime])
                /\ minted' = [minted EXCEPT ![a] =
                     [source |-> request[r].source, by |-> r,
                      readAt |-> request[r].readAt]]
           ELSE UNCHANGED <<access, minted>>
        /\ request' = [request EXCEPT ![r] =
             IF Reported(outcome) THEN [@ EXCEPT !.pc = "refresh", !.access = a]
                                  ELSE Idle]
    /\ UNCHANGED <<codes, refresh, now, delivered, acked>>

\* Mutated form of CreateRefreshToken: its error is dropped too.
SendAnyway(r) ==
    /\ request[r].pc = "refresh"
    /\ \E f \in RefreshIds, outcome \in Outcomes :
        /\ refresh[f] = NULL
        /\ refresh' = IF Applied(outcome)
                      THEN CreateOAuthRefreshToken(f,
                              [owner |-> request[r].owner,
                               access |-> request[r].access,
                               expires |-> now + RefreshTTL, revoked |-> NoTime])
                      ELSE refresh
    /\ delivered' = delivered \cup {request[r].access}
    /\ request' = [request EXCEPT ![r] = Idle]
    /\ UNCHANGED <<codes, access, now, minted, acked>>

\* The last statement, and the 200 response, which may not reach the client.
CreateRefreshToken(r) ==
    /\ request[r].pc = "refresh"
    /\ \E f \in RefreshIds, outcome \in Outcomes :
        /\ refresh[f] = NULL
        /\ refresh' = IF Applied(outcome)
                      THEN CreateOAuthRefreshToken(f,
                              [owner |-> request[r].owner,
                               access |-> request[r].access,
                               expires |-> now + RefreshTTL, revoked |-> NoTime])
                      ELSE refresh
        /\ delivered' = IF Reported(outcome)
                        THEN delivered \cup {request[r].access}
                        ELSE delivered
    /\ request' = [request EXCEPT ![r] = Idle]
    /\ UNCHANGED <<codes, access, now, minted, acked>>

\* The row is inserted with a NULL user_id; RETURNING then hands that NULL to
\* a Go string, the scan fails, and the handler answers 500.
ExchangeClientCredentials(cl, secret, scope) ==
    /\ AccessRoom
    /\ ExchangeOAuth2Token(cl, secret)
    /\ \E a \in AccessIds :
        /\ access[a] = NULL
        /\ access' = CreateOAuthAccessToken(a,
             [owner |-> [client |-> cl, user |-> NULL, scope |-> scope],
              expires |-> now + AccessTTL, revoked |-> NoTime])
    /\ UNCHANGED <<codes, refresh, now, request, minted, delivered, acked>>

-----------------------------------------------------------------------------
(* POST /oauth2/revoke: two UPDATEs keyed by the hash, of which one can    *)
(* match; their errors are dropped and the answer is 200.  The client need *)
(* not say who it is, but has the token.                                   *)

\* Mutated form of RevokeAccessToken: only refresh tokens are updated.
AcknowledgeOnly(a) ==
    /\ access[a] # NULL /\ a \in delivered
    /\ acked' = acked \cup {a}
    /\ UNCHANGED <<codes, access, refresh, now, request, minted, delivered>>

RevokeAccessToken(a) ==
    /\ access[a] # NULL /\ a \in delivered
    /\ \E outcome \in Outcomes :
         access' = IF Applied(outcome)
                   THEN RevokeOAuthAccessTokenByHash(a)
                   ELSE access
    /\ acked' = acked \cup {a}
    /\ UNCHANGED <<codes, refresh, now, request, minted, delivered>>

RevokeRefreshToken(f) ==
    /\ refresh[f] # NULL /\ refresh[f].access \in delivered
    /\ \E outcome \in Outcomes :
         refresh' = IF Applied(outcome)
                    THEN RevokeOAuthRefreshTokenByHash(f)
                    ELSE refresh
    /\ acked' = acked \cup {f}
    /\ UNCHANGED <<codes, access, now, request, minted, delivered>>

(* What the read-only endpoints say of an access token.                    *)

\* POST /oauth2/introspect: a row with a NULL user does not scan.
IntrospectOAuth2Token(a) ==
    /\ access[a] # NULL /\ access[a].owner.user # NULL
    /\ access[a].revoked = NoTime
    /\ access[a].expires > now

\* GET /oauth2/userinfo: the signature and the exp claim, no table.
GetOAuth2UserInfo(a) ==
    /\ access[a] # NULL
    /\ access[a].expires > now

-----------------------------------------------------------------------------
\* The process stops: running requests are gone, the tables are not.
Crash ==
    /\ "crash" \in Faults
    /\ \E r \in Requests : Running(r)
    /\ request' = [r \in Requests |-> Idle]
    /\ UNCHANGED <<codes, access, refresh, now, minted, delivered, acked>>

Tick ==
    /\ now < MaxTime
    /\ now' = now + 1
    /\ UNCHANGED <<codes, access, refresh, request, minted, delivered, acked>>

\* The steps a running handler takes by itself, once it has been admitted.
HandlerStep(r) ==
    \/ ConsumeCode(r)
    \/ RevokeOldRefresh(r)
    \/ CreateAccessToken(r)
    \/ CreateRefreshToken(r)

Next ==
    \/ \E cl \in Clients, u \in Users, redirect \in Redirects,
          scope \in Scopes, challenge \in Challenges \cup {NULL} :
         AuthorizeOAuth2Client(cl, u, redirect, scope, challenge)
    \/ \E r \in Requests, cl \in Clients, secret \in Secrets, c \in CodeIds,
          redirect \in Redirects, verifier \in Verifiers \cup {NULL} :
         ReadCode(r, cl, secret, c, redirect, verifier)
    \/ \E r \in Requests, cl \in Clients, secret \in Secrets, f \in RefreshIds :
         ReadRefresh(r, cl, secret, f)
    \/ \E r \in Requests : HandlerStep(r)
    \/ \E cl \in Clients, secret \in Secrets, scope \in Scopes :
         ExchangeClientCredentials(cl, secret, scope)
    \/ \E a \in AccessIds : RevokeAccessToken(a)
    \/ \E f \in RefreshIds : RevokeRefreshToken(f)
    \/ Crash
    \/ Tick

Spec == Init /\ [][Next]_vars

\* The Go scheduler runs every goroutine, and every statement returns.
FairSpec == Spec /\ \A r \in Requests : WF_vars(HandlerStep(r))

-----------------------------------------------------------------------------
(* Properties.                                                             *)

SourceRow(s) == IF s \in CodeIds THEN codes[s] ELSE refresh[s]

\* When a grant was closed: consumed_at of a code, revoked_at of a refresh token.
ClosedAt(s) == IF s \in CodeIds THEN codes[s].consumed ELSE refresh[s].revoked

MintedFrom(s) == {a \in AccessIds : minted[a] # NULL /\ minted[a].source = s}

\* Every variable has the shape of the tables and local variables it stands for.
TypeOK ==
    /\ codes \in [CodeIds -> CodeRow \cup {NULL}]
    /\ access \in [AccessIds -> AccessRow \cup {NULL}]
    /\ refresh \in [RefreshIds -> RefreshRow \cup {NULL}]
    /\ now \in Nat
    /\ request \in [Requests -> RequestState]
    /\ minted \in [AccessIds -> MintRecord \cup {NULL}]
    /\ delivered \subseteq AccessIds
    /\ acked \subseteq AccessIds \cup RefreshIds

\* The client, user and scope approved at /oauth2/authorize reach every token
\* of the family, through any number of rotations and whatever other requests
\* do meanwhile: a token agrees with the grant it was minted from, and a
\* refresh token with its access token.
OwnerPreserved ==
    /\ \A a \in AccessIds : minted[a] # NULL =>
         /\ access[a] # NULL
         /\ SourceRow(minted[a].source) # NULL
         /\ access[a].owner = SourceRow(minted[a].source).owner
    /\ \A f \in RefreshIds : refresh[f] # NULL =>
         /\ minted[refresh[f].access] # NULL
         /\ refresh[f].owner = access[refresh[f].access].owner

\* A token is minted only by a request that had read the grant before it was
\* consumed or revoked, and before it expired.  The mint itself may come
\* later: the handler acts on the row it read.
ReadWhileOpen ==
    \A a \in AccessIds : minted[a] # NULL =>
        LET s == minted[a].source IN
        /\ ClosedAt(s) = NoTime \/ minted[a].readAt <= ClosedAt(s)
        /\ minted[a].readAt <= SourceRow(s).expires

\* Unless a statement fails without effect, the grant is closed before
\* anything is minted from it, so that a crash between the two statements
\* loses the grant and never leaves it open with a token out.
MintedSourceIsClosed ==
    \A a \in AccessIds : minted[a] # NULL => ClosedAt(minted[a].source) # NoTime

\* Unless a statement fails without effect, one request mints at most one token
\* from a grant, over any number of requests its slot serves: what a grant
\* yields is bounded by how many handlers were inside it at once.
OneMintPerRequest ==
    \A a, b \in AccessIds :
        /\ minted[a] # NULL /\ minted[b] # NULL
        /\ minted[a].source = minted[b].source
        /\ minted[a].by = minted[b].by
        => a = b

\* What a running handler carries in its local variables is still true of the
\* tables, although other handlers have written to them since: the row it read
\* is there with the same owner and expiry, it was open when it was read, and
\* the access token it is about to pair was minted from it.
LocalsOf(r) ==
    LET s == request[r].source IN
    /\ s # NULL /\ SourceRow(s) # NULL
    /\ request[r].owner = SourceRow(s).owner
    /\ request[r].readAt # NoTime
    /\ request[r].readAt <= now
    /\ request[r].readAt <= SourceRow(s).expires
    /\ ClosedAt(s) = NoTime \/ request[r].readAt <= ClosedAt(s)
    /\ request[r].pc # "close" => request[r].exp # NoTime
    /\ request[r].pc = "refresh" =>
         /\ request[r].access # NULL
         /\ minted[request[r].access] # NULL
         /\ minted[request[r].access].source = s

LocalsAgree == \A r \in Requests : Running(r) => LocalsOf(r)

\* Unless a statement fails without effect, a handler past its UPDATE has
\* closed its grant, and one that has yet to mint has not minted from it.
ClaimsUnspent ==
    \A r \in Requests :
        LET s == request[r].source IN
        /\ request[r].pc \in {"access", "refresh"} => ClosedAt(s) # NoTime
        /\ Holding(r) => \A a \in AccessIds : minted[a] # NULL =>
                             ~ (minted[a].source = s /\ minted[a].by = r)

\* Unless a statement fails without effect, a token whose revocation was
\* answered with 200 is revoked and stays so, whatever requests that had read
\* it before go on to write.
AckedRevocationHolds ==
    /\ \A a \in AccessIds : a \in acked => access[a].revoked # NoTime
    /\ \A f \in RefreshIds : f \in acked => refresh[f].revoked # NoTime

\* A token response is sent only when both its tokens are stored.
DeliveredIsBacked ==
    \A a \in delivered :
        /\ access[a] # NULL
        /\ \E f \in RefreshIds : refresh[f] # NULL /\ refresh[f].access = a

\* The first consumption or revocation stands: no concurrent UPDATE moves its
\* time or undoes it.
ClosureIsFinal ==
    [][/\ \A c \in CodeIds :
            codes[c] # NULL /\ codes[c].consumed # NoTime => codes'[c] = codes[c]
       /\ \A f \in RefreshIds :
            refresh[f] # NULL /\ refresh[f].revoked # NoTime => refresh'[f] = refresh[f]
       /\ \A a \in AccessIds :
            access[a] # NULL /\ access[a].revoked # NoTime => access'[a] = access[a]
      ]_vars

\* Every admitted token request is answered or cut off.
EveryRequestEnds == \A r \in Requests : Running(r) ~> ~ Running(r)

\* The tables implement the ledger: an owner is a row's owner, a grant is
\* closed when its timestamp is set, a claim is a read row not yet used.
entryBar ==
    [s \in Sources |->
       IF SourceRow(s) = NULL THEN NULL
       ELSE [owner |-> SourceRow(s).owner,
             from |-> IF s \in CodeIds THEN NULL ELSE refresh[s].access]]
closedBar == {s \in Sources : SourceRow(s) # NULL /\ ClosedAt(s) # NoTime}
claimBar == [r \in Requests |-> IF Holding(r) THEN request[r].source ELSE NULL]
mintedBar == [a \in AccessIds |-> IF minted[a] = NULL THEN NULL ELSE minted[a].source]

Ledger == INSTANCE GrantLedger WITH
    Grants <- Sources, Tokens <- AccessIds, Owners <- Owner,
    entry <- entryBar, closed <- closedBar, claim <- claimBar, minted <- mintedBar

ImplementsLedger == Ledger!LedgerSpec

\* An authorization code yields one token pair: a second exchange is answered
\* "authorization code expired or already used".
CodeSingleUse == \A c \in CodeIds : Cardinality(MintedFrom(c)) <= 1

\* An access token that its client was sent and has revoked is no longer accepted,
\* by introspection or by userinfo.
RevokedIsRejected ==
    \A a \in delivered : access[a].revoked # NoTime =>
        ~ IntrospectOAuth2Token(a) /\ ~ GetOAuth2UserInfo(a)
=============================================================================
