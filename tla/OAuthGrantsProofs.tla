------------------------- MODULE OAuthGrantsProofs -------------------------
(***************************************************************************)
(* Proofs about OAuthGrants, for any number of clients, users, keys and    *)
(* concurrent handlers, any lifetimes and any length of run.               *)
(***************************************************************************)
EXTENDS OAuthGrants, TLAPS

USE ConstantsAssumption, KeysAssumption

\* What a statement writes is its definition, wherever an action is expanded.
USE DEF CreateOAuthAuthorizationCode, CreateOAuthAccessToken, CreateOAuthRefreshToken,
        ConsumeOAuthAuthorizationCode, RevokeOAuthAccessTokenByHash,
        RevokeOAuthRefreshTokenByHash

-----------------------------------------------------------------------------
(* Type correctness.  It is not inductive by itself: a handler stamps the  *)
(* row it read, and that the row is there is what LocalsAgree says.        *)

\* Signing the token keeps a handler's local variables well typed.
LEMMA SignedType ==
  ASSUME NEW q \in RequestState, NEW e \in Nat
  PROVE  [q EXCEPT !.pc = "access", !.exp = e] \in RequestState
  BY DEF RequestState, Timestamp

\* A handler that has stored its access token carries it, and keeps its type.
LEMMA PairedType ==
  ASSUME NEW q \in RequestState, NEW a \in AccessIds
  PROVE  [q EXCEPT !.pc = "refresh", !.access = a] \in RequestState
  BY DEF RequestState, Timestamp

\* An idle slot is well typed.
LEMMA IdleType == Idle \in RequestState
  BY DEF Idle, RequestState, Timestamp

\* The empty tables and idle slots are well typed.
LEMMA InitSafe == Init => TypeOK /\ LocalsAgree
  BY IdleType DEF Init, TypeOK, LocalsAgree, LocalsOf, Idle, Running

\* An approved authorization stores a well-typed code.
LEMMA AuthorizeType ==
  ASSUME TypeOK, NEW cl \in Clients, NEW u \in Users, NEW redirect \in Redirects,
         NEW scope \in Scopes, NEW challenge \in Challenges \cup {NULL},
         AuthorizeOAuth2Client(cl, u, redirect, scope, challenge)
  PROVE  TypeOK'
  BY DEF TypeOK, AuthorizeOAuth2Client, CodeRow, Owner, Timestamp, NoTime

\* A request that has read a grant carries well-typed locals.
LEMMA HoldType ==
  ASSUME TypeOK, NEW r \in Requests, NEW s \in Sources, NEW o \in Owner, Hold(r, s, o)
  PROVE  request' \in [Requests -> RequestState]
  BY DEF TypeOK, Hold, RequestState, Timestamp

\* Reading a code keeps the types.
LEMMA ReadCodeType ==
  ASSUME TypeOK, NEW r \in Requests, NEW cl, NEW secret, NEW c \in CodeIds,
         NEW redirect, NEW verifier, ReadCode(r, cl, secret, c, redirect, verifier)
  PROVE  TypeOK'
  <1>1. c \in Sources /\ codes[c].owner \in Owner
    BY DEF TypeOK, ReadCode, CodeRow, Sources
  <1>2. request' \in [Requests -> RequestState]
    BY <1>1, HoldType DEF ReadCode
  <1> QED BY <1>2 DEF TypeOK, ReadCode

\* Reading a refresh token keeps the types.
LEMMA ReadRefreshType ==
  ASSUME TypeOK, NEW r \in Requests, NEW cl, NEW secret, NEW f \in RefreshIds,
         ReadRefresh(r, cl, secret, f)
  PROVE  TypeOK'
  <1>1. f \in Sources /\ refresh[f].owner \in Owner
    BY DEF TypeOK, ReadRefresh, RefreshRow, Sources
  <1>2. request' \in [Requests -> RequestState]
    BY <1>1, HoldType DEF ReadRefresh
  <1> QED BY <1>2 DEF TypeOK, ReadRefresh

\* Signing the JWT keeps the types of the locals.
LEMMA IssueType ==
  ASSUME TypeOK, NEW r \in Requests, issueJWT(r)
  PROVE  request' \in [Requests -> RequestState]
  <1>1. request[r] \in RequestState /\ now + AccessTTL \in Nat
    BY DEF TypeOK
  <1>2. [request[r] EXCEPT !.pc = "access", !.exp = now + AccessTTL] \in RequestState
    BY <1>1, SignedType
  <1> QED BY <1>2 DEF TypeOK, issueJWT

\* The UPDATE that consumes a code keeps the types, applied or not.
LEMMA ConsumeType ==
  ASSUME TypeOK, LocalsAgree, NEW r \in Requests, ConsumeCode(r)
  PROVE  TypeOK'
  <1>1. request[r].source \in CodeIds /\ codes[request[r].source] \in CodeRow
    BY DEF TypeOK, LocalsAgree, LocalsOf, ConsumeCode, Running, SourceRow
  <1>2. codes' \in [CodeIds -> CodeRow \cup {NULL}]
    BY <1>1 DEF TypeOK, ConsumeCode, StampOnce, CodeRow, Timestamp
  <1>3. request' \in [Requests -> RequestState]
    BY IssueType DEF ConsumeCode
  <1> QED BY <1>2, <1>3 DEF TypeOK, ConsumeCode

\* The UPDATE that revokes the old refresh token keeps the types, applied or not.
LEMMA RevokeOldType ==
  ASSUME TypeOK, LocalsAgree, NEW r \in Requests, RevokeOldRefresh(r)
  PROVE  TypeOK'
  <1>1. /\ request[r].source \in RefreshIds
        /\ refresh[request[r].source] \in RefreshRow
    BY DEF TypeOK, LocalsAgree, LocalsOf, RevokeOldRefresh, Running, SourceRow
  <1>2. refresh' \in [RefreshIds -> RefreshRow \cup {NULL}]
    BY <1>1 DEF TypeOK, RevokeOldRefresh, StampOnce, RefreshRow, Timestamp
  <1>3. request' \in [Requests -> RequestState]
    BY IssueType DEF RevokeOldRefresh
  <1> QED BY <1>2, <1>3 DEF TypeOK, RevokeOldRefresh

\* The access-token INSERT keeps the types, whatever its outcome.
LEMMA CreateAccessType ==
  ASSUME TypeOK, LocalsAgree, NEW r \in Requests, CreateAccessToken(r)
  PROVE  TypeOK'
  <1>1. PICK a \in AccessIds, outcome \in Outcomes :
          /\ IF Applied(outcome)
             THEN /\ access' = [access EXCEPT ![a] =
                       [owner |-> request[r].owner, expires |-> request[r].exp,
                        revoked |-> NoTime]]
                  /\ minted' = [minted EXCEPT ![a] =
                       [source |-> request[r].source, by |-> r,
                        readAt |-> request[r].readAt]]
             ELSE UNCHANGED <<access, minted>>
          /\ request' = [request EXCEPT ![r] =
               IF Reported(outcome)
               THEN [@ EXCEPT !.pc = "refresh", !.access = a] ELSE Idle]
    BY DEF CreateAccessToken
  <1>2. /\ request[r] \in RequestState
        /\ request[r].source # NULL /\ SourceRow(request[r].source) # NULL
        /\ request[r].owner = SourceRow(request[r].source).owner
        /\ request[r].readAt # NoTime /\ request[r].exp # NoTime
    BY DEF TypeOK, LocalsAgree, LocalsOf, CreateAccessToken, Running
  <1>3. request[r].owner \in Owner
    BY <1>2 DEF TypeOK, SourceRow, RequestState, Sources, CodeRow, RefreshRow
  <1>4. /\ request[r].source \in Sources /\ request[r].readAt \in Nat
        /\ request[r].exp \in Nat
    BY <1>2 DEF RequestState, Timestamp
  <1>5. access' \in [AccessIds -> AccessRow \cup {NULL}]
    BY <1>1, <1>3, <1>4 DEF TypeOK, AccessRow, Timestamp
  <1>6. minted' \in [AccessIds -> MintRecord \cup {NULL}]
    BY <1>1, <1>4 DEF TypeOK, MintRecord
  <1>7. request' \in [Requests -> RequestState]
    BY <1>1, <1>2, IdleType, PairedType DEF TypeOK
  <1> QED BY <1>5, <1>6, <1>7 DEF TypeOK, CreateAccessToken

\* The refresh-token INSERT and the answer keep the types.
LEMMA CreateRefreshType ==
  ASSUME TypeOK, LocalsAgree, NEW r \in Requests, CreateRefreshToken(r)
  PROVE  TypeOK'
  <1>1. /\ request[r] \in RequestState /\ SourceRow(request[r].source) # NULL
        /\ request[r].source # NULL
        /\ request[r].owner = SourceRow(request[r].source).owner
        /\ request[r].access # NULL
    BY DEF TypeOK, LocalsAgree, LocalsOf, CreateRefreshToken, Running
  <1>2. request[r].owner \in Owner /\ request[r].access \in AccessIds
    BY <1>1 DEF TypeOK, SourceRow, RequestState, Sources, CodeRow, RefreshRow
  <1>3. refresh' \in [RefreshIds -> RefreshRow \cup {NULL}]
    BY <1>2 DEF TypeOK, CreateRefreshToken, RefreshRow, Timestamp
  <1>4. delivered' \subseteq AccessIds
    BY <1>2 DEF TypeOK, CreateRefreshToken
  <1>5. request' \in [Requests -> RequestState]
    BY IdleType DEF TypeOK, CreateRefreshToken
  <1> QED BY <1>3, <1>4, <1>5 DEF TypeOK, CreateRefreshToken

\* A client-credentials row, with its NULL user, is well typed.
LEMMA ClientCredentialsType ==
  ASSUME TypeOK, NEW cl \in Clients, NEW secret, NEW scope \in Scopes,
         ExchangeClientCredentials(cl, secret, scope)
  PROVE  TypeOK'
  BY DEF TypeOK, ExchangeClientCredentials, AccessRow, Owner, Timestamp

\* Revoking an access token keeps the types.
LEMMA RevokeAccessType ==
  ASSUME TypeOK, NEW a \in AccessIds, RevokeAccessToken(a)
  PROVE  TypeOK'
  BY DEF TypeOK, RevokeAccessToken, StampOnce, AccessRow, Timestamp

\* Revoking a refresh token keeps the types.
LEMMA RevokeRefreshType ==
  ASSUME TypeOK, NEW f \in RefreshIds, RevokeRefreshToken(f)
  PROVE  TypeOK'
  BY DEF TypeOK, RevokeRefreshToken, StampOnce, RefreshRow, Timestamp

\* Every step keeps the types.
LEMMA StepType == TypeOK /\ LocalsAgree /\ [Next]_vars => TypeOK'
  <1> SUFFICES ASSUME TypeOK, LocalsAgree, [Next]_vars PROVE TypeOK'
    OBVIOUS
  <1>1. ASSUME NEW r \in Requests, HandlerStep(r) PROVE TypeOK'
    BY <1>1, ConsumeType, RevokeOldType, CreateAccessType, CreateRefreshType
       DEF HandlerStep
  <1>2. CASE Crash
    BY <1>2, IdleType DEF TypeOK, Crash
  <1>3. CASE Tick
    BY <1>3 DEF TypeOK, Tick
  <1>4. CASE UNCHANGED vars
    BY <1>4 DEF TypeOK, vars
  <1> QED
    BY <1>1, <1>2, <1>3, <1>4, AuthorizeType, ReadCodeType, ReadRefreshType,
       ClientCredentialsType, RevokeAccessType, RevokeRefreshType DEF Next

-----------------------------------------------------------------------------
(* What a step can do to a row that is there: stamp it, once, with the     *)
(* time.  The invariants about several handlers all rest on this.          *)

\* The row of a grant is never deleted, and only its closing time changes.
RowOnlyCloses(s) ==
    SourceRow(s) # NULL =>
        /\ SourceRow(s)' # NULL
        /\ SourceRow(s)'.owner = SourceRow(s).owner
        /\ SourceRow(s)'.expires = SourceRow(s).expires
        /\ \/ ClosedAt(s)' = ClosedAt(s)
           \/ ClosedAt(s) = NoTime /\ ClosedAt(s)' = now

\* Consuming a code changes its timestamp and nothing else of the row.
LEMMA StampedCode ==
  ASSUME NEW row \in CodeRow, NEW t \in Timestamp
  PROVE  /\ [row EXCEPT !.consumed = t] \in CodeRow
         /\ [row EXCEPT !.consumed = t].owner = row.owner
         /\ [row EXCEPT !.consumed = t].expires = row.expires
         /\ [row EXCEPT !.consumed = t].consumed = t
         /\ t = row.consumed => [row EXCEPT !.consumed = t] = row
  BY DEF CodeRow

\* Revoking a refresh token changes its timestamp and nothing else of the row.
LEMMA StampedRefresh ==
  ASSUME NEW row \in RefreshRow, NEW t \in Timestamp
  PROVE  /\ [row EXCEPT !.revoked = t] \in RefreshRow
         /\ [row EXCEPT !.revoked = t].owner = row.owner
         /\ [row EXCEPT !.revoked = t].access = row.access
         /\ [row EXCEPT !.revoked = t].expires = row.expires
         /\ [row EXCEPT !.revoked = t].revoked = t
         /\ t = row.revoked => [row EXCEPT !.revoked = t] = row
  BY DEF RefreshRow

\* The stamp keeps a time that is set, and otherwise is now.
LEMMA StampTime ==
  ASSUME TypeOK, NEW t \in Timestamp
  PROVE  /\ StampOnce(t) \in Timestamp
         /\ StampOnce(t) = t \/ (t = NoTime /\ StampOnce(t) = now)
  <1>1. now \in Nat
    BY DEF TypeOK
  <1>2. CASE t = NoTime
    BY <1>1, <1>2 DEF StampOnce, Timestamp
  <1>3. CASE t # NoTime
    BY <1>3 DEF StampOnce
  <1> QED BY <1>2, <1>3

\* A row of the code table is never removed or rewritten, only closed.
LEMMA CodesOnlyClose ==
  ASSUME TypeOK, LocalsAgree, [Next]_vars, NEW c \in CodeIds, codes[c] # NULL
  PROVE  /\ codes'[c] # NULL
         /\ codes'[c].owner = codes[c].owner
         /\ codes'[c].expires = codes[c].expires
         /\ \/ codes'[c] = codes[c]
            \/ codes[c].consumed = NoTime /\ codes'[c].consumed = now
  <1>1. codes[c] \in CodeRow
    BY DEF TypeOK
  <1>2. ASSUME NEW r \in Requests, ConsumeCode(r)
        PROVE  \/ codes'[c] = codes[c]
               \/ codes'[c] = [codes[c] EXCEPT !.consumed = StampOnce(@)]
    BY <1>2 DEF TypeOK, ConsumeCode
  <1>3. ASSUME NEW cl, NEW u, NEW redirect, NEW scope, NEW challenge,
               AuthorizeOAuth2Client(cl, u, redirect, scope, challenge)
        PROVE  codes'[c] = codes[c]
    <2>1. PICK S : codes \in [CodeIds -> S]
      BY DEF TypeOK
    <2> QED BY <1>3, <2>1 DEF AuthorizeOAuth2Client, CreateOAuthAuthorizationCode
  <1>4. (\E r \in Requests : ConsumeCode(r)) \/ codes' = codes
          \/ \E cl, u, redirect, scope, challenge :
               AuthorizeOAuth2Client(cl, u, redirect, scope, challenge)
    BY DEF Next, vars, HandlerStep, ReadCode, ReadRefresh, RevokeOldRefresh,
       CreateAccessToken, CreateRefreshToken, ExchangeClientCredentials,
       RevokeAccessToken, RevokeRefreshToken, Crash, Tick
  <1>5. \/ codes'[c] = codes[c]
        \/ codes'[c] = [codes[c] EXCEPT !.consumed = StampOnce(@)]
    BY <1>2, <1>3, <1>4
  <1>6. codes[c].consumed \in Timestamp
    BY <1>1 DEF CodeRow
  <1>7. CASE codes'[c] = codes[c]
    BY <1>7
  <1>8. CASE codes'[c] = [codes[c] EXCEPT !.consumed = StampOnce(@)]
    <2> DEFINE t == StampOnce(codes[c].consumed)
    <2>1. t \in Timestamp /\ (t = codes[c].consumed \/ (codes[c].consumed = NoTime /\ t = now))
      BY <1>6, StampTime
    <2>2. codes'[c] = [codes[c] EXCEPT !.consumed = t]
      BY <1>8
    <2> HIDE DEF t
    <2> QED BY <1>1, <2>1, <2>2, StampedCode
  <1> QED BY <1>5, <1>7, <1>8

\* A row of the refresh table is never removed or rewritten, only closed.
LEMMA RefreshOnlyCloses ==
  ASSUME TypeOK, LocalsAgree, [Next]_vars, NEW f \in RefreshIds, refresh[f] # NULL
  PROVE  /\ refresh'[f] # NULL
         /\ refresh'[f].owner = refresh[f].owner
         /\ refresh'[f].access = refresh[f].access
         /\ refresh'[f].expires = refresh[f].expires
         /\ \/ refresh'[f] = refresh[f]
            \/ refresh[f].revoked = NoTime /\ refresh'[f].revoked = now
  <1>1. refresh[f] \in RefreshRow
    BY DEF TypeOK
  <1>2. ASSUME NEW r \in Requests, RevokeOldRefresh(r)
        PROVE  \/ refresh'[f] = refresh[f]
               \/ refresh'[f] = [refresh[f] EXCEPT !.revoked = StampOnce(@)]
    BY <1>2 DEF TypeOK, RevokeOldRefresh
  <1>3. ASSUME NEW r \in Requests, CreateRefreshToken(r)
        PROVE  refresh'[f] = refresh[f]
    BY <1>3 DEF TypeOK, CreateRefreshToken
  <1>4. ASSUME NEW g \in RefreshIds, RevokeRefreshToken(g)
        PROVE  \/ refresh'[f] = refresh[f]
               \/ refresh'[f] = [refresh[f] EXCEPT !.revoked = StampOnce(@)]
    BY <1>4 DEF TypeOK, RevokeRefreshToken
  <1>5. \/ refresh'[f] = refresh[f]
        \/ refresh'[f] = [refresh[f] EXCEPT !.revoked = StampOnce(@)]
    BY <1>2, <1>3, <1>4 DEF Next, vars, HandlerStep, AuthorizeOAuth2Client,
       ReadCode, ReadRefresh, ConsumeCode, CreateAccessToken,
       ExchangeClientCredentials, RevokeAccessToken, Crash, Tick
  <1>6. refresh[f].revoked \in Timestamp
    BY <1>1 DEF RefreshRow
  <1>7. CASE refresh'[f] = refresh[f]
    BY <1>7
  <1>8. CASE refresh'[f] = [refresh[f] EXCEPT !.revoked = StampOnce(@)]
    <2> DEFINE t == StampOnce(refresh[f].revoked)
    <2>1. t \in Timestamp /\ (t = refresh[f].revoked \/ (refresh[f].revoked = NoTime /\ t = now))
      BY <1>6, StampTime
    <2>2. refresh'[f] = [refresh[f] EXCEPT !.revoked = t]
      BY <1>8
    <2> HIDE DEF t
    <2> QED BY <1>1, <2>1, <2>2, StampedRefresh
  <1> QED BY <1>5, <1>7, <1>8

\* Both kinds of grant: a step can only open a new one or close an old one.
LEMMA GrantsOnlyClose ==
  ASSUME TypeOK, LocalsAgree, [Next]_vars, NEW s \in Sources
  PROVE  RowOnlyCloses(s)
  <1>1. CASE s \in CodeIds
    BY <1>1, CodesOnlyClose DEF RowOnlyCloses, SourceRow, ClosedAt
  <1>2. CASE s \in RefreshIds
    BY <1>2, RefreshOnlyCloses DEF RowOnlyCloses, SourceRow, ClosedAt
  <1> QED BY <1>1, <1>2 DEF Sources

-----------------------------------------------------------------------------
(* The inductive invariant behind lineage: the tables, what the handlers   *)
(* carry, and what has been minted agree with each other.                  *)

IInv == TypeOK /\ LocalsAgree /\ OwnerPreserved

\* The clock does not go back.
LEMMA TimeAdvances ==
  ASSUME TypeOK, [Next]_vars
  PROVE  now \in Nat /\ now' \in Nat /\ now <= now'
  <1>1. now \in Nat
    BY DEF TypeOK
  <1>2. now' = now \/ now' = now + 1
    BY DEF Next, vars, HandlerStep, AuthorizeOAuth2Client, ReadCode,
     ReadRefresh, ConsumeCode, RevokeOldRefresh, CreateAccessToken,
     CreateRefreshToken, ExchangeClientCredentials, RevokeAccessToken,
     RevokeRefreshToken, Crash, Tick
  <1> QED BY <1>1, <1>2

\* An access token keeps its owner, and the record of how it was minted.
LEMMA AccessStays ==
  ASSUME IInv, [Next]_vars, NEW a \in AccessIds, access[a] # NULL
  PROVE  /\ access'[a] # NULL
         /\ access'[a].owner = access[a].owner
         /\ minted'[a] = minted[a]
  <1>1. access[a] \in AccessRow
    BY DEF IInv, TypeOK
  <1>2. ASSUME NEW r \in Requests, CreateAccessToken(r)
        PROVE  access'[a] = access[a] /\ minted'[a] = minted[a]
    BY <1>2 DEF IInv, TypeOK, CreateAccessToken
  <1>3. ASSUME NEW cl, NEW secret, NEW scope,
               ExchangeClientCredentials(cl, secret, scope)
        PROVE  access'[a] = access[a] /\ minted'[a] = minted[a]
    BY <1>3 DEF IInv, TypeOK, ExchangeClientCredentials
  <1>4. ASSUME NEW b \in AccessIds, RevokeAccessToken(b)
        PROVE  /\ access'[a] # NULL /\ access'[a].owner = access[a].owner
               /\ minted'[a] = minted[a]
    <2>1. StampOnce(access[a].revoked) \in Timestamp
      BY <1>1, StampTime DEF IInv, AccessRow
    <2>2. \/ access'[a] = access[a]
          \/ access'[a] = [access[a] EXCEPT !.revoked = StampOnce(access[a].revoked)]
      BY <1>4 DEF IInv, TypeOK, RevokeAccessToken
    <2>3. ASSUME NEW t \in Timestamp
          PROVE  /\ [access[a] EXCEPT !.revoked = t] \in AccessRow
                 /\ [access[a] EXCEPT !.revoked = t].owner = access[a].owner
      BY <1>1 DEF AccessRow
    <2> QED BY <1>1, <1>4, <2>1, <2>2, <2>3 DEF RevokeAccessToken
  <1>5. CASE UNCHANGED <<access, minted>>
    BY <1>5
  <1> QED
    BY <1>2, <1>3, <1>4, <1>5 DEF Next, vars, HandlerStep, AuthorizeOAuth2Client,
       ReadCode, ReadRefresh, ConsumeCode, RevokeOldRefresh, CreateRefreshToken,
       RevokeRefreshToken, Crash, Tick

\* A handler writes no other handler's locals.
LEMMA OthersKeepTheirs ==
  ASSUME TypeOK, NEW r \in Requests, NEW q \in Requests, q # r,
         \/ HandlerStep(q)
         \/ \E cl \in Clients, secret \in Secrets, c \in CodeIds,
               redirect \in Redirects, verifier \in Verifiers \cup {NULL} :
               ReadCode(q, cl, secret, c, redirect, verifier)
         \/ \E cl \in Clients, secret \in Secrets, f \in RefreshIds :
               ReadRefresh(q, cl, secret, f)
  PROVE  request'[r] = request[r]
  <1>1. PICK S : request \in [Requests -> S]
    BY DEF TypeOK
  <1>2. ASSUME NEW s, NEW owner, Hold(q, s, owner) PROVE request'[r] = request[r]
    BY <1>1, <1>2 DEF Hold
  <1>3. CASE ConsumeCode(q) \/ RevokeOldRefresh(q)
    BY <1>1, <1>3 DEF ConsumeCode, RevokeOldRefresh, issueJWT
  <1>4. CASE CreateAccessToken(q) \/ CreateRefreshToken(q)
    BY <1>1, <1>4 DEF CreateAccessToken, CreateRefreshToken
  <1> QED BY <1>2, <1>3, <1>4 DEF HandlerStep, ReadCode, ReadRefresh

\* Other handlers' steps leave a running handler's locals in agreement.
LEMMA LocalsKept ==
  ASSUME IInv, [Next]_vars, NEW r \in Requests, Running(r),
         request'[r] = request[r]
  PROVE  LocalsOf(r)'
  <1>1. LocalsOf(r) /\ request[r] \in RequestState
    BY DEF IInv, LocalsAgree, TypeOK
  <1>2. PICK s \in Sources : s = request[r].source
    BY <1>1 DEF LocalsOf, RequestState
  <1>3. RowOnlyCloses(s)
    BY <1>2, GrantsOnlyClose DEF IInv
  <1>4. now \in Nat /\ now' \in Nat /\ now <= now'
    BY TimeAdvances DEF IInv
  <1>5. request[r].pc = "refresh" => minted'[request[r].access] = minted[request[r].access]
    BY <1>1, AccessStays DEF IInv, OwnerPreserved, LocalsOf, RequestState
  <1>6. request[r].readAt \in Nat
    BY <1>1 DEF LocalsOf, RequestState, Timestamp
  <1> QED BY <1>1, <1>2, <1>3, <1>4, <1>5, <1>6 DEF LocalsOf, RowOnlyCloses

\* A handler that has just read its grant.
LEMMA LocalsOnRead ==
  ASSUME IInv, [Next]_vars, NEW r \in Requests, NEW s \in Sources,
         SourceRow(s) # NULL, ClosedAt(s) = NoTime,
         ~ (SourceRow(s).expires < now), SourceRow(s).expires \in Nat,
         Hold(r, s, SourceRow(s).owner), UNCHANGED <<codes, refresh, now>>
  PROVE  LocalsOf(r)'
  <1>1. now \in Nat /\ now' = now
    BY DEF IInv, TypeOK
  <1>2. request'[r] = [pc |-> "close", source |-> s, owner |-> SourceRow(s).owner,
                       readAt |-> now, exp |-> NoTime, access |-> NULL]
    BY DEF Hold, IInv, TypeOK
  <1>3. SourceRow(s)' = SourceRow(s) /\ ClosedAt(s)' = ClosedAt(s)
    BY DEF SourceRow, ClosedAt
  <1>4. now # NoTime /\ s # NULL /\ now <= SourceRow(s).expires
    BY <1>1 DEF NoTime
  <1> QED BY <1>1, <1>2, <1>3, <1>4 DEF LocalsOf

\* A handler that has just stamped its grant and signed the token.
LEMMA LocalsOnClose ==
  ASSUME IInv, [Next]_vars, NEW r \in Requests, Running(r),
         issueJWT(r), UNCHANGED <<now>>
  PROVE  LocalsOf(r)'
  <1>1. LocalsOf(r) /\ request[r] \in RequestState
    BY DEF IInv, LocalsAgree, TypeOK
  <1>4. PICK s \in Sources : s = request[r].source
    BY <1>1 DEF LocalsOf, RequestState
  <1>2. request'[r] = [request[r] EXCEPT !.pc = "access", !.exp = now + AccessTTL]
    BY DEF issueJWT, IInv, TypeOK
  <1>3. /\ request'[r].pc = "access" /\ request'[r].exp = now + AccessTTL
        /\ request'[r].source = s /\ request'[r].owner = request[r].owner
        /\ request'[r].readAt = request[r].readAt
    BY <1>1, <1>2, <1>4 DEF RequestState
  <1>5. RowOnlyCloses(s)
    BY <1>4, GrantsOnlyClose DEF IInv
  <1>6. now \in Nat /\ now' = now /\ now + AccessTTL # NoTime
    BY DEF IInv, TypeOK, NoTime
  <1>7. request[r].readAt \in Nat
    BY <1>1 DEF LocalsOf, RequestState, Timestamp
  <1> QED BY <1>1, <1>3, <1>4, <1>5, <1>6, <1>7 DEF LocalsOf, RowOnlyCloses

\* The locals of a handler stay true over an access-token INSERT, its own included.
LEMMA LocalsOnMint ==
  ASSUME IInv, [Next]_vars, NEW r \in Requests, CreateAccessToken(r), Running(r)'
  PROVE  LocalsOf(r)'
  <1>1. LocalsOf(r) /\ request[r] \in RequestState /\ request[r].pc = "access"
    BY DEF IInv, LocalsAgree, TypeOK, CreateAccessToken, Running
  <1>0. PICK s \in Sources : s = request[r].source
    BY <1>1 DEF LocalsOf, RequestState
  <1>2. PICK a \in AccessIds, outcome \in Outcomes :
          /\ IF Applied(outcome)
             THEN minted' = [minted EXCEPT ![a] =
                     [source |-> s, by |-> r, readAt |-> request[r].readAt]]
             ELSE TRUE
          /\ request' = [request EXCEPT ![r] =
               IF Reported(outcome)
               THEN [@ EXCEPT !.pc = "refresh", !.access = a] ELSE Idle]
    BY <1>0 DEF CreateAccessToken
  <1>3. Reported(outcome) /\ Applied(outcome)
    BY <1>2 DEF Running, Idle, IInv, TypeOK, Reported, Applied
  <1>4. request'[r] = [request[r] EXCEPT !.pc = "refresh", !.access = a]
    BY <1>2, <1>3 DEF IInv, TypeOK
  <1>5. /\ request'[r].pc = "refresh" /\ request'[r].access = a
        /\ request'[r].source = s /\ request'[r].owner = request[r].owner
        /\ request'[r].readAt = request[r].readAt
        /\ request'[r].exp = request[r].exp
    BY <1>0, <1>1, <1>4 DEF RequestState
  <1>6. minted'[a] = [source |-> s, by |-> r, readAt |-> request[r].readAt]
    BY <1>2, <1>3 DEF IInv, TypeOK
  <1>7. minted'[a] # NULL /\ minted'[a].source = s /\ a # NULL
    <2>1. minted'[a] \in MintRecord
      BY <1>0, <1>1, <1>6 DEF LocalsOf, RequestState, MintRecord, Timestamp
    <2> QED BY <1>6, <2>1 DEF MintRecord
  <1>8. UNCHANGED <<codes, refresh, now>>
    BY DEF CreateAccessToken
  <1>9. SourceRow(s)' = SourceRow(s) /\ ClosedAt(s)' = ClosedAt(s)
    BY <1>8 DEF SourceRow, ClosedAt
  <1> QED BY <1>0, <1>1, <1>5, <1>7, <1>8, <1>9 DEF LocalsOf

\* The locals of every handler stay true over every step.
LEMMA LocalsStep == IInv /\ [Next]_vars => LocalsAgree'
  <1> SUFFICES ASSUME IInv, [Next]_vars, NEW r \in Requests, Running(r)'
               PROVE  LocalsOf(r)'
    BY DEF LocalsAgree
  <1> DEFINE Kept == request'[r] = request[r]
  <1>0. Running(r) \/ ~ Kept
    BY DEF Running
  <1>1. ASSUME Kept PROVE LocalsOf(r)'
    BY <1>0, <1>1, LocalsKept
  <1>2. ASSUME NEW cl \in Clients, NEW secret \in Secrets, NEW c \in CodeIds,
               NEW redirect \in Redirects, NEW verifier \in Verifiers \cup {NULL},
               ReadCode(r, cl, secret, c, redirect, verifier)
        PROVE  LocalsOf(r)'
    <2>1. c \in Sources /\ SourceRow(c) = codes[c] /\ ClosedAt(c) = codes[c].consumed
      BY DEF SourceRow, ClosedAt, Sources
    <2>2. codes[c] # NULL /\ codes[c].expires \in Nat
      BY <1>2 DEF ReadCode, IInv, TypeOK, CodeRow
    <2>3. Hold(r, c, SourceRow(c).owner) /\ UNCHANGED <<codes, refresh, now>>
      BY <1>2, <2>1 DEF ReadCode
    <2>4. ClosedAt(c) = NoTime /\ ~ (SourceRow(c).expires < now)
      BY <1>2, <2>1 DEF ReadCode, CodeUsable
    <2> QED BY <2>1, <2>2, <2>3, <2>4, LocalsOnRead
  <1>3. ASSUME NEW cl \in Clients, NEW secret \in Secrets, NEW f \in RefreshIds,
               ReadRefresh(r, cl, secret, f)
        PROVE  LocalsOf(r)'
    <2>1. f \in Sources /\ SourceRow(f) = refresh[f] /\ ClosedAt(f) = refresh[f].revoked
      BY DEF SourceRow, ClosedAt, Sources
    <2>2. refresh[f] # NULL /\ refresh[f].expires \in Nat
      BY <1>3 DEF ReadRefresh, IInv, TypeOK, RefreshRow
    <2>3. Hold(r, f, SourceRow(f).owner) /\ UNCHANGED <<codes, refresh, now>>
      BY <1>3, <2>1 DEF ReadRefresh
    <2>4. ClosedAt(f) = NoTime /\ ~ (SourceRow(f).expires < now)
      BY <1>3, <2>1 DEF ReadRefresh, RefreshUsable
    <2> QED BY <2>1, <2>2, <2>3, <2>4, LocalsOnRead
  <1>4. CASE ConsumeCode(r) \/ RevokeOldRefresh(r)
    BY <1>4, LocalsOnClose DEF ConsumeCode, RevokeOldRefresh, Running
  <1>5. CASE CreateAccessToken(r)
    BY <1>5, LocalsOnMint
  <1>6. CASE CreateRefreshToken(r)
    BY <1>6 DEF CreateRefreshToken, Running, Idle, IInv, TypeOK
  <1>7. ASSUME NEW q \in Requests, q # r,
               \/ HandlerStep(q)
               \/ \E cl \in Clients, secret \in Secrets, c \in CodeIds,
                     redirect \in Redirects, verifier \in Verifiers \cup {NULL} :
                     ReadCode(q, cl, secret, c, redirect, verifier)
               \/ \E cl \in Clients, secret \in Secrets, f \in RefreshIds :
                     ReadRefresh(q, cl, secret, f)
        PROVE  Kept
    BY <1>7, OthersKeepTheirs DEF IInv
  <1>8. ~ Crash
    BY DEF Crash, Running, Idle
  <1>9. CASE UNCHANGED request
    BY <1>9, <1>1
  <1> QED
    BY <1>1, <1>2, <1>3, <1>4, <1>5, <1>6, <1>7, <1>8, <1>9 DEF Next, vars,
       HandlerStep, AuthorizeOAuth2Client, ExchangeClientCredentials,
       RevokeAccessToken, RevokeRefreshToken, Tick

\* A refresh row that is new was inserted by a handler at its last statement.
LEMMA NewRefresh ==
  ASSUME IInv, [Next]_vars, NEW f \in RefreshIds, refresh[f] = NULL, refresh'[f] # NULL
  PROVE  \E r \in Requests : CreateRefreshToken(r)
  <1>1. ASSUME NEW q \in Requests, RevokeOldRefresh(q) PROVE FALSE
    <2>1. request[q].source \in RefreshIds /\ refresh[request[q].source] # NULL
      BY <1>1 DEF RevokeOldRefresh, IInv, LocalsAgree, LocalsOf, Running, SourceRow
    <2>2. request[q].source # f /\ refresh \in [RefreshIds -> RefreshRow \cup {NULL}]
      BY <2>1 DEF IInv, TypeOK
    <2>3. refresh'[f] = refresh[f]
      BY <1>1, <2>1, <2>2 DEF RevokeOldRefresh
    <2> QED BY <2>3
  <1>2. ~ \E g \in RefreshIds : RevokeRefreshToken(g)
    BY DEF RevokeRefreshToken, IInv, TypeOK
  <1> QED
    BY <1>1, <1>2 DEF Next, vars, HandlerStep, AuthorizeOAuth2Client,
       ReadCode, ReadRefresh, ConsumeCode, CreateAccessToken,
       ExchangeClientCredentials, RevokeAccessToken, Crash, Tick

\* The grant a token came from, and the pairing of refresh and access tokens,
\* keep their owner.
LEMMA OwnerStep == IInv /\ [Next]_vars => OwnerPreserved'
  <1> SUFFICES ASSUME IInv, [Next]_vars PROVE OwnerPreserved'
    OBVIOUS
  <1> DEFINE Lineage(a) == /\ access[a] # NULL
                           /\ SourceRow(minted[a].source) # NULL
                           /\ access[a].owner = SourceRow(minted[a].source).owner
             Pairing(f) == /\ minted[refresh[f].access] # NULL
                           /\ refresh[f].owner = access[refresh[f].access].owner
  <1>1. ASSUME NEW a \in AccessIds, minted[a] # NULL PROVE Lineage(a)'
    <2>1. access[a] # NULL /\ minted'[a] = minted[a]
      BY <1>1, AccessStays DEF IInv, OwnerPreserved
    <2>2. PICK s \in Sources : s = minted[a].source
      BY <1>1 DEF IInv, TypeOK, MintRecord
    <2>3. RowOnlyCloses(s)
      BY GrantsOnlyClose DEF IInv
    <2> QED BY <1>1, <2>1, <2>2, <2>3, AccessStays DEF RowOnlyCloses, IInv, OwnerPreserved
  <1>2. ASSUME NEW a \in AccessIds, minted[a] = NULL, minted'[a] # NULL
        PROVE  Lineage(a)'
    <2>1. PICK r \in Requests : CreateAccessToken(r)
      BY <1>2 DEF Next, vars, HandlerStep, AuthorizeOAuth2Client, ReadCode,
         ReadRefresh, ConsumeCode, RevokeOldRefresh, CreateRefreshToken,
         ExchangeClientCredentials, RevokeAccessToken, RevokeRefreshToken, Crash, Tick
    <2>2. LocalsOf(r) /\ request[r] \in RequestState
      BY <2>1 DEF IInv, TypeOK, LocalsAgree, CreateAccessToken, Running
    <2>3. PICK s \in Sources : s = request[r].source
      BY <2>2 DEF LocalsOf, RequestState
    <2>4. /\ minted'[a] = [source |-> s, by |-> r, readAt |-> request[r].readAt]
          /\ access'[a] = [owner |-> request[r].owner, expires |-> request[r].exp,
                           revoked |-> NoTime]
          /\ UNCHANGED <<codes, refresh>>
      BY <1>2, <2>1, <2>3 DEF CreateAccessToken, IInv, TypeOK
    <2>5. access'[a] # NULL
      <3>1. /\ request[r].owner \in Owner /\ request[r].exp \in Nat
        BY <2>1, <2>2 DEF LocalsOf, CreateAccessToken, RequestState, Timestamp, IInv,
           TypeOK, SourceRow, CodeRow, RefreshRow, Sources
      <3>2. access'[a] \in AccessRow
        BY <2>4, <3>1 DEF AccessRow, Timestamp
      <3> QED BY <3>2
    <2>6. SourceRow(s)' = SourceRow(s)
      BY <2>4 DEF SourceRow
    <2> QED BY <2>2, <2>3, <2>4, <2>5, <2>6 DEF LocalsOf
  <1>3. ASSUME NEW f \in RefreshIds, refresh[f] # NULL PROVE Pairing(f)'
    <2>1. PICK a \in AccessIds : a = refresh[f].access
      BY <1>3 DEF IInv, TypeOK, RefreshRow
    <2>2. minted[a] # NULL /\ access[a] # NULL /\ refresh[f].owner = access[a].owner
      BY <1>3, <2>1 DEF IInv, OwnerPreserved
    <2>3. refresh'[f].access = a /\ refresh'[f].owner = refresh[f].owner
      BY <1>3, <2>1, RefreshOnlyCloses DEF IInv
    <2> QED BY <2>2, <2>3, AccessStays
  <1>4. ASSUME NEW f \in RefreshIds, refresh[f] = NULL, refresh'[f] # NULL
        PROVE  Pairing(f)'
    <2>1. PICK r \in Requests : CreateRefreshToken(r)
      BY <1>4, NewRefresh
    <2>2. LocalsOf(r) /\ request[r] \in RequestState /\ request[r].pc = "refresh"
      BY <2>1 DEF IInv, TypeOK, LocalsAgree, CreateRefreshToken, Running
    <2>3. PICK a \in AccessIds : a = request[r].access
      BY <2>2 DEF LocalsOf, RequestState
    <2>4. /\ refresh'[f].owner = request[r].owner /\ refresh'[f].access = a
          /\ UNCHANGED <<access, minted>>
      BY <1>4, <2>1, <2>3 DEF CreateRefreshToken, IInv, TypeOK
    <2>5. minted[a] # NULL /\ access[a].owner = request[r].owner
      BY <2>2, <2>3 DEF LocalsOf, IInv, OwnerPreserved
    <2> QED BY <2>4, <2>5
  <1> QED BY <1>1, <1>2, <1>3, <1>4 DEF OwnerPreserved

\* The inductive invariant is preserved.
LEMMA IInvStep == IInv /\ [Next]_vars => IInv'
  BY StepType, LocalsStep, OwnerStep DEF IInv

\* The inductive invariant holds at start-up.
LEMMA InitIInv == Init => IInv
  BY InitSafe DEF IInv, Init, OwnerPreserved

\* IInv holds in every reachable state.
LEMMA Inductive == Spec => []IInv
  BY InitIInv, IInvStep, PTL DEF Spec

\* The tables and the handlers' local variables are always well typed.
THEOREM TypeCorrect == Spec => []TypeOK
  <1>1. IInv => TypeOK
    BY DEF IInv
  <1> QED BY <1>1, Inductive, PTL

\* Every token of a family carries the client, user and scope that were
\* approved for its code, whatever other handlers and crashes do.
THEOREM OwnerIsPreserved == Spec => []OwnerPreserved
  <1>1. IInv => OwnerPreserved
    BY DEF IInv
  <1> QED BY <1>1, Inductive, PTL

\* What a running handler carries stays true of the tables.
THEOREM LocalsStayTrue == Spec => []LocalsAgree
  <1>1. IInv => LocalsAgree
    BY DEF IInv
  <1> QED BY <1>1, Inductive, PTL

-----------------------------------------------------------------------------
(* What the WHERE clauses guarantee: a closing time is written once.       *)

\* A row of the access table is never removed or rewritten, only revoked.
LEMMA AccessOnlyCloses ==
  ASSUME IInv, [Next]_vars, NEW a \in AccessIds, access[a] # NULL,
         access[a].revoked # NoTime
  PROVE  access'[a] = access[a]
  <1>1. access[a] \in AccessRow
    BY DEF IInv, TypeOK
  <1>2. ASSUME NEW b \in AccessIds, RevokeAccessToken(b)
        PROVE  access'[a] = access[a]
    <2>1. StampOnce(access[a].revoked) = access[a].revoked
      BY DEF StampOnce
    <2>2. [access[a] EXCEPT !.revoked = access[a].revoked] = access[a]
      BY <1>1 DEF AccessRow
    <2> QED BY <1>2, <2>1, <2>2 DEF RevokeAccessToken, IInv, TypeOK
  <1>3. ASSUME NEW r \in Requests, CreateAccessToken(r)
        PROVE  access'[a] = access[a]
    BY <1>3 DEF CreateAccessToken, IInv, TypeOK
  <1>4. ASSUME NEW cl, NEW secret, NEW scope,
               ExchangeClientCredentials(cl, secret, scope)
        PROVE  access'[a] = access[a]
    BY <1>4 DEF ExchangeClientCredentials, IInv, TypeOK
  <1> QED
    BY <1>2, <1>3, <1>4 DEF Next, vars, HandlerStep, AuthorizeOAuth2Client,
       ReadCode, ReadRefresh, ConsumeCode, RevokeOldRefresh, CreateRefreshToken,
       RevokeRefreshToken, Crash, Tick

\* A closed row of any of the three tables stays as it is.
LEMMA ClosedStays ==
  ASSUME IInv, [Next]_vars
  PROVE  /\ \A c \in CodeIds :
               codes[c] # NULL /\ codes[c].consumed # NoTime => codes'[c] = codes[c]
         /\ \A f \in RefreshIds :
               refresh[f] # NULL /\ refresh[f].revoked # NoTime => refresh'[f] = refresh[f]
         /\ \A a \in AccessIds :
               access[a] # NULL /\ access[a].revoked # NoTime => access'[a] = access[a]
  BY CodesOnlyClose, RefreshOnlyCloses, AccessOnlyCloses DEF IInv

\* The first consumption or revocation stands, under any interleaving of the
\* UPDATEs of concurrent handlers.
THEOREM ClosureFinal == Spec => ClosureIsFinal
  <1>1. IInv /\ [Next]_vars =>
          [/\ \A c \in CodeIds :
                codes[c] # NULL /\ codes[c].consumed # NoTime => codes'[c] = codes[c]
           /\ \A f \in RefreshIds :
                refresh[f] # NULL /\ refresh[f].revoked # NoTime => refresh'[f] = refresh[f]
           /\ \A a \in AccessIds :
                access[a] # NULL /\ access[a].revoked # NoTime => access'[a] = access[a]
          ]_vars
    BY ClosedStays
  <1> QED BY <1>1, Inductive, PTL DEF Spec, ClosureIsFinal

-----------------------------------------------------------------------------
(* A token is minted only by a request that found its grant open.          *)

MintedInThePast == \A a \in AccessIds : minted[a] # NULL => minted[a].readAt <= now

\* Only the INSERT of a running handler mints, and the locals of that handler are
\* true of the tables.
LEMMA MintStep ==
  ASSUME IInv, [Next]_vars, NEW a \in AccessIds, minted[a] = NULL, minted'[a] # NULL
  PROVE  \E r \in Requests :
           /\ CreateAccessToken(r) /\ LocalsOf(r) /\ request[r] \in RequestState
           /\ minted'[a] = [source |-> request[r].source, by |-> r,
                            readAt |-> request[r].readAt]
           /\ UNCHANGED <<codes, refresh, now>>
  <1>1. PICK r \in Requests : CreateAccessToken(r)
    BY DEF Next, vars, HandlerStep, AuthorizeOAuth2Client, ReadCode,
       ReadRefresh, ConsumeCode, RevokeOldRefresh, CreateRefreshToken,
       ExchangeClientCredentials, RevokeAccessToken, RevokeRefreshToken, Crash, Tick
  <1>2. LocalsOf(r) /\ request[r] \in RequestState
    BY <1>1 DEF IInv, TypeOK, LocalsAgree, CreateAccessToken, Running
  <1>3. minted'[a] = [source |-> request[r].source, by |-> r,
                      readAt |-> request[r].readAt]
    BY <1>1 DEF CreateAccessToken, IInv, TypeOK
  <1> QED BY <1>1, <1>2, <1>3 DEF CreateAccessToken

\* A step mints only from what was read open.
LEMMA ReadWhileOpenStep ==
  IInv /\ MintedInThePast /\ ReadWhileOpen /\ [Next]_vars
    => MintedInThePast' /\ ReadWhileOpen'
  <1> SUFFICES ASSUME IInv, MintedInThePast, ReadWhileOpen, [Next]_vars,
                      NEW a \in AccessIds, minted'[a] # NULL
               PROVE  /\ minted'[a].readAt <= now'
                      /\ \/ ClosedAt(minted[a].source)' = NoTime
                         \/ minted'[a].readAt <= ClosedAt(minted[a].source)'
                      /\ minted'[a].readAt <= SourceRow(minted[a].source)'.expires
    BY DEF MintedInThePast, ReadWhileOpen
  <1>1. now \in Nat /\ now' \in Nat /\ now <= now'
    BY TimeAdvances DEF IInv
  <1>2. CASE minted[a] # NULL
    <2>1. minted'[a] = minted[a] /\ minted[a].readAt \in Nat
      BY <1>2, AccessStays DEF IInv, OwnerPreserved, TypeOK, MintRecord
    <2>2. PICK s \in Sources : s = minted[a].source
      BY <1>2 DEF IInv, TypeOK, MintRecord
    <2>3. RowOnlyCloses(s) /\ SourceRow(s) # NULL
      BY <1>2, <2>2, GrantsOnlyClose DEF IInv, OwnerPreserved
    <2> QED BY <1>1, <1>2, <2>1, <2>2, <2>3 DEF RowOnlyCloses, MintedInThePast, ReadWhileOpen
  <1>3. CASE minted[a] = NULL
    <2>1. PICK r \in Requests :
            /\ LocalsOf(r) /\ request[r] \in RequestState
            /\ minted'[a] = [source |-> request[r].source, by |-> r,
                             readAt |-> request[r].readAt]
            /\ UNCHANGED <<codes, refresh, now>>
      BY <1>3, MintStep
    <2>2. PICK s \in Sources : s = request[r].source
      BY <2>1 DEF LocalsOf, RequestState
    <2>3. SourceRow(s)' = SourceRow(s) /\ ClosedAt(s)' = ClosedAt(s)
      BY <2>1 DEF SourceRow, ClosedAt
    <2> QED BY <2>1, <2>2, <2>3 DEF LocalsOf
  <1> QED BY <1>2, <1>3

\* A token comes only from a request that read its grant before the grant was
\* consumed or revoked, and before it expired.
THEOREM ReadsWhileOpen == Spec => []ReadWhileOpen
  <1>1. Init => MintedInThePast /\ ReadWhileOpen
    BY DEF Init, MintedInThePast, ReadWhileOpen
  <1> QED BY <1>1, Inductive, ReadWhileOpenStep, PTL DEF Spec

-----------------------------------------------------------------------------
(* Single use, up to concurrency.  It needs that no UPDATE fails silently: *)
(* a lost reply or a crash does no harm.                                   *)

NoSilentFailure == "failed" \notin Faults

OneUse == MintedSourceIsClosed /\ ClaimsUnspent /\ OneMintPerRequest

\* Without silent failures, what is minted from is closed.
LEMMA MintedClosedStep ==
  ASSUME IInv, OneUse, [Next]_vars
  PROVE  MintedSourceIsClosed'
  <1> SUFFICES ASSUME NEW a \in AccessIds, minted'[a] # NULL
               PROVE  ClosedAt(minted[a].source)' # NoTime
    BY DEF MintedSourceIsClosed
  <1>1. CASE minted[a] # NULL
    <2>1. minted'[a] = minted[a]
      BY <1>1, AccessStays DEF IInv, OwnerPreserved
    <2>2. PICK s \in Sources : s = minted[a].source
      BY <1>1 DEF IInv, TypeOK, MintRecord
    <2>3. RowOnlyCloses(s) /\ SourceRow(s) # NULL
      BY <1>1, <2>2, GrantsOnlyClose DEF IInv, OwnerPreserved
    <2>4. ClosedAt(s) # NoTime
      BY <1>1, <2>2 DEF OneUse, MintedSourceIsClosed
    <2> QED BY <2>1, <2>2, <2>3, <2>4 DEF RowOnlyCloses
  <1>2. CASE minted[a] = NULL
    <2>1. PICK r \in Requests :
            /\ CreateAccessToken(r) /\ LocalsOf(r) /\ request[r] \in RequestState
            /\ minted'[a] = [source |-> request[r].source, by |-> r,
                             readAt |-> request[r].readAt]
            /\ UNCHANGED <<codes, refresh, now>>
      BY <1>2, MintStep
    <2>2. PICK s \in Sources : s = request[r].source
      BY <2>1 DEF LocalsOf, RequestState
    <2>3. ClosedAt(s) # NoTime
      BY <2>1, <2>2 DEF OneUse, ClaimsUnspent, CreateAccessToken
    <2>4. ClosedAt(s)' = ClosedAt(s)
      BY <2>1 DEF ClosedAt
    <2> QED BY <2>1, <2>2, <2>3, <2>4
  <1> QED BY <1>1, <1>2

\* Without silent failures, a slot that mints had not minted from this grant.
LEMMA OneMintStep ==
  ASSUME IInv, OneUse, [Next]_vars
  PROVE  OneMintPerRequest'
  <1> SUFFICES ASSUME NEW a \in AccessIds, NEW b \in AccessIds,
                      minted'[a] # NULL, minted'[b] # NULL,
                      minted'[a].source = minted'[b].source,
                      minted'[a].by = minted'[b].by
               PROVE  a = b
    BY DEF OneMintPerRequest
  <1>1. CASE minted[a] # NULL /\ minted[b] # NULL
    <2>1. minted'[a] = minted[a] /\ minted'[b] = minted[b]
      BY <1>1, AccessStays DEF IInv, OwnerPreserved
    <2> QED BY <1>1, <2>1 DEF OneUse, OneMintPerRequest
  <1>2. ASSUME NEW x \in AccessIds, NEW y \in AccessIds, minted[x] = NULL,
               minted'[x] # NULL, minted[y] # NULL
        PROVE  ~ (minted'[x].source = minted'[y].source /\ minted'[x].by = minted'[y].by)
    <2>1. minted'[y] = minted[y]
      BY <1>2, AccessStays DEF IInv, OwnerPreserved
    <2>2. PICK r \in Requests :
            /\ CreateAccessToken(r)
            /\ minted'[x] = [source |-> request[r].source, by |-> r,
                             readAt |-> request[r].readAt]
      BY <1>2, MintStep
    <2>3. ~ (minted[y].source = request[r].source /\ minted[y].by = r)
      BY <1>2, <2>2 DEF OneUse, ClaimsUnspent, CreateAccessToken, Holding
    <2> QED BY <2>1, <2>2, <2>3
  <1>3. CASE minted[a] = NULL /\ minted[b] = NULL
    <2>1. PICK r \in Requests : CreateAccessToken(r)
      BY <1>3, MintStep
    <2> QED BY <1>3, <2>1 DEF CreateAccessToken, IInv, TypeOK
  <1> QED BY <1>1, <1>2, <1>3

\* Without silent failures, the grant is closed once its UPDATE has returned.
LEMMA ClosedAfterUpdate ==
  ASSUME NoSilentFailure, IInv, NEW r \in Requests,
         ConsumeCode(r) \/ RevokeOldRefresh(r)
  PROVE  /\ ClosedAt(request[r].source)' # NoTime
         /\ request'[r].source = request[r].source
  <1>1. \A outcome \in Outcomes : Applied(outcome)
    BY DEF NoSilentFailure, Outcomes, Applied
  <1>2. LocalsOf(r) /\ request[r] \in RequestState /\ now \in Nat
    BY DEF IInv, LocalsAgree, TypeOK, Running, ConsumeCode, RevokeOldRefresh
  <1>3. PICK s \in Sources : s = request[r].source
    BY <1>2 DEF LocalsOf, RequestState
  <1>4. request'[r].source = s
    <2>1. request'[r] = [request[r] EXCEPT !.pc = "access", !.exp = now + AccessTTL]
      BY DEF ConsumeCode, RevokeOldRefresh, issueJWT, IInv, TypeOK
    <2> QED BY <1>2, <1>3, <2>1 DEF RequestState
  <1>5. now # NoTime
    BY <1>2 DEF NoTime
  <1>6. \A t : StampOnce(t) # NoTime
    BY <1>5 DEF StampOnce
  <1>7. CASE ConsumeCode(r)
    <2>1. s \in CodeIds /\ codes[s] \in CodeRow
      BY <1>2, <1>3, <1>7 DEF ConsumeCode, LocalsOf, SourceRow, IInv, TypeOK
    <2>2. codes' = [codes EXCEPT ![s].consumed = StampOnce(@)]
      BY <1>1, <1>3, <1>7 DEF ConsumeCode
    <2>3. codes'[s].consumed = StampOnce(codes[s].consumed)
      BY <2>1, <2>2 DEF IInv, TypeOK, CodeRow
    <2> QED BY <1>3, <1>4, <1>6, <2>1, <2>3 DEF ClosedAt
  <1>8. CASE RevokeOldRefresh(r)
    <2>1. s \in RefreshIds /\ s \notin CodeIds
      BY <1>3, <1>8 DEF RevokeOldRefresh
    <2>2. refresh[s] \in RefreshRow
      BY <1>2, <1>3, <2>1 DEF LocalsOf, SourceRow, IInv, TypeOK
    <2>3. refresh' = [refresh EXCEPT ![s].revoked = StampOnce(@)]
      BY <1>1, <1>3, <1>8 DEF RevokeOldRefresh
    <2>4. refresh'[s].revoked = StampOnce(refresh[s].revoked)
      BY <2>1, <2>2, <2>3 DEF IInv, TypeOK, RefreshRow
    <2> QED BY <1>3, <1>4, <1>6, <2>1, <2>4 DEF ClosedAt
  <1> QED BY <1>7, <1>8

\* The ways a step can change the locals of one handler.
HasRead(r, s) ==
    /\ SourceRow(s) # NULL /\ ClosedAt(s) = NoTime
    /\ Hold(r, s, SourceRow(s).owner)
    /\ UNCHANGED <<codes, refresh, minted>>

\* How a step can change a slot: it stays, it reads, it moves on, or it ends.
LEMMA RequestChange ==
  ASSUME IInv, [Next]_vars, NEW r \in Requests
  PROVE  \/ request'[r] = request[r]
         \/ request'[r] = Idle
         \/ \E s \in Sources : HasRead(r, s)
         \/ ConsumeCode(r) \/ RevokeOldRefresh(r) \/ CreateAccessToken(r)
  <1>1. ASSUME NEW cl, NEW secret, NEW c \in CodeIds, NEW redirect, NEW verifier,
               ReadCode(r, cl, secret, c, redirect, verifier)
        PROVE  \E s \in Sources : HasRead(r, s)
    BY <1>1 DEF ReadCode, CodeUsable, HasRead, SourceRow, ClosedAt, Sources
  <1>2. ASSUME NEW cl, NEW secret, NEW f \in RefreshIds, ReadRefresh(r, cl, secret, f)
        PROVE  \E s \in Sources : HasRead(r, s)
    <2>1. f \in Sources /\ f \notin CodeIds
      BY DEF Sources
    <2> QED BY <1>2, <2>1 DEF ReadRefresh, RefreshUsable, HasRead, SourceRow, ClosedAt
  <1>3. ASSUME CreateRefreshToken(r) PROVE request'[r] = Idle
    BY <1>3 DEF CreateRefreshToken, IInv, TypeOK
  <1>4. ASSUME NEW q \in Requests, q # r,
               \/ HandlerStep(q)
               \/ \E cl \in Clients, secret \in Secrets, c \in CodeIds,
                     redirect \in Redirects, verifier \in Verifiers \cup {NULL} :
                     ReadCode(q, cl, secret, c, redirect, verifier)
               \/ \E cl \in Clients, secret \in Secrets, f \in RefreshIds :
                     ReadRefresh(q, cl, secret, f)
        PROVE  request'[r] = request[r]
    BY <1>4, OthersKeepTheirs DEF IInv
  <1> QED
    BY <1>1, <1>2, <1>3, <1>4 DEF Next, vars, HandlerStep, AuthorizeOAuth2Client,
       ExchangeClientCredentials, RevokeAccessToken, RevokeRefreshToken, Crash, Tick

\* Inserting the access token is the end of the request's claim.
LEMMA MintMovesOn ==
  ASSUME IInv, NEW r \in Requests, CreateAccessToken(r)
  PROVE  /\ request'[r].pc # "access"
         /\ \/ request'[r] = Idle
            \/ /\ request'[r].pc = "refresh"
               /\ request'[r].source = request[r].source
  <1>1. request[r] \in RequestState
    BY DEF IInv, TypeOK
  <1>2. PICK a \in AccessIds :
          \/ request'[r] = Idle
          \/ request'[r] = [request[r] EXCEPT !.pc = "refresh", !.access = a]
    BY DEF CreateAccessToken, IInv, TypeOK
  <1>3. CASE request'[r] = Idle
    BY <1>3 DEF Idle
  <1>4. CASE request'[r] = [request[r] EXCEPT !.pc = "refresh", !.access = a]
    <2>1. request'[r].pc = "refresh" /\ request'[r].source = request[r].source
      BY <1>1, <1>4 DEF RequestState
    <2> QED BY <2>1
  <1> QED BY <1>2, <1>3, <1>4

\* Without silent failures, a slot that holds a grant has not used it up.
LEMMA ClaimsStep ==
  ASSUME NoSilentFailure, IInv, OneUse, [Next]_vars
  PROVE  ClaimsUnspent'
  <1> SUFFICES ASSUME NEW r \in Requests
               PROVE  /\ request'[r].pc \in {"access", "refresh"}
                           => ClosedAt(request[r].source)' # NoTime
                      /\ Holding(r)' => \A a \in AccessIds : minted'[a] # NULL =>
                           ~ (minted'[a].source = request'[r].source /\ minted'[a].by = r)
    BY DEF ClaimsUnspent
  <1>1. CASE request'[r] = request[r]
    <2>1. CASE ~ Running(r)
      BY <1>1, <2>1 DEF Running, Holding, IInv, TypeOK, RequestState
    <2>2. CASE Running(r)
      <3>1. LocalsOf(r) /\ request[r] \in RequestState
        BY <2>2 DEF IInv, LocalsAgree, TypeOK
      <3>2. PICK s \in Sources : s = request[r].source
        BY <3>1 DEF LocalsOf, RequestState
      <3>3. RowOnlyCloses(s) /\ SourceRow(s) # NULL
        BY <3>1, <3>2, GrantsOnlyClose DEF LocalsOf, IInv
      <3>4. request[r].pc \in {"access", "refresh"} => ClosedAt(s)' # NoTime
        BY <3>2, <3>3 DEF OneUse, ClaimsUnspent, RowOnlyCloses
      <3>5. ASSUME NEW a \in AccessIds, minted'[a] # NULL, Holding(r)
            PROVE  ~ (minted'[a].source = s /\ minted'[a].by = r)
        <4>1. CASE minted[a] # NULL
          <5>1. minted'[a] = minted[a]
            BY <4>1, AccessStays DEF IInv, OwnerPreserved
          <5> QED BY <3>2, <3>5, <4>1, <5>1 DEF OneUse, ClaimsUnspent
        <4>2. CASE minted[a] = NULL
          <5>1. PICK q \in Requests :
                  /\ CreateAccessToken(q)
                  /\ minted'[a] = [source |-> request[q].source, by |-> q,
                                   readAt |-> request[q].readAt]
            BY <3>5, <4>2, MintStep
          <5>2. minted'[a].by = q
            BY <5>1
          <5>3. q # r
            BY <1>1, <5>1, MintMovesOn DEF CreateAccessToken
          <5> QED BY <5>2, <5>3
        <4> QED BY <4>1, <4>2
      <3> QED BY <1>1, <3>2, <3>4, <3>5 DEF Holding
    <2> QED BY <2>1, <2>2
  <1>2. CASE request'[r] = Idle
    BY <1>2 DEF Idle, Holding
  <1>3. ASSUME NEW s \in Sources, HasRead(r, s)
        PROVE  /\ request'[r].pc = "close"
               /\ \A a \in AccessIds : minted'[a] # NULL =>
                    minted'[a].source # request'[r].source
    BY <1>3 DEF HasRead, Hold, OneUse, MintedSourceIsClosed, IInv, TypeOK
  <1>4. CASE ConsumeCode(r) \/ RevokeOldRefresh(r)
    <2>1. /\ ClosedAt(request[r].source)' # NoTime
          /\ request'[r].source = request[r].source
      BY <1>4, ClosedAfterUpdate
    <2>2. Holding(r) /\ UNCHANGED minted
      BY <1>4 DEF ConsumeCode, RevokeOldRefresh, Holding
    <2> QED BY <2>1, <2>2 DEF OneUse, ClaimsUnspent
  <1>5. CASE CreateAccessToken(r)
    <2>1. /\ LocalsOf(r) /\ request[r] \in RequestState
          /\ request[r].pc = "access" /\ ClosedAt(request[r].source) # NoTime
      BY <1>5 DEF IInv, LocalsAgree, TypeOK, CreateAccessToken, Running, OneUse, ClaimsUnspent
    <2>2. CASE request'[r].pc = "refresh" /\ request'[r].source = request[r].source
      <3>1. UNCHANGED <<codes, refresh>>
        BY <1>5 DEF CreateAccessToken
      <3> QED BY <2>1, <2>2, <3>1 DEF ClosedAt, Holding
    <2> QED BY <1>2, <1>5, <2>2, MintMovesOn
  <1> QED
    BY <1>1, <1>2, <1>3, <1>4, <1>5, RequestChange DEF Holding

\* The three parts of OneUse carry each other over a step.
LEMMA OneUseStep ==
  ASSUME NoSilentFailure
  PROVE  IInv /\ OneUse /\ [Next]_vars => OneUse'
  BY MintedClosedStep, ClaimsStep, OneMintStep DEF OneUse

\* OneUse is an invariant when no statement fails silently.
LEMMA OneUseInductive ==
  ASSUME NoSilentFailure
  PROVE  Spec => []OneUse
  <1>1. Init => OneUse
    BY DEF Init, OneUse, MintedSourceIsClosed, ClaimsUnspent, OneMintPerRequest,
           Holding, Idle
  <1>2. IInv /\ OneUse /\ [Next]_vars => OneUse'
    BY OneUseStep
  <1> QED BY <1>1, <1>2, Inductive, PTL DEF Spec

\* If no UPDATE fails silently, a grant is closed before anything is minted
\* from it, so a crash in between leaves no open grant with a token out.
THEOREM ClosedBeforeMint ==
  ASSUME NoSilentFailure
  PROVE  Spec => []MintedSourceIsClosed
  <1>1. OneUse => MintedSourceIsClosed
    BY DEF OneUse
  <1> QED BY <1>1, OneUseInductive, PTL

\* If no UPDATE fails silently, a request slot mints at most one token from a
\* grant: however many requests present a code, it yields no more tokens than
\* there are handlers.
THEOREM OneMint ==
  ASSUME NoSilentFailure
  PROVE  Spec => []OneMintPerRequest
  <1>1. OneUse => OneMintPerRequest
    BY DEF OneUse
  <1> QED BY <1>1, OneUseInductive, PTL

\* With one handler at a time and no silent failure, a grant yields one token:
\* the race between two exchanges is the only other way to a second one.
THEOREM SerialSingleUse ==
  ASSUME NoSilentFailure, NEW r, Requests = {r}
  PROVE  Spec => [](\A s \in Sources : \A a, b \in MintedFrom(s) : a = b)
  <1>1. TypeOK /\ OneMintPerRequest => \A s \in Sources : \A a, b \in MintedFrom(s) : a = b
    BY DEF TypeOK, OneMintPerRequest, MintedFrom, MintRecord
  <1> QED BY <1>1, TypeCorrect, OneMint, PTL

-----------------------------------------------------------------------------
(* Revocation.  AckedRevocationHolds does not say that the row is there.   *)

AckedRows ==
    /\ \A a \in AccessIds : a \in acked => access[a] # NULL
    /\ \A f \in RefreshIds : f \in acked => refresh[f] # NULL

\* A revocation is answered only by the two handlers that have just made it.
LEMMA AckStep ==
  ASSUME NoSilentFailure, IInv, [Next]_vars, NEW t, t \in acked', t \notin acked
  PROVE  \/ t \in AccessIds /\ access'[t] # NULL /\ access'[t].revoked # NoTime
         \/ t \in RefreshIds /\ refresh'[t] # NULL /\ refresh'[t].revoked # NoTime
  <1>1. ASSUME RevokeAccessToken(t), t \in AccessIds
        PROVE  access'[t] # NULL /\ access'[t].revoked # NoTime
    <2>1. access[t] \in AccessRow /\ access \in [AccessIds -> AccessRow \cup {NULL}]
      BY <1>1 DEF IInv, TypeOK, RevokeAccessToken
    <2>2. access' = [access EXCEPT ![t].revoked = StampOnce(@)]
      BY <1>1 DEF RevokeAccessToken, NoSilentFailure, Outcomes, Applied
    <2>3. StampOnce(access[t].revoked) # NoTime /\ StampOnce(access[t].revoked) \in Timestamp
      <3>1. access[t].revoked \in Timestamp /\ TypeOK /\ now \in Nat
        BY <2>1 DEF AccessRow, IInv, TypeOK
      <3> QED BY <3>1, StampTime DEF StampOnce, NoTime
    <2>4. access'[t] = [access[t] EXCEPT !.revoked = StampOnce(access[t].revoked)]
      BY <1>1, <2>1, <2>2
    <2>5. access'[t].revoked = StampOnce(access[t].revoked) /\ access'[t] \in AccessRow
      BY <2>1, <2>3, <2>4 DEF AccessRow
    <2> QED BY <2>3, <2>5
  <1>2. ASSUME RevokeRefreshToken(t), t \in RefreshIds
        PROVE  refresh'[t] # NULL /\ refresh'[t].revoked # NoTime
    <2>1. refresh[t] \in RefreshRow /\ refresh \in [RefreshIds -> RefreshRow \cup {NULL}]
      BY <1>2 DEF IInv, TypeOK, RevokeRefreshToken
    <2>2. refresh' = [refresh EXCEPT ![t].revoked = StampOnce(@)]
      BY <1>2 DEF RevokeRefreshToken, NoSilentFailure, Outcomes, Applied
    <2>3. StampOnce(refresh[t].revoked) # NoTime /\ StampOnce(refresh[t].revoked) \in Timestamp
      <3>1. refresh[t].revoked \in Timestamp /\ TypeOK /\ now \in Nat
        BY <2>1 DEF RefreshRow, IInv, TypeOK
      <3> QED BY <3>1, StampTime DEF StampOnce, NoTime
    <2>4. refresh'[t] = [refresh[t] EXCEPT !.revoked = StampOnce(refresh[t].revoked)]
      BY <1>2, <2>1, <2>2
    <2>5. refresh'[t].revoked = StampOnce(refresh[t].revoked) /\ refresh'[t] \in RefreshRow
      BY <2>1, <2>3, <2>4 DEF RefreshRow
    <2> QED BY <2>3, <2>5
  <1>3. \/ \E a \in AccessIds : RevokeAccessToken(a)
        \/ \E f \in RefreshIds : RevokeRefreshToken(f)
    BY DEF Next, vars, HandlerStep, AuthorizeOAuth2Client, ReadCode,
       ReadRefresh, ConsumeCode, RevokeOldRefresh, CreateAccessToken,
       CreateRefreshToken, ExchangeClientCredentials, Crash, Tick
  <1>4. ASSUME NEW a \in AccessIds, RevokeAccessToken(a) PROVE a = t
    BY <1>4 DEF RevokeAccessToken
  <1>5. ASSUME NEW f \in RefreshIds, RevokeRefreshToken(f) PROVE f = t
    BY <1>5 DEF RevokeRefreshToken
  <1> QED BY <1>1, <1>2, <1>3, <1>4, <1>5

\* What was acknowledged before stays revoked, and what is new has just been.
LEMMA AckedStep ==
  ASSUME NoSilentFailure, IInv, AckedRows, AckedRevocationHolds, [Next]_vars
  PROVE  AckedRows' /\ AckedRevocationHolds'
  <1>1. ASSUME NEW a \in AccessIds, a \in acked'
        PROVE  access'[a] # NULL /\ access'[a].revoked # NoTime
    <2>1. CASE a \in acked
      BY <2>1, ClosedStays DEF AckedRows, AckedRevocationHolds
    <2>2. CASE a \notin acked
      BY <1>1, <2>2, AckStep
    <2> QED BY <2>1, <2>2
  <1>2. ASSUME NEW f \in RefreshIds, f \in acked'
        PROVE  refresh'[f] # NULL /\ refresh'[f].revoked # NoTime
    <2>1. CASE f \in acked
      BY <2>1, ClosedStays DEF AckedRows, AckedRevocationHolds
    <2>2. CASE f \notin acked
      BY <1>2, <2>2, AckStep
    <2> QED BY <2>1, <2>2
  <1> QED BY <1>1, <1>2 DEF AckedRows, AckedRevocationHolds

\* If no UPDATE fails silently, a token whose revocation was answered with 200
\* is revoked from then on, whatever concurrent handlers write.
THEOREM RevocationStands ==
  ASSUME NoSilentFailure
  PROVE  Spec => []AckedRevocationHolds
  <1>1. Init => AckedRows /\ AckedRevocationHolds
    BY DEF Init, AckedRows, AckedRevocationHolds
  <1>2. IInv /\ AckedRows /\ AckedRevocationHolds /\ [Next]_vars
          => AckedRows' /\ AckedRevocationHolds'
    BY AckedStep
  <1> QED BY <1>1, <1>2, Inductive, PTL DEF Spec

-----------------------------------------------------------------------------
(* Token responses.                                                        *)

\* A 200 response leaves with the refresh token that was just stored for it.
LEMMA AnswerStep ==
  ASSUME IInv, [Next]_vars, NEW a \in AccessIds, a \in delivered', a \notin delivered
  PROVE  /\ access'[a] # NULL
         /\ \E f \in RefreshIds : refresh'[f] # NULL /\ refresh'[f].access = a
  <1>1. PICK r \in Requests : CreateRefreshToken(r)
    BY DEF Next, vars, HandlerStep, AuthorizeOAuth2Client, ReadCode, ReadRefresh,
       ConsumeCode, RevokeOldRefresh, CreateAccessToken, ExchangeClientCredentials,
       RevokeAccessToken, RevokeRefreshToken, Crash, Tick
  <1>2. LocalsOf(r) /\ request[r] \in RequestState /\ request[r].pc = "refresh"
    BY <1>1 DEF IInv, TypeOK, LocalsAgree, CreateRefreshToken, Running
  <1>3. PICK f \in RefreshIds, outcome \in Outcomes :
          /\ refresh' = IF Applied(outcome)
                        THEN [refresh EXCEPT ![f] =
                                [owner |-> request[r].owner, access |-> request[r].access,
                                 expires |-> now + RefreshTTL, revoked |-> NoTime]]
                        ELSE refresh
          /\ delivered' = IF Reported(outcome) THEN delivered \cup {request[r].access}
                                               ELSE delivered
    BY <1>1 DEF CreateRefreshToken
  <1>4. request[r].access = a /\ Reported(outcome) /\ Applied(outcome)
    BY <1>3 DEF Reported, Applied
  <1>5. access[a] # NULL /\ access' = access
    BY <1>1, <1>2, <1>4 DEF LocalsOf, IInv, OwnerPreserved, CreateRefreshToken
  <1>6. refresh'[f].access = a
    BY <1>3, <1>4 DEF IInv, TypeOK
  <1>7. refresh'[f] \in RefreshRow \cup {NULL} /\ refresh'[f] # NULL
    <2>1. request[r].owner \in Owner
      BY <1>2 DEF LocalsOf, RequestState, SourceRow, Sources, IInv, TypeOK, CodeRow,
         RefreshRow
    <2>2. [owner |-> request[r].owner, access |-> a, expires |-> now + RefreshTTL,
           revoked |-> NoTime] \in RefreshRow
      BY <2>1 DEF RefreshRow, Timestamp, IInv, TypeOK
    <2> QED BY <1>3, <1>4, <2>2 DEF IInv, TypeOK
  <1> QED BY <1>5, <1>6, <1>7

\* Rows are never removed, so a pair that was sent stays stored.
LEMMA BackedStep == IInv /\ DeliveredIsBacked /\ [Next]_vars => DeliveredIsBacked'
  <1> SUFFICES ASSUME IInv, DeliveredIsBacked, [Next]_vars, NEW a \in delivered'
               PROVE  /\ access'[a] # NULL
                      /\ \E f \in RefreshIds : refresh'[f] # NULL /\ refresh'[f].access = a
    BY DEF DeliveredIsBacked
  <1>1. a \in AccessIds
    BY IInvStep DEF IInv, TypeOK
  <1>2. CASE a \in delivered
    <2>1. PICK f \in RefreshIds : refresh[f] # NULL /\ refresh[f].access = a
      BY <1>2 DEF DeliveredIsBacked
    <2>2. access[a] # NULL
      BY <1>2 DEF DeliveredIsBacked
    <2> QED BY <1>1, <2>1, <2>2, AccessStays, RefreshOnlyCloses DEF IInv
  <1> QED BY <1>1, <1>2, AnswerStep

\* A 200 response of the token endpoint is sent only when both its tokens are
\* in the tables, whichever statements fail or commit unnoticed.
THEOREM ResponseIsBacked == Spec => []DeliveredIsBacked
  <1>1. Init => DeliveredIsBacked
    BY DEF Init, DeliveredIsBacked
  <1> QED BY <1>1, BackedStep, Inductive, PTL DEF Spec
=============================================================================
