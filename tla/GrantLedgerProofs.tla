-------------------------- MODULE GrantLedgerProofs --------------------------
(***************************************************************************)
(* The handlers and tables of OAuthGrants implement GrantLedger: every SQL *)
(* statement, however it ends, and every crash is a step of the ledger or  *)
(* changes nothing of it.  One lemma per statement says which step it is.  *)
(***************************************************************************)
EXTENDS OAuthGrantsProofs

USE ConstantsAssumption, KeysAssumption
USE DEF CreateOAuthAuthorizationCode, CreateOAuthAccessToken, CreateOAuthRefreshToken,
        ConsumeOAuthAuthorizationCode, RevokeOAuthAccessTokenByHash,
        RevokeOAuthRefreshTokenByHash

\* A token waiting for its refresh token has none yet, and nobody else to give
\* it one: without this a token could have two successors.
PairsPending ==
    /\ \A r \in Requests : request[r].pc = "refresh" =>
         \A f \in RefreshIds : refresh[f] # NULL =>
             refresh[f].access # request[r].access
    /\ \A r, q \in Requests :
         request[r].pc = "refresh" /\ request[q].pc = "refresh" /\ r # q =>
             request[r].access # request[q].access

LedgerInv == IInv /\ PairsPending

\* The initial tables are the ledger's initial state.
LEMMA InitMaps == Init => Ledger!LedgerInit
  BY DEF Init, Ledger!LedgerInit, entryBar, closedBar, claimBar, mintedBar,
         SourceRow, Holding, Idle, Sources

-----------------------------------------------------------------------------
(* Inserting the access token is the one way into "refresh".               *)

\* A handler arrives at its refresh-token INSERT with a token that has just
\* been stored under a key that had no row.
LEMMA ArrivesWithNewToken ==
  ASSUME IInv, [Next]_vars, NEW r \in Requests,
         request'[r].pc = "refresh", request'[r] # request[r]
  PROVE  /\ CreateAccessToken(r) /\ UNCHANGED refresh
         /\ request'[r].access \in AccessIds /\ access[request'[r].access] = NULL
         /\ \A q \in Requests : q # r => request'[q] = request[q]
  <1>1. CreateAccessToken(r)
    <2>1. ASSUME NEW s \in Sources, HasRead(r, s) PROVE FALSE
      BY <2>1 DEF HasRead, Hold, IInv, TypeOK
    <2>2. ASSUME ConsumeCode(r) \/ RevokeOldRefresh(r) PROVE FALSE
      <3>1. request'[r] = [request[r] EXCEPT !.pc = "access", !.exp = now + AccessTTL]
        BY <2>2 DEF ConsumeCode, RevokeOldRefresh, issueJWT, IInv, TypeOK
      <3> QED BY <3>1 DEF IInv, TypeOK, RequestState
    <2> QED BY <2>1, <2>2, RequestChange DEF Idle
  <1>2. PICK a \in AccessIds :
          /\ access[a] = NULL
          /\ \/ request' = [request EXCEPT ![r] = Idle]
             \/ request' = [request EXCEPT ![r] =
                              [request[r] EXCEPT !.pc = "refresh", !.access = a]]
    BY <1>1 DEF CreateAccessToken, IInv, TypeOK
  <1>3. request'[r] # Idle
    BY DEF Idle
  <1>4. request' = [request EXCEPT ![r] =
                      [request[r] EXCEPT !.pc = "refresh", !.access = a]]
    BY <1>2, <1>3 DEF IInv, TypeOK
  <1>5. request'[r].access = a
    BY <1>4 DEF IInv, TypeOK, RequestState
  <1> QED BY <1>1, <1>2, <1>4, <1>5 DEF CreateAccessToken, IInv, TypeOK

\* A new refresh token is paired with the token its handler was holding, and
\* that handler is done.
LEMMA PairsItsToken ==
  ASSUME IInv, NEW r \in Requests, CreateRefreshToken(r), NEW f \in RefreshIds,
         refresh'[f] # refresh[f]
  PROVE  /\ refresh[f] = NULL
         /\ refresh'[f].access = request[r].access
         /\ refresh'[f].owner = request[r].owner
         /\ \A g \in RefreshIds : g # f => refresh'[g] = refresh[g]
  BY DEF CreateRefreshToken, IInv, TypeOK

\* The token of a handler at its last statement is stored.
LEMMA HeldTokenStored ==
  ASSUME IInv, NEW r \in Requests, request[r].pc = "refresh"
  PROVE  /\ request[r].access \in AccessIds /\ access[request[r].access] # NULL
         /\ minted[request[r].access] # NULL
  <1>1. LocalsOf(r) /\ request[r] \in RequestState
    BY DEF IInv, LocalsAgree, Running, TypeOK
  <1> QED BY <1>1 DEF LocalsOf, RequestState, IInv, OwnerPreserved

\* The token a refresh row is paired with is stored.
LEMMA PairedTokenStored ==
  ASSUME IInv, NEW f \in RefreshIds, refresh[f] # NULL
  PROVE  refresh[f].access \in AccessIds /\ access[refresh[f].access] # NULL
  <1>1. refresh[f].access \in AccessIds
    BY DEF IInv, TypeOK, RefreshRow
  <1> QED BY <1>1 DEF IInv, OwnerPreserved

\* A token waiting for its refresh token stays without one.
LEMMA PairsPendingStep == LedgerInv /\ [Next]_vars => PairsPending'
  <1> SUFFICES ASSUME LedgerInv, [Next]_vars PROVE PairsPending'
    OBVIOUS
  <1>1. IInv /\ PairsPending
    BY DEF LedgerInv
  <1>2. ASSUME NEW r \in Requests, request'[r].pc = "refresh",
               NEW f \in RefreshIds, refresh'[f] # NULL
        PROVE  refresh'[f].access # request'[r].access
    <2>1. CASE request'[r] # request[r]
      <3>1. refresh' = refresh /\ access[request'[r].access] = NULL
        BY <1>1, <1>2, <2>1, ArrivesWithNewToken
      <3> QED BY <1>1, <1>2, <3>1, PairedTokenStored
    <2>2. CASE request'[r] = request[r] /\ refresh[f] # NULL
      BY <1>1, <1>2, <2>2, RefreshOnlyCloses DEF IInv, PairsPending
    <2>3. CASE request'[r] = request[r] /\ refresh[f] = NULL
      <3>1. PICK q \in Requests : CreateRefreshToken(q)
        BY <1>1, <1>2, <2>3, NewRefresh
      <3>2. refresh'[f].access = request[q].access
        BY <1>1, <1>2, <2>3, <3>1, PairsItsToken
      <3>3. q # r /\ request[q].pc = "refresh"
        BY <1>1, <1>2, <3>1 DEF CreateRefreshToken, Idle, IInv, TypeOK
      <3> QED BY <1>1, <1>2, <2>3, <3>2, <3>3 DEF PairsPending
    <2> QED BY <2>1, <2>2, <2>3
  <1>3. ASSUME NEW r \in Requests, NEW q \in Requests, r # q,
               request'[r].pc = "refresh", request'[q].pc = "refresh"
        PROVE  request'[r].access # request'[q].access
    <2>1. CASE request'[r] # request[r]
      <3>1. access[request'[r].access] = NULL /\ request'[q] = request[q]
        BY <1>1, <1>3, <2>1, ArrivesWithNewToken
      <3> QED BY <1>1, <1>3, <3>1, HeldTokenStored
    <2>2. CASE request'[q] # request[q]
      <3>1. access[request'[q].access] = NULL /\ request'[r] = request[r]
        BY <1>1, <1>3, <2>2, ArrivesWithNewToken
      <3> QED BY <1>1, <1>3, <3>1, HeldTokenStored
    <2>3. CASE request'[r] = request[r] /\ request'[q] = request[q]
      BY <1>1, <1>3, <2>3 DEF PairsPending
    <2> QED BY <2>1, <2>2, <2>3
  <1> QED BY <1>2, <1>3 DEF PairsPending

\* LedgerInv holds in every reachable state.
LEMMA LedgerInductive == Spec => []LedgerInv
  <1>1. Init => LedgerInv
    BY InitIInv DEF Init, LedgerInv, PairsPending, Idle
  <1>2. LedgerInv /\ [Next]_vars => LedgerInv'
    BY IInvStep, PairsPendingStep DEF LedgerInv
  <1> QED BY <1>1, <1>2, PTL DEF Spec

-----------------------------------------------------------------------------
(* What the statements do to the ledger.                                   *)

\* The row of a grant is an entry of the ledger.
LEMMA EntryThere ==
  ASSUME IInv, NEW s \in Sources, SourceRow(s) # NULL
  PROVE  entryBar[s] # NULL /\ entryBar[s].owner = SourceRow(s).owner
  <1>1. SourceRow(s).owner \in Owner
    BY DEF SourceRow, Sources, IInv, TypeOK, CodeRow, RefreshRow
  <1>2. (IF s \in CodeIds THEN NULL ELSE refresh[s].access) \in AccessIds \cup {NULL}
    BY DEF SourceRow, Sources, IInv, TypeOK, RefreshRow
  <1>3. entryBar[s] \in [owner : Owner, from : AccessIds \cup {NULL}]
    BY <1>1, <1>2 DEF entryBar
  <1>4. entryBar[s].owner = SourceRow(s).owner
    BY DEF entryBar
  <1> QED BY <1>3, <1>4

\* The entry of an opened grant never changes.
LEMMA EntryStays ==
  ASSUME IInv, [Next]_vars, NEW s \in Sources, SourceRow(s) # NULL
  PROVE  entryBar'[s] = entryBar[s]
  <1>1. RowOnlyCloses(s)
    BY GrantsOnlyClose DEF IInv
  <1>2. CASE s \in CodeIds
    BY <1>1, <1>2 DEF entryBar, RowOnlyCloses
  <1>3. CASE s \notin CodeIds
    <2>1. s \in RefreshIds /\ refresh[s] # NULL
      BY <1>3 DEF Sources, SourceRow
    <2>2. refresh'[s].access = refresh[s].access
      BY <2>1, RefreshOnlyCloses DEF IInv
    <2> QED BY <1>1, <1>3, <2>2 DEF entryBar, RowOnlyCloses
  <1> QED BY <1>2, <1>3

\* A step that opens no grant leaves every entry as it is.
LEMMA EntriesKept ==
  ASSUME IInv, [Next]_vars,
         \A s \in Sources : SourceRow(s) = NULL => SourceRow(s)' = NULL
  PROVE  entryBar' = entryBar
  <1>1. ASSUME NEW s \in Sources PROVE entryBar'[s] = entryBar[s]
    BY <1>1, EntryStays DEF entryBar
  <1> QED BY <1>1 DEF entryBar

\* A stamped row of the claimed grant closes it, unless it was closed already
\* or the statement had no effect.
LEMMA StampMaps ==
  ASSUME IInv, [Next]_vars, NEW s \in Sources, SourceRow(s) # NULL,
         \A x \in Sources : x # s => SourceRow(x)' = SourceRow(x) /\ ClosedAt(x)' = ClosedAt(x),
         UNCHANGED <<claimBar, mintedBar>>
  PROVE  Ledger!Close(s) \/ UNCHANGED <<entryBar, closedBar, claimBar, mintedBar>>
  <1>1. RowOnlyCloses(s)
    BY GrantsOnlyClose DEF IInv
  <1>2. entryBar' = entryBar
    <2>1. ASSUME NEW x \in Sources, SourceRow(x) = NULL PROVE SourceRow(x)' = NULL
      <3>1. x # s
        BY <2>1
      <3> QED BY <2>1, <3>1
    <2> QED BY <2>1, EntriesKept
  <1>3. entryBar[s] # NULL
    BY EntryThere
  <1>4. CASE ClosedAt(s)' = ClosedAt(s)
    BY <1>1, <1>2, <1>4 DEF closedBar, RowOnlyCloses
  <1>5. CASE ClosedAt(s)' = now
    <2>1. now # NoTime
      BY DEF IInv, TypeOK, NoTime
    <2>2. closedBar' = closedBar \cup {s}
      BY <1>1, <1>5, <2>1 DEF closedBar, RowOnlyCloses
    <2> QED BY <1>2, <1>3, <2>2 DEF Ledger!Close
  <1> QED BY <1>1, <1>4, <1>5 DEF RowOnlyCloses

\* GET /oauth2/authorize opens a grant.
LEMMA AuthorizeMaps ==
  ASSUME LedgerInv, [Next]_vars, NEW cl \in Clients, NEW u \in Users,
         NEW redirect \in Redirects, NEW scope \in Scopes,
         NEW challenge \in Challenges \cup {NULL},
         AuthorizeOAuth2Client(cl, u, redirect, scope, challenge)
  PROVE  \E g \in Sources, owner \in Owner : Ledger!Open(g, owner)
  <1> DEFINE owner == [client |-> cl, user |-> u, scope |-> scope]
  <1>1. PICK c \in CodeIds :
          /\ codes[c] = NULL
          /\ codes' = [codes EXCEPT ![c] =
               [owner |-> owner, redirect |-> redirect, challenge |-> challenge,
                expires |-> now + CodeTTL, consumed |-> NoTime]]
    BY DEF AuthorizeOAuth2Client
  <1>2. owner \in Owner
    BY DEF Owner
  <1> HIDE DEF owner
  <1>3. IInv /\ c \in Sources /\ codes \in [CodeIds -> CodeRow \cup {NULL}]
    BY DEF LedgerInv, IInv, TypeOK, Sources
  <1>4. codes'[c].owner = owner /\ codes'[c].consumed = NoTime
    BY <1>1, <1>3
  <1>5. codes'[c] # NULL
    <2>1. codes'[c] \in CodeRow \cup {NULL}
      BY StepType DEF LedgerInv, IInv, TypeOK
    <2>2. [owner |-> owner, redirect |-> redirect, challenge |-> challenge,
           expires |-> now + CodeTTL, consumed |-> NoTime] \in CodeRow
      BY <1>2 DEF CodeRow, Timestamp, LedgerInv, IInv, TypeOK
    <2> QED BY <1>1, <1>3, <2>2
  <1>6. UNCHANGED <<refresh, request, minted>>
    BY DEF AuthorizeOAuth2Client
  <1>7. \A s \in Sources : s # c => SourceRow(s)' = SourceRow(s) /\ ClosedAt(s)' = ClosedAt(s)
    BY <1>1, <1>3, <1>6 DEF SourceRow, ClosedAt
  <1>8. SourceRow(c) = NULL /\ entryBar[c] = NULL
    BY <1>1, <1>3 DEF entryBar, SourceRow
  <1>9. entryBar' = [entryBar EXCEPT ![c] = [owner |-> owner, from |-> NULL]]
    <2>1. entryBar'[c] = [owner |-> owner, from |-> NULL]
      BY <1>3, <1>4, <1>5 DEF entryBar, SourceRow
    <2>2. ASSUME NEW s \in Sources, s # c PROVE entryBar'[s] = entryBar[s]
      BY <1>6, <1>7, <2>2 DEF entryBar
    <2> QED BY <1>3, <2>1, <2>2 DEF entryBar
  <1>10. closedBar' = closedBar
    BY <1>1, <1>3, <1>4, <1>7, <1>8 DEF closedBar, SourceRow, ClosedAt
  <1>11. UNCHANGED <<claimBar, mintedBar>>
    BY <1>6 DEF claimBar, mintedBar, Holding
  <1> QED BY <1>2, <1>3, <1>8, <1>9, <1>10, <1>11 DEF Ledger!Open

\* Reading an open grant is claiming it.
LEMMA ReadMaps ==
  ASSUME LedgerInv, NEW r \in Requests, request[r].pc = "idle",
         NEW s \in Sources, HasRead(r, s)
  PROVE  Ledger!Claim(r, s)
  <1>1. IInv /\ request \in [Requests -> RequestState]
    BY DEF LedgerInv, IInv, TypeOK
  <1>2. entryBar[s] # NULL /\ s \notin closedBar
    BY <1>1, EntryThere DEF HasRead, closedBar
  <1>3. claimBar[r] = NULL
    BY DEF claimBar, Holding
  <1>4. UNCHANGED <<entryBar, closedBar, mintedBar>>
    BY DEF HasRead, entryBar, closedBar, mintedBar, SourceRow, ClosedAt
  <1>5. claimBar' = [claimBar EXCEPT ![r] = s]
    <2>1. request' = [request EXCEPT ![r] =
             [pc |-> "close", source |-> s, owner |-> SourceRow(s).owner, readAt |-> now,
              exp |-> NoTime, access |-> NULL]]
      BY DEF HasRead, Hold
    <2>2. Holding(r)' /\ request'[r].source = s
      BY <1>1, <2>1 DEF Holding
    <2>3. \A q \in Requests : q # r => request'[q] = request[q]
      BY <1>1, <2>1
    <2> QED BY <2>2, <2>3 DEF claimBar, Holding
  <1> QED BY <1>2, <1>3, <1>4, <1>5 DEF Ledger!Claim

\* Signing the token keeps the claim.
LEMMA IssueKeepsClaim ==
  ASSUME IInv, NEW r \in Requests, request[r].pc = "close", issueJWT(r)
  PROVE  claimBar' = claimBar
  <1>1. request \in [Requests -> RequestState]
    BY DEF IInv, TypeOK
  <1>2. request' = [request EXCEPT ![r] =
                      [request[r] EXCEPT !.pc = "access", !.exp = now + AccessTTL]]
    BY DEF issueJWT
  <1>3. request'[r].pc = "access" /\ request'[r].source = request[r].source
    BY <1>1, <1>2 DEF RequestState
  <1>4. \A q \in Requests : q # r => request'[q] = request[q]
    BY <1>1, <1>2
  <1> QED BY <1>3, <1>4 DEF claimBar, Holding

\* The UPDATE of the grant a handler read closes it, or has no effect.
LEMMA UpdateMaps ==
  ASSUME LedgerInv, [Next]_vars, NEW r \in Requests,
         ConsumeCode(r) \/ RevokeOldRefresh(r)
  PROVE  \/ \E g \in Sources : Ledger!Close(g)
         \/ UNCHANGED <<entryBar, closedBar, claimBar, mintedBar>>
  <1>1. IInv /\ LocalsOf(r) /\ request[r] \in RequestState
    BY DEF LedgerInv, IInv, LocalsAgree, TypeOK, ConsumeCode, RevokeOldRefresh, Running
  <1>2. PICK s \in Sources : s = request[r].source /\ SourceRow(s) # NULL
    BY <1>1 DEF LocalsOf, RequestState
  <1>3. UNCHANGED <<claimBar, mintedBar>>
    BY <1>1, IssueKeepsClaim DEF ConsumeCode, RevokeOldRefresh, mintedBar
  <1>4. ASSUME NEW x \in Sources, x # s
        PROVE  SourceRow(x)' = SourceRow(x) /\ ClosedAt(x)' = ClosedAt(x)
    <2>1. CASE ConsumeCode(r)
      BY <1>1, <1>2, <1>4, <2>1 DEF ConsumeCode, SourceRow, ClosedAt, IInv, TypeOK
    <2>2. CASE RevokeOldRefresh(r)
      <3>1. x \in RefreshIds => refresh'[x] = refresh[x]
        BY <1>1, <1>2, <1>4, <2>2 DEF RevokeOldRefresh, IInv, TypeOK
      <3> QED BY <2>2, <3>1 DEF RevokeOldRefresh, SourceRow, ClosedAt, Sources
    <2> QED BY <2>1, <2>2
  <1> QED BY <1>1, <1>2, <1>3, <1>4, StampMaps

\* POST /oauth2/revoke with a refresh token closes it, or has no effect.
LEMMA RevokeMaps ==
  ASSUME LedgerInv, [Next]_vars, NEW f \in RefreshIds, RevokeRefreshToken(f)
  PROVE  \/ \E g \in Sources : Ledger!Close(g)
         \/ UNCHANGED <<entryBar, closedBar, claimBar, mintedBar>>
  <1>1. IInv /\ f \in Sources /\ SourceRow(f) # NULL
    BY DEF LedgerInv, Sources, SourceRow, RevokeRefreshToken
  <1>2. UNCHANGED <<claimBar, mintedBar>>
    BY DEF RevokeRefreshToken, claimBar, mintedBar, Holding
  <1>3. ASSUME NEW x \in Sources, x # f
        PROVE  SourceRow(x)' = SourceRow(x) /\ ClosedAt(x)' = ClosedAt(x)
    <2>1. x \in RefreshIds => refresh'[x] = refresh[x]
      BY <1>1, <1>3 DEF RevokeRefreshToken, IInv, TypeOK
    <2> QED BY <2>1 DEF RevokeRefreshToken, SourceRow, ClosedAt, Sources
  <1> QED BY <1>1, <1>2, <1>3, StampMaps

\* A step that touches no grant, no slot and no record changes nothing of the
\* ledger: the access table and the clock are not part of it.
LEMMA LedgerUntouched ==
  ASSUME UNCHANGED <<codes, refresh, request, minted>>
  PROVE  UNCHANGED <<entryBar, closedBar, claimBar, mintedBar>>
  BY DEF entryBar, closedBar, claimBar, mintedBar, SourceRow, ClosedAt, Holding

\* A handler that gives up, or is cut off, drops its claim.
LEMMA DropMaps ==
  ASSUME IInv, NEW R \in SUBSET Requests,
         \A q \in Requests : request'[q] = IF q \in R THEN Idle ELSE request[q],
         UNCHANGED <<codes, refresh, minted>>
  PROVE  Ledger!Drop(R)
  <1>1. UNCHANGED <<entryBar, closedBar, mintedBar>>
    BY DEF entryBar, closedBar, mintedBar, SourceRow, ClosedAt
  <1>2. claimBar' = [q \in Requests |-> IF q \in R THEN NULL ELSE claimBar[q]]
    BY DEF claimBar, Holding, Idle
  <1> QED BY <1>1, <1>2 DEF Ledger!Drop

\* The access-token INSERT turns the claim into a token, whether its result is
\* reported or not; when it has no effect, the claim is dropped.
LEMMA MintMaps ==
  ASSUME LedgerInv, NEW r \in Requests, CreateAccessToken(r)
  PROVE  \/ \E a \in AccessIds : Ledger!Mint(r, a)
         \/ \E R \in SUBSET Requests : Ledger!Drop(R)
  <1>1. IInv /\ LocalsOf(r) /\ request[r] \in RequestState /\ request[r].pc = "access"
    BY DEF LedgerInv, IInv, LocalsAgree, TypeOK, CreateAccessToken, Running
  <1>2. PICK s \in Sources : s = request[r].source
    BY <1>1 DEF LocalsOf, RequestState
  <1>3. PICK a \in AccessIds, outcome \in Outcomes :
          /\ access[a] = NULL
          /\ IF Applied(outcome)
             THEN minted' = [minted EXCEPT ![a] =
                     [source |-> s, by |-> r, readAt |-> request[r].readAt]]
             ELSE UNCHANGED minted
          /\ request' = [request EXCEPT ![r] =
               IF Reported(outcome)
               THEN [@ EXCEPT !.pc = "refresh", !.access = a] ELSE Idle]
    BY <1>2 DEF CreateAccessToken
  <1>4. UNCHANGED <<codes, refresh>>
    BY DEF CreateAccessToken
  <1>5. ASSUME NEW q \in Requests, q # r PROVE request'[q] = request[q]
    BY <1>1, <1>3, <1>5 DEF IInv, TypeOK
  <1>6. CASE ~ Applied(outcome)
    <2>1. request'[r] = Idle
      BY <1>1, <1>3, <1>6 DEF Applied, Reported, IInv, TypeOK
    <2>2. Ledger!Drop({r})
      BY <1>1, <1>3, <1>4, <1>5, <1>6, <2>1, DropMaps
    <2> QED BY <2>2
  <1>7. CASE Applied(outcome)
    <2>1. minted[a] = NULL
      BY <1>1, <1>3 DEF IInv, OwnerPreserved
    <2>2. [source |-> s, by |-> r, readAt |-> request[r].readAt] \in MintRecord
      BY <1>1, <1>2 DEF LocalsOf, RequestState, MintRecord, Timestamp
    <2>3. mintedBar[a] = NULL /\ mintedBar' = [mintedBar EXCEPT ![a] = s]
      <3>1. minted'[a] # NULL /\ minted'[a].source = s
        BY <1>1, <1>3, <1>7, <2>2 DEF IInv, TypeOK
      <3>2. \A b \in AccessIds : b # a => minted'[b] = minted[b]
        BY <1>1, <1>3, <1>7 DEF IInv, TypeOK
      <3> QED BY <2>1, <3>1, <3>2 DEF mintedBar
    <2>4. claimBar[r] = s /\ s # NULL
      BY <1>1, <1>2 DEF claimBar, Holding
    <2>5. claimBar' = [claimBar EXCEPT ![r] = NULL]
      <3>1. request'[r].pc \notin {"close", "access"}
        <4>1. CASE Reported(outcome)
          <5>1. request'[r] = [request[r] EXCEPT !.pc = "refresh", !.access = a]
            BY <1>1, <1>3, <4>1 DEF IInv, TypeOK
          <5> QED BY <1>1, <5>1 DEF RequestState
        <4>2. CASE ~ Reported(outcome)
          BY <1>1, <1>3, <4>2 DEF IInv, TypeOK, Idle
        <4> QED BY <4>1, <4>2
      <3> QED BY <1>5, <3>1 DEF claimBar, Holding
    <2>6. UNCHANGED <<entryBar, closedBar>>
      BY <1>4 DEF entryBar, closedBar, SourceRow, ClosedAt
    <2>7. Ledger!Mint(r, a)
      BY <2>3, <2>4, <2>5, <2>6 DEF Ledger!Mint
    <2> QED BY <2>7
  <1> QED BY <1>6, <1>7

\* The refresh-token INSERT opens the token's one successor, which belongs to
\* the owner of the grant the token came from, or has no effect.
LEMMA SucceedMaps ==
  ASSUME LedgerInv, [Next]_vars, NEW r \in Requests, CreateRefreshToken(r)
  PROVE  \/ \E a \in AccessIds, g \in Sources : Ledger!Succeed(a, g)
         \/ UNCHANGED <<entryBar, closedBar, claimBar, mintedBar>>
  <1>1. IInv /\ LocalsOf(r) /\ request[r] \in RequestState /\ request[r].pc = "refresh"
    BY DEF LedgerInv, IInv, LocalsAgree, TypeOK, CreateRefreshToken, Running
  <1>2. PICK s \in Sources, a \in AccessIds :
          /\ s = request[r].source /\ a = request[r].access
          /\ SourceRow(s) # NULL /\ request[r].owner = SourceRow(s).owner
          /\ minted[a] # NULL /\ minted[a].source = s
    BY <1>1 DEF LocalsOf, RequestState
  <1>3. PICK f \in RefreshIds, outcome \in Outcomes :
          /\ refresh[f] = NULL
          /\ refresh' = IF Applied(outcome)
                        THEN [refresh EXCEPT ![f] =
                                [owner |-> request[r].owner, access |-> a,
                                 expires |-> now + RefreshTTL, revoked |-> NoTime]]
                        ELSE refresh
    BY <1>2 DEF CreateRefreshToken
  <1>4. UNCHANGED <<codes, minted>> /\ request' = [request EXCEPT ![r] = Idle]
    BY DEF CreateRefreshToken
  <1>5. UNCHANGED <<claimBar, mintedBar>>
    <2>1. \A q \in Requests : q # r => request'[q] = request[q]
      BY <1>1, <1>4 DEF IInv, TypeOK
    <2>2. request'[r].pc = "idle"
      BY <1>1, <1>4 DEF Idle, IInv, TypeOK
    <2> QED BY <1>1, <1>4, <2>1, <2>2 DEF claimBar, mintedBar, Holding
  <1>6. CASE ~ Applied(outcome)
    BY <1>3, <1>4, <1>5, <1>6 DEF entryBar, closedBar, SourceRow, ClosedAt
  <1>7. CASE Applied(outcome)
    <2>1. request[r].owner \in Owner
      BY <1>1, <1>2 DEF SourceRow, Sources, IInv, TypeOK, CodeRow, RefreshRow
    <2>2. refresh'[f] = [owner |-> request[r].owner, access |-> a,
                         expires |-> now + RefreshTTL, revoked |-> NoTime]
      BY <1>1, <1>3, <1>7 DEF IInv, TypeOK
    <2>3. refresh'[f] # NULL
      <3>1. refresh'[f] \in RefreshRow
        BY <1>1, <2>1, <2>2 DEF RefreshRow, Timestamp, IInv, TypeOK
      <3> QED BY <3>1
    <2>4. f \in Sources /\ f \notin CodeIds
      BY DEF Sources
    <2>5. ASSUME NEW x \in Sources, x # f
          PROVE  SourceRow(x)' = SourceRow(x) /\ ClosedAt(x)' = ClosedAt(x)
                 /\ (x \notin CodeIds => refresh'[x] = refresh[x])
      BY <1>1, <1>3, <1>4, <1>7, <2>5 DEF SourceRow, ClosedAt, IInv, TypeOK, Sources
    <2>6. SourceRow(f) = NULL /\ SourceRow(f)' = refresh'[f]
      BY <1>3, <2>4 DEF SourceRow
    <2>7. entryBar[f] = NULL
      BY <2>4, <2>6 DEF entryBar
    <2>8. entryBar[s].owner = request[r].owner /\ mintedBar[a] = s /\ s # NULL
      BY <1>1, <1>2, EntryThere DEF mintedBar
    <2>9. entryBar' = [entryBar EXCEPT ![f] =
                         [owner |-> entryBar[mintedBar[a]].owner, from |-> a]]
      <3>1. entryBar'[f] = [owner |-> request[r].owner, from |-> a]
        BY <2>2, <2>3, <2>4, <2>6 DEF entryBar
      <3>2. ASSUME NEW x \in Sources, x # f PROVE entryBar'[x] = entryBar[x]
        BY <2>5, <3>2 DEF entryBar
      <3>3. /\ entryBar = [x \in Sources |-> entryBar[x]]
            /\ entryBar' = [x \in Sources |-> entryBar'[x]]
        BY DEF entryBar
      <3> HIDE DEF entryBar
      <3> QED BY <2>4, <2>8, <3>1, <3>2, <3>3
    <2>10. closedBar' = closedBar
      <3>1. ClosedAt(f)' = NoTime
        BY <2>2, <2>4 DEF ClosedAt
      <3> QED BY <2>4, <2>5, <2>6, <3>1 DEF closedBar
    <2>11. ASSUME NEW h \in Sources, entryBar[h] # NULL PROVE entryBar[h].from # a
      <3>1. CASE h \in CodeIds
        BY <2>11, <3>1 DEF entryBar
      <3>2. CASE h \notin CodeIds
        <4>1. h \in RefreshIds /\ refresh[h] # NULL /\ entryBar[h].from = refresh[h].access
          BY <2>11, <3>2 DEF entryBar, Sources, SourceRow
        <4> QED BY <1>1, <1>2, <4>1 DEF LedgerInv, PairsPending
      <3> QED BY <3>1, <3>2
    <2>12. Ledger!Succeed(a, f)
      BY <1>5, <2>7, <2>8, <2>9, <2>10, <2>11 DEF Ledger!Succeed
    <2> QED BY <2>4, <2>12
  <1> QED BY <1>6, <1>7

-----------------------------------------------------------------------------
\* Every step of the tables and handlers is a step of the ledger or changes
\* nothing of it.
LEMMA StepMaps ==
  LedgerInv /\ [Next]_vars
    => [Ledger!LedgerNext]_<<entryBar, closedBar, claimBar, mintedBar>>
  <1> DEFINE Maps == \/ Ledger!LedgerNext
                     \/ UNCHANGED <<entryBar, closedBar, claimBar, mintedBar>>
  <1> SUFFICES ASSUME LedgerInv, [Next]_vars PROVE Maps
    OBVIOUS
  <1>1. ASSUME NEW r \in Requests, HandlerStep(r) PROVE Maps
    BY <1>1, UpdateMaps, MintMaps, SucceedMaps DEF HandlerStep, Ledger!LedgerNext
  <1>2. ASSUME NEW r \in Requests, NEW cl, NEW secret, NEW c \in CodeIds, NEW redirect,
               NEW verifier, ReadCode(r, cl, secret, c, redirect, verifier)
        PROVE  Maps
    <2>1. c \in Sources /\ HasRead(r, c) /\ request[r].pc = "idle"
      BY <1>2 DEF ReadCode, CodeUsable, HasRead, SourceRow, ClosedAt, Sources
    <2> QED BY <2>1, ReadMaps DEF Ledger!LedgerNext
  <1>3. ASSUME NEW r \in Requests, NEW cl, NEW secret, NEW f \in RefreshIds,
               ReadRefresh(r, cl, secret, f)
        PROVE  Maps
    <2>1. f \in Sources /\ f \notin CodeIds
      BY DEF Sources
    <2>2. HasRead(r, f) /\ request[r].pc = "idle"
      BY <1>3, <2>1 DEF ReadRefresh, RefreshUsable, HasRead, SourceRow, ClosedAt
    <2> QED BY <2>1, <2>2, ReadMaps DEF Ledger!LedgerNext
  <1>4. CASE Crash
    <2>1. Ledger!Drop(Requests)
      BY <1>4, DropMaps DEF Crash, LedgerInv
    <2> QED BY <2>1 DEF Ledger!LedgerNext
  <1>5. ASSUME NEW f \in RefreshIds, RevokeRefreshToken(f) PROVE Maps
    BY <1>5, RevokeMaps DEF Ledger!LedgerNext
  <1>6. ASSUME NEW cl \in Clients, NEW u \in Users, NEW redirect \in Redirects,
               NEW scope \in Scopes, NEW challenge \in Challenges \cup {NULL},
               AuthorizeOAuth2Client(cl, u, redirect, scope, challenge)
        PROVE  Maps
    BY <1>6, AuthorizeMaps DEF Ledger!LedgerNext
  <1>7. CASE UNCHANGED <<codes, refresh, request, minted>>
    BY <1>7, LedgerUntouched
  <1> HIDE DEF Maps
  <1> QED
    BY <1>1, <1>2, <1>3, <1>4, <1>5, <1>6, <1>7 DEF Next, vars,
       ExchangeClientCredentials, RevokeAccessToken, Tick

\* The token endpoint keeps the ledger's promises, for any number of handlers
\* and whatever fails: a claim pays for one token, a token has one successor,
\* which belongs to the same owner, and no closed grant is claimed again.
THEOREM LedgerImplemented == Spec => ImplementsLedger
  BY InitMaps, StepMaps, LedgerInductive, PTL
     DEF Spec, ImplementsLedger, Ledger!LedgerSpec, Ledger!ledger
=============================================================================
