------------------------ MODULE AuthenticationProofs ------------------------
(***************************************************************************)
(* Proofs about Authentication, for any number of accounts, challenges,    *)
(* sessions and concurrent handlers, and any length of run.                *)
(*                                                                         *)
(* A handler acts on what it read statements ago.  The inductive invariant *)
(* AuthInv says that all of it still agrees with the tables: the challenge *)
(* it answers, the password it checked, the factor or credential it is     *)
(* about to list.  It rests on what no statement does: no challenge,       *)
(* factor, credential or session is ever deleted or handed to another user.*)
(***************************************************************************)
EXTENDS Authentication, TLAPS

USE AuthenticationAssumption

\* The challenge a handler answers is the one it read, open when it was read.
AnswersRow(q) ==
    LET row == challenges[q.challenge] IN
    /\ row # NULL /\ row.user = q.user
    /\ q.readAt <= row.expires
    /\ row.consumed = NoTime \/ q.readAt <= row.consumed

\* What the method row about to be stored stands for is there.
MethodReady(q) ==
    /\ q.method # NULL /\ q.method.user = q.user
    /\ q.method.type = "password" => q.password = q.user
    /\ q.method.type = "totp" => totp[q.user] # 0 /\ q.secret <= totp[q.user]
    /\ q.method.type = "passkey" =>
         /\ q.method.subject # NULL
         /\ credentials[q.method.subject] = q.user

\* The local variables of a running handler agree with the tables.
LocalsOf(r) ==
    LET q == request[r] IN
    /\ q.user # NULL /\ q.readAt <= now
    /\ q.pc \in {"credential", "consume"} => q.challenge # NULL
    /\ q.pc \in {"method", "factor", "challenge"} => q.challenge = NULL
    /\ q.challenge # NULL => AnswersRow(q)
    /\ q.pc = "method" => MethodReady(q)
    /\ q.pc \in {"factor", "session"} /\ q.challenge = NULL => q.password = q.user
    /\ q.pc = "factor" /\ q.enrolled => totp[q.user] # 0

LocalsAgree == \A r \in Requests : Running(r) => LocalsOf(r)

\* A session has a history, and a token is sent only for a stored session.
SessionsKept ==
    /\ \A s \in SessionIds : sessions[s] # NULL =>
         opened[s] # NULL /\ opened[s].readAt <= now
    /\ \A s \in told : sessions[s] # NULL

AuthInv == TypeOK /\ LocalsAgree /\ SessionsKept

-----------------------------------------------------------------------------
(* Type correctness.                                                       *)

\* An idle slot is well typed.
LEMMA IdleType == Idle \in RequestState
  BY DEF Idle, RequestState, Timestamp

\* Moving on to the next statement keeps the type of the locals.
LEMMA GotoType ==
  ASSUME NEW q \in RequestState,
         NEW pc \in {"idle", "method", "factor", "challenge", "credential",
                     "consume", "session"}
  PROVE  [q EXCEPT !.pc = pc] \in RequestState
  BY DEF RequestState

\* The locals of a registration, well typed.
LEMMA RegisterLocals ==
  ASSUME NEW u \in Users
  PROVE  [Idle EXCEPT !.pc = "method", !.user = u, !.password = u,
                      !.method = PasswordMethod(u)] \in RequestState
  BY DEF Idle, RequestState, Timestamp, PasswordMethod, MethodRow

\* The locals of a password login, well typed.
LEMMA LoginLocals ==
  ASSUME NEW u \in Users, NEW p \in Users, NEW b \in BOOLEAN
  PROVE  [Idle EXCEPT !.pc = "factor", !.user = u, !.password = p, !.enrolled = b]
           \in RequestState
  BY DEF Idle, RequestState, Timestamp

\* The locals of a handler that answers a challenge, well typed.
LEMMA AnswerLocals ==
  ASSUME NEW u \in Users, NEW c \in ChallengeIds, NEW t \in Nat,
         NEW pc \in {"credential", "consume"}
  PROVE  [Idle EXCEPT !.pc = pc, !.user = u, !.challenge = c, !.readAt = t]
           \in RequestState
  BY DEF Idle, RequestState, Timestamp

\* The locals of an enrolment, well typed.
LEMMA TotpLocals ==
  ASSUME NEW u \in Users, NEW n \in Nat
  PROVE  [Idle EXCEPT !.pc = "method", !.user = u, !.secret = n,
                      !.method = [user |-> u, type |-> "totp", subject |-> NULL]]
           \in RequestState
  BY DEF Idle, RequestState, Timestamp, MethodRow

\* The locals of a passkey registration, well typed.
LEMMA PasskeyLocals ==
  ASSUME NEW u \in Users, NEW id \in Subjects
  PROVE  [Idle EXCEPT !.pc = "method", !.user = u,
                      !.method = [user |-> u, type |-> "passkey", subject |-> id]]
           \in RequestState
  BY DEF Idle, RequestState, Timestamp, MethodRow

\* The token a caller presents names a stored session of a user.
LEMMA PrincipalHasSession ==
  ASSUME AuthInv, NEW s \in SessionIds, requirePrincipal(s)
  PROVE  sessions[s] \in SessionRow /\ sessions[s].user \in Users
  BY DEF AuthInv, TypeOK, SessionsKept, requirePrincipal, SessionRow

\* A new challenge is a well-typed row.
LEMMA NewChallengeType ==
  ASSUME TypeOK, NEW type \in ChallengeType, NEW u \in Users \cup {NULL},
         NEW ttl \in Nat
  PROVE  Challenge(type, u, ttl) \in ChallengeRow
  BY DEF TypeOK, Challenge, ChallengeRow, Timestamp

\* Moving a slot on keeps the types of the slots.
LEMMA GotoSlots ==
  ASSUME TypeOK, NEW r \in Requests,
         NEW pc \in {"idle", "method", "factor", "challenge", "credential",
                     "consume", "session"},
         Goto(r, pc)
  PROVE  request' \in [Requests -> RequestState]
  <1>1. [request[r] EXCEPT !.pc = pc] \in RequestState
    BY GotoType DEF TypeOK
  <1> QED BY <1>1 DEF TypeOK, Goto

\* Ending a request keeps the types of the slots.
LEMMA EndSlots ==
  ASSUME TypeOK, NEW r \in Requests, End(r)
  PROVE  request' \in [Requests -> RequestState]
  BY IdleType DEF TypeOK, End

\* Registration keeps the types, however its INSERT ends.
LEMMA RegisterType ==
  ASSUME TypeOK, NEW r \in Requests, NEW u \in Users, RegisterWithPassword(r, u)
  PROVE  TypeOK'
  <1>1. request' \in [Requests -> RequestState]
    BY IdleType, RegisterLocals DEF TypeOK, RegisterWithPassword
  <1> QED BY <1>1 DEF TypeOK, RegisterWithPassword, CreateUser, history

\* A password login keeps the types.
LEMMA LoginType ==
  ASSUME TypeOK, NEW r \in Requests, NEW identifier, NEW password \in Users,
         LoginWithPassword(r, identifier, password)
  PROVE  TypeOK'
  <1>1. PICK u \in users : request' = [request EXCEPT ![r] =
          [Idle EXCEPT !.pc = "factor", !.user = u, !.password = password,
                       !.enrolled = (totp[u] # 0)]]
    BY DEF LoginWithPassword, GetUserByIdentifier
  <1>2. u \in Users
    BY DEF TypeOK
  <1>3. request' \in [Requests -> RequestState]
    BY <1>1, <1>2, LoginLocals DEF TypeOK
  <1> QED BY <1>3 DEF TypeOK, LoginWithPassword, tables, history

\* The lookup of the factor keeps the types.
LEMMA FactorType ==
  ASSUME TypeOK, NEW r \in Requests, LookupFactor(r)
  PROVE  TypeOK'
  <1>1. request' \in [Requests -> RequestState]
    BY GotoSlots DEF LookupFactor
  <1> QED BY <1>1 DEF TypeOK, LookupFactor, tables, history

\* The INSERT of a challenge keeps the types, however it ends.
LEMMA CreateChallengeType ==
  ASSUME TypeOK, NEW row \in ChallengeRow, NEW c \in ChallengeIds, NEW outcome,
         createChallenge(row, c, outcome)
  PROVE  challenges' \in [ChallengeIds -> ChallengeRow \cup {NULL}]
  BY DEF TypeOK, createChallenge

\* Asking for the second factor keeps the types.
LEMMA ChallengeTotpType ==
  ASSUME TypeOK, NEW r \in Requests, ChallengeTotp(r)
  PROVE  TypeOK'
  <1>1. request[r].user \in Users \cup {NULL}
    BY DEF TypeOK, RequestState
  <1>2. Challenge("totp_login", request[r].user, ChallengeTTL) \in ChallengeRow
    BY <1>1, NewChallengeType DEF ChallengeType
  <1>3. challenges' \in [ChallengeIds -> ChallengeRow \cup {NULL}]
    BY <1>2, CreateChallengeType DEF ChallengeTotp
  <1>4. request' \in [Requests -> RequestState]
    BY EndSlots DEF ChallengeTotp
  <1> QED BY <1>3, <1>4 DEF TypeOK, ChallengeTotp, history

\* A passkey challenge keeps the types.
LEMMA OptionsType ==
  ASSUME TypeOK, NEW u \in Users, GetWebAuthnChallengeOptions(u)
  PROVE  TypeOK'
  <1>1. Challenge("webauthn_login", u, ChallengeTTL) \in ChallengeRow
    BY NewChallengeType DEF ChallengeType
  <1>2. challenges' \in [ChallengeIds -> ChallengeRow \cup {NULL}]
    BY <1>1, CreateChallengeType DEF GetWebAuthnChallengeOptions
  <1> QED BY <1>2 DEF TypeOK, GetWebAuthnChallengeOptions, history

\* The row of a provider login, with its NULL user, keeps the types.
LEMMA ExternalType ==
  ASSUME TypeOK, StartExternalProviderLogin
  PROVE  TypeOK'
  <1>1. 2 * ChallengeTTL \in Nat
    OBVIOUS
  <1>2. Challenge("google_oauth", NULL, 2 * ChallengeTTL) \in ChallengeRow
    BY <1>1, NewChallengeType DEF ChallengeType
  <1>3. challenges' \in [ChallengeIds -> ChallengeRow \cup {NULL}]
    BY <1>2, CreateChallengeType DEF StartExternalProviderLogin
  <1> QED BY <1>3 DEF TypeOK, StartExternalProviderLogin, history

\* Taking up a challenge keeps the types.
LEMMA AnsweringType ==
  ASSUME TypeOK, NEW r \in Requests, NEW c \in ChallengeIds, NEW type,
         NEW pc \in {"credential", "consume"},
         ChallengeOpen(c, type), Answering(r, c, pc), UNCHANGED <<tables, now, history>>
  PROVE  TypeOK'
  <1>1. challenges[c].user \in Users /\ now \in Nat
    BY DEF TypeOK, ChallengeOpen, ChallengeRow
  <1>2. request' \in [Requests -> RequestState]
    BY <1>1, AnswerLocals DEF TypeOK, Answering
  <1> QED BY <1>2 DEF TypeOK, tables, history

\* The lookup of a credential keeps the types.
LEMMA MatchType ==
  ASSUME TypeOK, NEW r \in Requests, NEW id \in Subjects, MatchCredential(r, id)
  PROVE  TypeOK'
  <1>1. request' \in [Requests -> RequestState]
    BY GotoSlots, EndSlots DEF MatchCredential
  <1> QED BY <1>1 DEF TypeOK, MatchCredential, tables, history

\* The UPDATE that consumes a challenge keeps the types, applied or not.
LEMMA SpendType ==
  ASSUME AuthInv, NEW r \in Requests, SpendChallenge(r)
  PROVE  TypeOK'
  <1>1. /\ TypeOK /\ request[r].challenge \in ChallengeIds
        /\ challenges[request[r].challenge] \in ChallengeRow
    BY DEF AuthInv, LocalsAgree, LocalsOf, AnswersRow, SpendChallenge, Running,
           TypeOK, RequestState
  <1>2. challenges' \in [ChallengeIds -> ChallengeRow \cup {NULL}]
    BY <1>1 DEF TypeOK, SpendChallenge, ConsumeAuthChallenge, ChallengeRow, Timestamp
  <1>3. request' \in [Requests -> RequestState]
    BY <1>1, GotoSlots, EndSlots DEF SpendChallenge
  <1> QED BY <1>1, <1>2, <1>3 DEF TypeOK, SpendChallenge, history

\* The INSERT of the session and the answer keep the types.
LEMMA IssueType ==
  ASSUME AuthInv, NEW r \in Requests, authenticateAndIssueSession(r)
  PROVE  TypeOK'
  <1>1. /\ TypeOK /\ request[r] \in RequestState /\ request[r].user \in Users
    BY DEF AuthInv, LocalsAgree, LocalsOf, authenticateAndIssueSession, Running,
           TypeOK, RequestState
  <1>2. [user |-> request[r].user, expires |-> now + SessionTTL] \in SessionRow
    BY <1>1 DEF TypeOK, SessionRow
  <1>3. [challenge |-> request[r].challenge, readAt |-> request[r].readAt,
         enrolled |-> request[r].enrolled, password |-> request[r].password] \in Opening
    BY <1>1 DEF RequestState, Opening
  <1>4. /\ sessions' \in [SessionIds -> SessionRow \cup {NULL}]
        /\ opened' \in [SessionIds -> Opening \cup {NULL}]
        /\ told' \subseteq SessionIds
    BY <1>1, <1>2, <1>3 DEF TypeOK, authenticateAndIssueSession, CreateSession
  <1>5. request' \in [Requests -> RequestState]
    BY <1>1, EndSlots DEF authenticateAndIssueSession
  <1> QED BY <1>1, <1>4, <1>5 DEF TypeOK, authenticateAndIssueSession

\* An enrolment keeps the types, however its INSERT ends.
LEMMA LinkTotpType ==
  ASSUME AuthInv, NEW r \in Requests, NEW s \in SessionIds, LinkTotp(r, s)
  PROVE  TypeOK'
  <1>1. TypeOK /\ sessions[s].user \in Users
    BY PrincipalHasSession DEF AuthInv, LinkTotp
  <1>2. totp[sessions[s].user] + 1 \in Nat
    BY <1>1 DEF TypeOK
  <1>3. totp' \in [Users -> Nat]
    BY <1>1 DEF TypeOK, LinkTotp, UpsertTotpFactor
  <1>4. request' \in [Requests -> RequestState]
    <2> DEFINE q == [Idle EXCEPT !.pc = "method", !.user = sessions[s].user,
                        !.secret = totp[sessions[s].user] + 1,
                        !.method = [user |-> sessions[s].user, type |-> "totp",
                                    subject |-> NULL]]
    <2>1. q \in RequestState
      BY <1>1, <1>2, TotpLocals
    <2>2. request' = [request EXCEPT ![r] = q] \/ request' = [request EXCEPT ![r] = Idle]
      BY DEF LinkTotp
    <2> HIDE DEF q
    <2> QED BY <1>1, <2>1, <2>2, IdleType DEF TypeOK
  <1> QED BY <1>1, <1>3, <1>4 DEF TypeOK, LinkTotp, history

\* A passkey registration keeps the types, however its INSERT ends.
LEMMA LinkPasskeyType ==
  ASSUME AuthInv, NEW r \in Requests, NEW s \in SessionIds, NEW id \in Subjects,
         LinkPasskey(r, s, id)
  PROVE  TypeOK'
  <1>1. TypeOK /\ sessions[s].user \in Users
    BY PrincipalHasSession DEF AuthInv, LinkPasskey
  <1>2. credentials' \in [Subjects -> Users \cup {NULL}]
    BY <1>1 DEF TypeOK, LinkPasskey, CreateWebAuthnCredential
  <1>3. request' \in [Requests -> RequestState]
    <2> DEFINE q == [Idle EXCEPT !.pc = "method", !.user = sessions[s].user,
                        !.method = [user |-> sessions[s].user, type |-> "passkey",
                                    subject |-> id]]
    <2>1. q \in RequestState
      BY <1>1, PasskeyLocals
    <2>2. request' = [request EXCEPT ![r] = q] \/ request' = [request EXCEPT ![r] = Idle]
      BY DEF LinkPasskey
    <2> HIDE DEF q
    <2> QED BY <1>1, <2>1, <2>2, IdleType DEF TypeOK
  <1> QED BY <1>1, <1>2, <1>3 DEF TypeOK, LinkPasskey, history

\* Linking a provider keeps the types.
LEMMA LinkGoogleType ==
  ASSUME AuthInv, NEW s \in SessionIds, NEW id \in Subjects, LinkGoogle(s, id)
  PROVE  TypeOK'
  <1>1. TypeOK /\ sessions[s].user \in Users
    BY PrincipalHasSession DEF AuthInv, LinkGoogle
  <1>2. [user |-> sessions[s].user, type |-> "oauth_google", subject |-> id] \in MethodRow
    BY <1>1 DEF MethodRow
  <1>3. methods' \in [MethodIds -> MethodRow \cup {NULL}]
    BY <1>1, <1>2 DEF TypeOK, LinkGoogle, CreateUserAuthMethod
  <1> QED BY <1>1, <1>3 DEF TypeOK, LinkGoogle, history

\* Storing the method row keeps the types, however the INSERT ends.
LEMMA StoreMethodType ==
  ASSUME AuthInv, NEW r \in Requests, StoreMethod(r)
  PROVE  TypeOK'
  <1>1. /\ TypeOK /\ request[r] \in RequestState
        /\ request[r].user # NULL /\ request[r].method # NULL
    BY DEF AuthInv, LocalsAgree, LocalsOf, MethodReady, StoreMethod, Running, TypeOK
  <1>2. request[r].method \in MethodRow /\ <<request[r].user, request[r].secret>> \in Users \X Nat
    BY <1>1 DEF RequestState
  <1>3. methods' \in [MethodIds -> MethodRow \cup {NULL}] /\ shown' \subseteq Users \X Nat
    BY <1>1, <1>2 DEF TypeOK, StoreMethod, CreateUserAuthMethod
  <1>4. request' \in [Requests -> RequestState]
    BY <1>1, GotoSlots, EndSlots DEF StoreMethod
  <1> QED BY <1>1, <1>3, <1>4 DEF TypeOK, StoreMethod

\* Unlinking keeps the types.
LEMMA UnlinkType ==
  ASSUME TypeOK, NEW s \in SessionIds, NEW m \in MethodIds,
         UnlinkCurrentUserAuthMethod(s, m)
  PROVE  TypeOK'
  BY DEF TypeOK, UnlinkCurrentUserAuthMethod, DeleteUserAuthMethod, history

\* Every step keeps the types.
LEMMA StepType == AuthInv /\ [Next]_vars => TypeOK'
  <1> SUFFICES ASSUME AuthInv, [Next]_vars PROVE TypeOK'
    OBVIOUS
  <1>0. TypeOK
    BY DEF AuthInv
  <1>1. ASSUME NEW r \in Requests, HandlerStep(r) PROVE TypeOK'
    BY <1>0, <1>1, FactorType, ChallengeTotpType, MatchType, SpendType, IssueType,
       StoreMethodType DEF HandlerStep
  <1>2. ASSUME NEW r \in Requests, NEW c \in ChallengeIds,
               VerifyTotpChallenge(r, c) \/ VerifyWebAuthnChallenge(r, c)
        PROVE  TypeOK'
    BY <1>0, <1>2, AnsweringType DEF VerifyTotpChallenge, VerifyWebAuthnChallenge
  <1>3. CASE Crash
    BY <1>0, <1>3, IdleType DEF TypeOK, Crash, tables, history
  <1>4. CASE Tick
    BY <1>0, <1>4 DEF TypeOK, Tick, tables, history
  <1>5. CASE UNCHANGED vars
    BY <1>0, <1>5 DEF TypeOK, vars, tables, history
  <1> QED
    BY <1>0, <1>1, <1>2, <1>3, <1>4, <1>5, RegisterType, LoginType, OptionsType,
       ExternalType, LinkTotpType, LinkPasskeyType, LinkGoogleType, UnlinkType DEF Next

-----------------------------------------------------------------------------
(* What no statement does.                                                 *)

\* The clock does not go back.
LEMMA TimeAdvances ==
  ASSUME TypeOK, [Next]_vars
  PROVE  now \in Nat /\ now' \in Nat /\ now <= now'
  <1>1. now \in Nat
    BY DEF TypeOK
  <1>2. now' = now \/ now' = now + 1
    BY DEF Next, vars, tables, history, HandlerStep, RegisterWithPassword,
       LoginWithPassword, GetWebAuthnChallengeOptions, StartExternalProviderLogin,
       VerifyTotpChallenge, VerifyWebAuthnChallenge, LinkTotp, LinkPasskey,
       LinkGoogle, UnlinkCurrentUserAuthMethod, LookupFactor, ChallengeTotp,
       MatchCredential, SpendChallenge, authenticateAndIssueSession, StoreMethod,
       Crash, Tick
  <1> QED BY <1>1, <1>2

\* A factor is replaced by a newer one, and never deleted.
LEMMA FactorsStay ==
  ASSUME AuthInv, [Next]_vars, NEW u \in Users
  PROVE  totp[u] \in Nat /\ totp'[u] \in Nat /\ totp[u] <= totp'[u]
  <1>1. totp[u] \in Nat
    BY DEF AuthInv, TypeOK
  <1>2. ASSUME NEW r \in Requests, NEW s \in SessionIds, LinkTotp(r, s)
        PROVE  totp'[u] = totp[u] \/ totp'[u] = totp[u] + 1
    BY <1>2 DEF AuthInv, TypeOK, LinkTotp, UpsertTotpFactor
  <1>3. totp'[u] = totp[u] \/ totp'[u] = totp[u] + 1
    BY <1>2 DEF Next, vars, tables, history, HandlerStep, RegisterWithPassword,
       LoginWithPassword, GetWebAuthnChallengeOptions, StartExternalProviderLogin,
       VerifyTotpChallenge, VerifyWebAuthnChallenge, LinkPasskey,
       LinkGoogle, UnlinkCurrentUserAuthMethod, LookupFactor, ChallengeTotp,
       MatchCredential, SpendChallenge, authenticateAndIssueSession, StoreMethod,
       Crash, Tick
  <1> QED BY <1>1, <1>3

\* A credential keeps its user, and is never deleted.
LEMMA CredentialsStay ==
  ASSUME AuthInv, [Next]_vars, NEW id \in Subjects, credentials[id] # NULL
  PROVE  credentials'[id] = credentials[id]
  <1>1. ASSUME NEW r \in Requests, NEW s \in SessionIds, NEW k \in Subjects,
               LinkPasskey(r, s, k)
        PROVE  credentials'[id] = credentials[id]
    BY <1>1 DEF AuthInv, TypeOK, LinkPasskey, CreateWebAuthnCredential
  <1> QED
    BY <1>1 DEF Next, vars, tables, history, HandlerStep, RegisterWithPassword,
       LoginWithPassword, GetWebAuthnChallengeOptions, StartExternalProviderLogin,
       VerifyTotpChallenge, VerifyWebAuthnChallenge, LinkTotp,
       LinkGoogle, UnlinkCurrentUserAuthMethod, LookupFactor, ChallengeTotp,
       MatchCredential, SpendChallenge, authenticateAndIssueSession, StoreMethod,
       Crash, Tick

\* A session, and how it came about, stay as they are.
LEMMA SessionsStay ==
  ASSUME AuthInv, [Next]_vars, NEW s \in SessionIds, sessions[s] # NULL
  PROVE  sessions'[s] = sessions[s] /\ opened'[s] = opened[s]
  <1>1. ASSUME NEW r \in Requests, authenticateAndIssueSession(r)
        PROVE  sessions'[s] = sessions[s] /\ opened'[s] = opened[s]
    BY <1>1 DEF AuthInv, TypeOK, authenticateAndIssueSession, CreateSession
  <1> QED
    BY <1>1 DEF Next, vars, tables, history, HandlerStep, RegisterWithPassword,
       LoginWithPassword, GetWebAuthnChallengeOptions, StartExternalProviderLogin,
       VerifyTotpChallenge, VerifyWebAuthnChallenge, LinkTotp, LinkPasskey,
       LinkGoogle, UnlinkCurrentUserAuthMethod, LookupFactor, ChallengeTotp,
       MatchCredential, SpendChallenge, StoreMethod, Crash, Tick

\* Consuming a challenge changes its timestamp and nothing else of the row.
LEMMA StampedChallenge ==
  ASSUME NEW row \in ChallengeRow, NEW t \in Timestamp
  PROVE  /\ [row EXCEPT !.consumed = t] \in ChallengeRow
         /\ [row EXCEPT !.consumed = t].user = row.user
         /\ [row EXCEPT !.consumed = t].expires = row.expires
         /\ [row EXCEPT !.consumed = t].consumed = t
  BY DEF ChallengeRow

\* The UPDATE of a challenge keeps a time that is set, and otherwise writes now.
LEMMA ConsumedRow ==
  ASSUME TypeOK, NEW c \in ChallengeIds, NEW k \in ChallengeIds, challenges[c] # NULL,
         challenges[k] # NULL, ConsumeAuthChallenge(k)
  PROVE  /\ challenges'[c] # NULL
         /\ challenges'[c].user = challenges[c].user
         /\ challenges'[c].expires = challenges[c].expires
         /\ \/ challenges'[c].consumed = challenges[c].consumed
            \/ challenges[c].consumed = NoTime /\ challenges'[c].consumed = now
         /\ c = k => challenges'[c].consumed # NoTime
  <1>1. challenges[c] \in ChallengeRow /\ now \in Nat /\ now # NoTime
    BY DEF TypeOK, NoTime
  <1>2. CASE c = k
    <2> DEFINE t == IF challenges[c].consumed = NoTime THEN now
                                                       ELSE challenges[c].consumed
    <2>1. challenges'[c] = [challenges[c] EXCEPT !.consumed = t]
      BY <1>2 DEF TypeOK, ConsumeAuthChallenge
    <2>2. /\ t \in Timestamp /\ t # NoTime
          /\ t = challenges[c].consumed \/ (challenges[c].consumed = NoTime /\ t = now)
      BY <1>1 DEF ChallengeRow, Timestamp
    <2> HIDE DEF t
    <2> QED BY <1>1, <2>1, <2>2, StampedChallenge
  <1>3. CASE c # k
    BY <1>3 DEF TypeOK, ConsumeAuthChallenge
  <1> QED BY <1>2, <1>3

\* The challenge a running handler holds has a row.
LEMMA HeldChallenge ==
  ASSUME AuthInv, NEW r \in Requests, Running(r), request[r].challenge # NULL
  PROVE  /\ request[r].challenge \in ChallengeIds
         /\ challenges[request[r].challenge] \in ChallengeRow
         /\ AnswersRow(request[r])
  BY DEF AuthInv, TypeOK, LocalsAgree, LocalsOf, AnswersRow, RequestState

\* A challenge is never deleted, handed to another user or reopened.
LEMMA ChallengesOnlyClose ==
  ASSUME AuthInv, [Next]_vars, NEW c \in ChallengeIds, challenges[c] # NULL
  PROVE  /\ challenges'[c] # NULL
         /\ challenges'[c].user = challenges[c].user
         /\ challenges'[c].expires = challenges[c].expires
         /\ \/ challenges'[c].consumed = challenges[c].consumed
            \/ challenges[c].consumed = NoTime /\ challenges'[c].consumed = now
  <1>1. ASSUME NEW r \in Requests, SpendChallenge(r), challenges' # challenges
        PROVE  \E k \in ChallengeIds : challenges[k] # NULL /\ ConsumeAuthChallenge(k)
    <2>1. request[r].challenge # NULL /\ Running(r)
      BY <1>1 DEF AuthInv, LocalsAgree, LocalsOf, SpendChallenge, Running
    <2>2. /\ request[r].challenge \in ChallengeIds
          /\ challenges[request[r].challenge] # NULL
      BY <2>1, HeldChallenge DEF AnswersRow
    <2> QED BY <1>1, <2>2 DEF SpendChallenge
  <1>2. ASSUME NEW row, NEW k \in ChallengeIds, NEW outcome, createChallenge(row, k, outcome)
        PROVE  challenges'[c] = challenges[c]
    BY <1>2 DEF AuthInv, TypeOK, createChallenge
  <1>3. \/ challenges'[c] = challenges[c]
        \/ \E k \in ChallengeIds : challenges[k] # NULL /\ ConsumeAuthChallenge(k)
    BY <1>1, <1>2 DEF Next, vars, tables, history, HandlerStep, RegisterWithPassword,
       LoginWithPassword, GetWebAuthnChallengeOptions, StartExternalProviderLogin,
       VerifyTotpChallenge, VerifyWebAuthnChallenge, LinkTotp, LinkPasskey,
       LinkGoogle, UnlinkCurrentUserAuthMethod, LookupFactor, ChallengeTotp,
       MatchCredential, authenticateAndIssueSession, StoreMethod, Crash, Tick
  <1> QED BY <1>3, ConsumedRow DEF AuthInv

-----------------------------------------------------------------------------
(* What a handler carries stays true.                                      *)

\* The challenge a handler answers still is the one it read.
LEMMA AnswerStays ==
  ASSUME AuthInv, [Next]_vars, NEW q \in RequestState, q.challenge # NULL,
         q.readAt <= now, AnswersRow(q)
  PROVE  AnswersRow(q)'
  <1>1. q.challenge \in ChallengeIds
    BY DEF RequestState
  <1> QED BY <1>1, ChallengesOnlyClose DEF AnswersRow

\* What a method row is about to stand for is still there.
LEMMA MethodStays ==
  ASSUME AuthInv, [Next]_vars, NEW q \in RequestState, q.user # NULL, MethodReady(q)
  PROVE  MethodReady(q)'
  <1>1. q.user \in Users /\ q.method \in MethodRow /\ q.secret \in Nat
    BY DEF RequestState, MethodReady
  <1>2. totp[q.user] \in Nat /\ totp'[q.user] \in Nat /\ totp[q.user] <= totp'[q.user]
    BY <1>1, FactorsStay
  <1>3. q.method.type = "passkey" => credentials'[q.method.subject] = q.user
    BY <1>1, CredentialsStay DEF MethodReady, MethodRow
  <1> QED BY <1>1, <1>2, <1>3 DEF MethodReady

\* Other handlers' steps leave a running handler's locals in agreement.
LEMMA LocalsKept ==
  ASSUME AuthInv, [Next]_vars, NEW r \in Requests, Running(r), request'[r] = request[r]
  PROVE  LocalsOf(r)'
  <1>1. LocalsOf(r) /\ request[r] \in RequestState /\ TypeOK
    BY DEF AuthInv, LocalsAgree, TypeOK
  <1>2. PICK q \in RequestState : q = request[r] /\ q = request'[r]
    BY <1>1
  <1>3. /\ q.user # NULL /\ q.readAt <= now
        /\ q.pc \in {"credential", "consume"} => q.challenge # NULL
        /\ q.pc \in {"method", "factor", "challenge"} => q.challenge = NULL
        /\ q.challenge # NULL => AnswersRow(q)
        /\ q.pc = "method" => MethodReady(q)
        /\ q.pc \in {"factor", "session"} /\ q.challenge = NULL => q.password = q.user
        /\ q.pc = "factor" /\ q.enrolled => totp[q.user] # 0
    BY <1>1, <1>2 DEF LocalsOf
  <1>4. q.user \in Users /\ q.readAt \in Int
    BY <1>3 DEF RequestState, Timestamp, NoTime
  <1>5. q.readAt <= now'
    BY <1>1, <1>3, <1>4, TimeAdvances
  <1>6. q.challenge # NULL => AnswersRow(q)'
    BY <1>3, AnswerStays
  <1>7. q.pc = "method" => MethodReady(q)'
    BY <1>3, MethodStays
  <1>8. totp[q.user] # 0 => totp'[q.user] # 0
    BY <1>4, FactorsStay
  <1> QED BY <1>2, <1>3, <1>5, <1>6, <1>7, <1>8 DEF LocalsOf

\* A registration starts with its own password.
LEMMA LocalsOnRegister ==
  ASSUME AuthInv, NEW r \in Requests, NEW u \in Users, RegisterWithPassword(r, u), Running(r)'
  PROVE  LocalsOf(r)'
  <1> DEFINE q == [Idle EXCEPT !.pc = "method", !.user = u, !.password = u,
                               !.method = PasswordMethod(u)]
  <1>1. request' = [request EXCEPT ![r] = q] \/ request' = [request EXCEPT ![r] = Idle]
    BY DEF RegisterWithPassword
  <1>2. /\ q.pc = "method" /\ q.user = u /\ q.password = u /\ q.challenge = NULL
        /\ q.method = PasswordMethod(u) /\ q.readAt = NoTime
    BY DEF Idle
  <1>3. PasswordMethod(u) \in MethodRow
    BY DEF PasswordMethod, MethodRow
  <1> HIDE DEF q
  <1>4. request'[r] = q
    BY <1>1 DEF AuthInv, TypeOK, Running, Idle
  <1>5. now' \in Nat /\ now' = now
    BY DEF AuthInv, TypeOK, RegisterWithPassword
  <1> QED BY <1>2, <1>3, <1>4, <1>5 DEF LocalsOf, MethodReady, PasswordMethod, NoTime

\* A login carries the account whose password was checked, and what that
\* account had for a factor.
LEMMA LocalsOnLogin ==
  ASSUME AuthInv, NEW r \in Requests, NEW identifier, NEW password \in Users,
         LoginWithPassword(r, identifier, password)
  PROVE  LocalsOf(r)'
  <1>1. PICK u \in users : /\ u = password
                           /\ request' = [request EXCEPT ![r] =
                                [Idle EXCEPT !.pc = "factor", !.user = u, !.password = u,
                                             !.enrolled = (totp[u] # 0)]]
    BY DEF LoginWithPassword, GetUserByIdentifier, verifyPassword
  <1> DEFINE q == [Idle EXCEPT !.pc = "factor", !.user = u, !.password = u,
                               !.enrolled = (totp[u] # 0)]
  <1>2. /\ q.pc = "factor" /\ q.user = u /\ q.password = u /\ q.challenge = NULL
        /\ q.readAt = NoTime /\ (q.enrolled => totp[u] # 0)
    BY DEF Idle
  <1>3. request' = [request EXCEPT ![r] = q]
    BY <1>1
  <1> HIDE DEF q
  <1>4. request'[r] = q
    BY <1>3 DEF AuthInv, TypeOK
  <1>5. now' \in Nat /\ totp' = totp /\ u \in Users
    BY DEF AuthInv, TypeOK, LoginWithPassword, tables
  <1> QED BY <1>2, <1>4, <1>5 DEF LocalsOf, NoTime

\* A handler that takes up a challenge has read it open.
LEMMA LocalsOnAnswer ==
  ASSUME AuthInv, NEW r \in Requests, NEW c \in ChallengeIds, NEW type,
         NEW pc \in {"credential", "consume"},
         ChallengeOpen(c, type), Answering(r, c, pc), UNCHANGED <<tables, now, history>>
  PROVE  LocalsOf(r)'
  <1>1. challenges[c] \in ChallengeRow /\ now \in Nat /\ challenges' = challenges /\ now' = now
    BY DEF AuthInv, TypeOK, ChallengeOpen, tables
  <1> DEFINE q == [Idle EXCEPT !.pc = pc, !.user = challenges[c].user,
                               !.challenge = c, !.readAt = now]
  <1>2. q.pc = pc /\ q.user = challenges[c].user /\ q.challenge = c /\ q.readAt = now
    BY DEF Idle
  <1>3. request' = [request EXCEPT ![r] = q]
    BY DEF Answering
  <1> HIDE DEF q
  <1>4. request'[r] = q
    BY <1>3 DEF AuthInv, TypeOK
  <1>5. now <= challenges[c].expires
    BY <1>1 DEF ChallengeOpen, ChallengeRow
  <1>6. q.user # NULL /\ challenges[c] # NULL /\ challenges[c].consumed = NoTime
    BY <1>2 DEF ChallengeOpen
  <1> QED BY <1>1, <1>2, <1>4, <1>5, <1>6 DEF LocalsOf, AnswersRow

\* An enrolment carries the secret the table received last.
LEMMA LocalsOnLinkTotp ==
  ASSUME AuthInv, NEW r \in Requests, NEW s \in SessionIds, LinkTotp(r, s), Running(r)'
  PROVE  LocalsOf(r)'
  <1>1. PICK u \in Users : u = sessions[s].user
    BY PrincipalHasSession DEF LinkTotp
  <1>2. totp[u] \in Nat /\ now \in Nat /\ now' = now /\ totp'[u] = totp[u] + 1
    BY <1>1 DEF AuthInv, TypeOK, LinkTotp, UpsertTotpFactor
  <1> DEFINE row == [user |-> u, type |-> "totp", subject |-> NULL]
             q == [Idle EXCEPT !.pc = "method", !.user = u, !.secret = totp[u] + 1,
                               !.method = row]
  <1>3. request' = [request EXCEPT ![r] = q] \/ request' = [request EXCEPT ![r] = Idle]
    BY <1>1 DEF LinkTotp
  <1>4. /\ q.pc = "method" /\ q.user = u /\ q.secret = totp[u] + 1 /\ q.challenge = NULL
        /\ q.method = row /\ q.readAt = NoTime
    BY DEF Idle
  <1>5. row \in MethodRow /\ row.user = u /\ row.type = "totp"
    BY DEF MethodRow
  <1> HIDE DEF q, row
  <1>6. request'[r] = q
    BY <1>3 DEF AuthInv, TypeOK, Running, Idle
  <1>7. totp'[u] # 0 /\ q.secret <= totp'[u]
    BY <1>2, <1>4
  <1> QED BY <1>2, <1>4, <1>5, <1>6, <1>7 DEF LocalsOf, MethodReady, NoTime

\* A passkey registration carries the credential just stored for its user.
LEMMA LocalsOnLinkPasskey ==
  ASSUME AuthInv, NEW r \in Requests, NEW s \in SessionIds, NEW id \in Subjects,
         LinkPasskey(r, s, id), Running(r)'
  PROVE  LocalsOf(r)'
  <1>1. PICK u \in Users : u = sessions[s].user
    BY PrincipalHasSession DEF LinkPasskey
  <1>2. now \in Nat /\ now' = now /\ credentials'[id] = u /\ id # NULL
    BY <1>1 DEF AuthInv, TypeOK, LinkPasskey, CreateWebAuthnCredential
  <1> DEFINE row == [user |-> u, type |-> "passkey", subject |-> id]
             q == [Idle EXCEPT !.pc = "method", !.user = u, !.method = row]
  <1>3. request' = [request EXCEPT ![r] = q] \/ request' = [request EXCEPT ![r] = Idle]
    BY <1>1 DEF LinkPasskey
  <1>4. /\ q.pc = "method" /\ q.user = u /\ q.challenge = NULL
        /\ q.method = row /\ q.readAt = NoTime
    BY DEF Idle
  <1>5. row \in MethodRow /\ row.user = u /\ row.type = "passkey" /\ row.subject = id
    BY DEF MethodRow
  <1> HIDE DEF q, row
  <1>6. request'[r] = q
    BY <1>3 DEF AuthInv, TypeOK, Running, Idle
  <1> QED BY <1>2, <1>4, <1>5, <1>6 DEF LocalsOf, MethodReady, NoTime

\* A handler that only moves on carries what it had.
LEMMA Moved ==
  ASSUME AuthInv, NEW r \in Requests, Running(r),
         NEW pc \in {"challenge", "consume", "session"}, Goto(r, pc)
  PROVE  /\ request'[r].pc = pc
         /\ \E q \in RequestState :
              /\ q = request[r]
              /\ request'[r].user = q.user /\ request'[r].readAt = q.readAt
              /\ request'[r].challenge = q.challenge
              /\ request'[r].password = q.password
              /\ request'[r].enrolled = q.enrolled
  <1>1. request[r] \in RequestState
    BY DEF AuthInv, TypeOK
  <1>2. request'[r] = [request[r] EXCEPT !.pc = pc]
    BY DEF AuthInv, TypeOK, Goto
  <1> QED BY <1>1, <1>2 DEF RequestState

\* Moving on keeps the locals true: it comes after the lookup of the factor,
\* of the credential, the UPDATE of the challenge, or the method row.
LEMMA LocalsOnMove ==
  ASSUME AuthInv, [Next]_vars, NEW r \in Requests, Running(r),
         NEW pc \in {"challenge", "consume", "session"}, Goto(r, pc),
         pc = "challenge" => request[r].challenge = NULL,
         pc = "consume" => request[r].challenge # NULL,
         pc = "session" /\ request[r].challenge = NULL
            => request[r].password = request[r].user
  PROVE  LocalsOf(r)'
  <1>1. LocalsOf(r) /\ TypeOK
    BY DEF AuthInv, LocalsAgree
  <1>2. PICK q \in RequestState :
          /\ q = request[r]
          /\ request'[r].user = q.user /\ request'[r].readAt = q.readAt
          /\ request'[r].challenge = q.challenge /\ request'[r].password = q.password
    BY Moved
  <1>3. request'[r].pc = pc
    BY Moved
  <1>4. q.user # NULL /\ q.readAt <= now /\ (q.challenge # NULL => AnswersRow(q))
    BY <1>1, <1>2 DEF LocalsOf
  <1>5. q.readAt <= now'
    BY <1>1, <1>4, TimeAdvances DEF RequestState, Timestamp, NoTime
  <1>6. q.challenge # NULL => AnswersRow(q)'
    BY <1>4, AnswerStays
  <1>7. q.challenge # NULL => AnswersRow(request[r])'
    BY <1>2, <1>6 DEF AnswersRow
  <1> QED BY <1>2, <1>3, <1>4, <1>5, <1>7 DEF LocalsOf, AnswersRow

\* What a handler that is not idle in the next state can have done: nothing, or
\* one of its own steps.
LEMMA RequestChange ==
  ASSUME AuthInv, [Next]_vars, NEW r \in Requests, request'[r] # request[r], Running(r)'
  PROVE  \/ \E u \in Users : RegisterWithPassword(r, u)
         \/ \E identifier \in Identifiers, password \in Users :
              LoginWithPassword(r, identifier, password)
         \/ \E c \in ChallengeIds : VerifyTotpChallenge(r, c) \/ VerifyWebAuthnChallenge(r, c)
         \/ \E s \in SessionIds : LinkTotp(r, s)
         \/ \E s \in SessionIds, id \in Subjects : LinkPasskey(r, s, id)
         \/ LookupFactor(r)
         \/ \E id \in Subjects : MatchCredential(r, id)
         \/ SpendChallenge(r)
         \/ StoreMethod(r)
  <1>1. ~ ChallengeTotp(r) /\ ~ authenticateAndIssueSession(r) /\ ~ Crash
    BY DEF ChallengeTotp, authenticateAndIssueSession, End, Crash, Running, Idle,
           AuthInv, TypeOK
  <1>2. ASSUME NEW q \in Requests, q # r PROVE ~ HandlerStep(q)
    BY <1>2 DEF HandlerStep, LookupFactor, ChallengeTotp, MatchCredential,
       SpendChallenge, authenticateAndIssueSession, StoreMethod, Goto, End,
       AuthInv, TypeOK
  <1>3. ASSUME NEW q \in Requests, q # r
        PROVE  /\ \A u : ~ RegisterWithPassword(q, u)
               /\ \A identifier, password : ~ LoginWithPassword(q, identifier, password)
               /\ \A c : ~ VerifyTotpChallenge(q, c) /\ ~ VerifyWebAuthnChallenge(q, c)
               /\ \A s : ~ LinkTotp(q, s)
               /\ \A s, id : ~ LinkPasskey(q, s, id)
    BY <1>3 DEF RegisterWithPassword, LoginWithPassword, VerifyTotpChallenge,
       VerifyWebAuthnChallenge, Answering, LinkTotp, LinkPasskey, AuthInv, TypeOK
  <1>4. request' # request
    OBVIOUS
  <1> QED
    BY <1>1, <1>2, <1>3, <1>4 DEF Next, vars, HandlerStep, GetWebAuthnChallengeOptions,
       StartExternalProviderLogin, LinkGoogle, UnlinkCurrentUserAuthMethod, Tick

\* The locals of every handler stay true over every step.
LEMMA LocalsStep == AuthInv /\ [Next]_vars => LocalsAgree'
  <1> SUFFICES ASSUME AuthInv, [Next]_vars, NEW r \in Requests, Running(r)'
               PROVE  LocalsOf(r)'
    BY DEF LocalsAgree
  <1>1. ASSUME Running(r) PROVE LocalsOf(r)
    BY <1>1 DEF AuthInv, LocalsAgree
  <1>2. CASE request'[r] = request[r]
    BY <1>2, LocalsKept DEF Running
  <1>3. ASSUME NEW c \in ChallengeIds,
               VerifyTotpChallenge(r, c) \/ VerifyWebAuthnChallenge(r, c)
        PROVE  LocalsOf(r)'
    BY <1>3, LocalsOnAnswer DEF VerifyTotpChallenge, VerifyWebAuthnChallenge
  <1>4. CASE LookupFactor(r)
    <2>1. Running(r) /\ request[r].pc = "factor"
      BY <1>4 DEF LookupFactor, Running
    <2>2. request[r].challenge = NULL /\ request[r].password = request[r].user
      BY <1>1, <2>1 DEF LocalsOf
    <2>3. PICK pc \in {"challenge", "session"} : Goto(r, pc)
      BY <1>4 DEF LookupFactor
    <2> QED BY <2>1, <2>2, <2>3, LocalsOnMove
  <1>5. ASSUME NEW id \in Subjects, MatchCredential(r, id) PROVE LocalsOf(r)'
    <2>1. Running(r) /\ request[r].pc = "credential"
      BY <1>5 DEF MatchCredential, Running
    <2>2. request[r].challenge # NULL
      BY <1>1, <2>1 DEF LocalsOf
    <2>3. Goto(r, "consume")
      BY <1>5 DEF MatchCredential, End, Running, Idle, AuthInv, TypeOK
    <2> QED BY <2>1, <2>2, <2>3, LocalsOnMove
  <1>6. CASE SpendChallenge(r)
    <2>1. Running(r) /\ request[r].pc = "consume"
      BY <1>6 DEF SpendChallenge, Running
    <2>2. request[r].challenge # NULL
      BY <1>1, <2>1 DEF LocalsOf
    <2>3. Goto(r, "session")
      BY <1>6 DEF SpendChallenge, End, Running, Idle, AuthInv, TypeOK
    <2> QED BY <2>1, <2>2, <2>3, LocalsOnMove
  <1>7. CASE StoreMethod(r)
    <2>1. Running(r) /\ request[r].pc = "method"
      BY <1>7 DEF StoreMethod, Running
    <2>2. Goto(r, "session") /\ request[r].method.type = "password"
      BY <1>7 DEF StoreMethod, End, Running, Idle, AuthInv, TypeOK
    <2>3. request[r].password = request[r].user
      BY <1>1, <2>1, <2>2 DEF LocalsOf, MethodReady
    <2> QED BY <2>1, <2>2, <2>3, LocalsOnMove
  <1> QED
    BY <1>2, <1>3, <1>4, <1>5, <1>6, <1>7, RequestChange, LocalsOnRegister,
       LocalsOnLogin, LocalsOnLinkTotp, LocalsOnLinkPasskey

-----------------------------------------------------------------------------
(* Sessions.                                                               *)

\* A session is opened by the last statement of a sign-in, from what its
\* handler carried.
LEMMA NewSession ==
  ASSUME AuthInv, [Next]_vars, NEW s \in SessionIds, sessions[s] = NULL, sessions'[s] # NULL
  PROVE  \E r \in Requests :
           /\ authenticateAndIssueSession(r) /\ LocalsOf(r) /\ request[r] \in RequestState
           /\ sessions'[s].user = request[r].user
           /\ opened'[s] = [challenge |-> request[r].challenge,
                            readAt |-> request[r].readAt,
                            enrolled |-> request[r].enrolled,
                            password |-> request[r].password]
           /\ opened'[s] # NULL /\ challenges' = challenges /\ now' = now
  <1>1. PICK r \in Requests : authenticateAndIssueSession(r)
    BY DEF Next, vars, tables, HandlerStep, RegisterWithPassword,
       LoginWithPassword, GetWebAuthnChallengeOptions, StartExternalProviderLogin,
       VerifyTotpChallenge, VerifyWebAuthnChallenge, LinkTotp, LinkPasskey,
       LinkGoogle, UnlinkCurrentUserAuthMethod, LookupFactor, ChallengeTotp,
       MatchCredential, SpendChallenge, StoreMethod, Crash, Tick
  <1>2. LocalsOf(r) /\ request[r] \in RequestState
    BY <1>1 DEF AuthInv, LocalsAgree, TypeOK, Running, authenticateAndIssueSession
  <1>3. /\ sessions'[s].user = request[r].user
        /\ opened'[s] = [challenge |-> request[r].challenge,
                         readAt |-> request[r].readAt,
                         enrolled |-> request[r].enrolled,
                         password |-> request[r].password]
    BY <1>1 DEF authenticateAndIssueSession, CreateSession, AuthInv, TypeOK
  <1>4. opened'[s] \in Opening
    BY <1>2, <1>3 DEF RequestState, Opening
  <1> QED BY <1>1, <1>2, <1>3, <1>4 DEF authenticateAndIssueSession

\* A token is sent by the statement that has just stored its session.
LEMMA NewTold ==
  ASSUME AuthInv, [Next]_vars, NEW s \in told', s \notin told
  PROVE  s \in SessionIds /\ sessions'[s] # NULL
  <1>1. PICK r \in Requests : authenticateAndIssueSession(r)
    BY DEF Next, vars, history, HandlerStep, RegisterWithPassword,
       LoginWithPassword, GetWebAuthnChallengeOptions, StartExternalProviderLogin,
       VerifyTotpChallenge, VerifyWebAuthnChallenge, LinkTotp, LinkPasskey,
       LinkGoogle, UnlinkCurrentUserAuthMethod, LookupFactor, ChallengeTotp,
       MatchCredential, SpendChallenge, StoreMethod, Crash, Tick
  <1>2. request[r].user \in Users
    BY <1>1 DEF AuthInv, LocalsAgree, LocalsOf, TypeOK, Running, RequestState,
       authenticateAndIssueSession
  <1>3. /\ s \in SessionIds
        /\ sessions'[s] = [user |-> request[r].user, expires |-> now + SessionTTL]
    BY <1>1 DEF authenticateAndIssueSession, CreateSession, Applied, Reported, AuthInv, TypeOK
  <1>4. sessions'[s] \in SessionRow
    BY <1>2, <1>3 DEF AuthInv, TypeOK, SessionRow
  <1> QED BY <1>3, <1>4

\* Sessions keep their history, and sent tokens their session.
LEMMA SessionsStep == AuthInv /\ [Next]_vars => SessionsKept'
  <1> SUFFICES ASSUME AuthInv, [Next]_vars PROVE SessionsKept'
    OBVIOUS
  <1>1. now \in Nat /\ now' \in Nat /\ now <= now'
    BY TimeAdvances DEF AuthInv
  <1>2. ASSUME NEW s \in SessionIds, sessions'[s] # NULL
        PROVE  opened'[s] # NULL /\ opened'[s].readAt <= now'
    <2>1. CASE sessions[s] # NULL
      <3>1. opened'[s] = opened[s] /\ opened[s] # NULL /\ opened[s].readAt <= now
        BY <2>1, SessionsStay DEF AuthInv, SessionsKept
      <3>2. opened[s].readAt \in Int
        BY <3>1 DEF AuthInv, TypeOK, Opening, Timestamp, NoTime
      <3> QED BY <1>1, <3>1, <3>2
    <2>2. CASE sessions[s] = NULL
      <3>1. PICK r \in Requests :
              /\ LocalsOf(r) /\ opened'[s] # NULL /\ now' = now
              /\ opened'[s] = [challenge |-> request[r].challenge,
                               readAt |-> request[r].readAt,
                               enrolled |-> request[r].enrolled,
                               password |-> request[r].password]
        BY <1>2, <2>2, NewSession
      <3>2. request[r].readAt <= now /\ opened'[s].readAt = request[r].readAt
        BY <3>1 DEF LocalsOf
      <3> QED BY <3>1, <3>2
    <2> QED BY <2>1, <2>2
  <1>3. ASSUME NEW s \in told' PROVE sessions'[s] # NULL
    <2>1. CASE s \in told
      BY <2>1, SessionsStay DEF AuthInv, TypeOK, SessionsKept
    <2>2. CASE s \notin told
      BY <2>2, NewTold
    <2> QED BY <2>1, <2>2
  <1> QED BY <1>2, <1>3 DEF SessionsKept

\* The inductive invariant holds at start-up.
LEMMA InitAuth == Init => AuthInv
  <1> SUFFICES ASSUME Init PROVE AuthInv
    OBVIOUS
  <1>1. TypeOK
    BY IdleType DEF Init, TypeOK
  <1>2. LocalsAgree /\ SessionsKept
    BY DEF Init, LocalsAgree, Running, Idle, SessionsKept
  <1> QED BY <1>1, <1>2 DEF AuthInv

\* AuthInv holds in every reachable state.
LEMMA AuthInductive == Spec => []AuthInv
  <1>1. AuthInv /\ [Next]_vars => AuthInv'
    BY StepType, LocalsStep, SessionsStep DEF AuthInv
  <1> QED BY <1>1, InitAuth, PTL DEF Spec

\* Every table and every handler's local variables are always well typed.
THEOREM TypeCorrect == Spec => []TypeOK
  <1>1. AuthInv => TypeOK
    BY DEF AuthInv
  <1> QED BY <1>1, AuthInductive, PTL

-----------------------------------------------------------------------------
(* Which challenge, and whose password, a session stands for.              *)

\* A session keeps answering the challenge it was opened for.
LEMMA AnswersStep ==
  AuthInv /\ SessionAnswersOpenChallenge /\ [Next]_vars => SessionAnswersOpenChallenge'
  <1> SUFFICES ASSUME AuthInv, SessionAnswersOpenChallenge, [Next]_vars,
                      NEW s \in SessionIds, sessions'[s] # NULL,
                      opened'[s].challenge # NULL
               PROVE  LET row == challenges'[opened'[s].challenge] IN
                      /\ row # NULL /\ row.user = sessions'[s].user
                      /\ opened'[s].readAt <= row.expires
                      /\ row.consumed = NoTime \/ opened'[s].readAt <= row.consumed
    BY DEF SessionAnswersOpenChallenge
  <1>1. CASE sessions[s] # NULL
    <2>1. /\ opened[s] # NULL /\ opened[s].readAt <= now
          /\ opened'[s] = opened[s] /\ sessions'[s] = sessions[s]
      BY <1>1, SessionsStay DEF AuthInv, SessionsKept
    <2>2. PICK c \in ChallengeIds : c = opened[s].challenge
      BY <2>1 DEF AuthInv, TypeOK, Opening
    <2>3. /\ challenges[c] # NULL /\ challenges[c].user = sessions[s].user
          /\ opened[s].readAt <= challenges[c].expires
          /\ challenges[c].consumed = NoTime \/ opened[s].readAt <= challenges[c].consumed
      BY <1>1, <2>1, <2>2 DEF SessionAnswersOpenChallenge
    <2> QED BY <2>1, <2>2, <2>3, ChallengesOnlyClose
  <1>2. CASE sessions[s] = NULL
    <2>1. PICK r \in Requests :
            /\ authenticateAndIssueSession(r) /\ LocalsOf(r)
            /\ sessions'[s].user = request[r].user /\ challenges' = challenges
            /\ opened'[s] = [challenge |-> request[r].challenge,
                             readAt |-> request[r].readAt,
                             enrolled |-> request[r].enrolled,
                             password |-> request[r].password]
      BY <1>2, NewSession
    <2>2. AnswersRow(request[r])
      BY <2>1 DEF LocalsOf
    <2> QED BY <2>1, <2>2 DEF AnswersRow
  <1> QED BY <1>1, <1>2

\* A session that answers a challenge is the challenge's user's, and its
\* handler had read the challenge before it expired or was consumed by anyone.
THEOREM SessionsAnswerOpenChallenges == Spec => []SessionAnswersOpenChallenge
  <1>1. Init => SessionAnswersOpenChallenge
    BY DEF Init, SessionAnswersOpenChallenge
  <1> QED BY <1>1, AnswersStep, AuthInductive, PTL DEF Spec

\* A session opened by a password keeps its owner.
LEMMA PasswordStep ==
  AuthInv /\ PasswordOwnerSignsIn /\ [Next]_vars => PasswordOwnerSignsIn'
  <1> SUFFICES ASSUME AuthInv, PasswordOwnerSignsIn, [Next]_vars,
                      NEW s \in SessionIds, sessions'[s] # NULL,
                      opened'[s].challenge = NULL
               PROVE  opened'[s].password = sessions'[s].user
    BY DEF PasswordOwnerSignsIn
  <1>1. CASE sessions[s] # NULL
    BY <1>1, SessionsStay DEF PasswordOwnerSignsIn
  <1>2. CASE sessions[s] = NULL
    <2>1. PICK r \in Requests :
            /\ authenticateAndIssueSession(r) /\ LocalsOf(r)
            /\ sessions'[s].user = request[r].user
            /\ opened'[s] = [challenge |-> request[r].challenge,
                             readAt |-> request[r].readAt,
                             enrolled |-> request[r].enrolled,
                             password |-> request[r].password]
      BY <1>2, NewSession
    <2> QED BY <2>1 DEF LocalsOf, authenticateAndIssueSession
  <1> QED BY <1>1, <1>2

\* A password opens sessions for the account it was set for and for no other,
\* whichever of two accounts its identifier names.
THEOREM PasswordsSignInTheirOwner == Spec => []PasswordOwnerSignsIn
  <1>1. Init => PasswordOwnerSignsIn
    BY DEF Init, PasswordOwnerSignsIn
  <1> QED BY <1>1, PasswordStep, AuthInductive, PTL DEF Spec

-----------------------------------------------------------------------------
(* The second factor, when the lookup of it never fails.                   *)

FactorPending ==
    \A r \in Requests :
        request[r].pc \in {"method", "session"} /\ request[r].challenge = NULL
        => ~ request[r].enrolled

\* Who registers or links a method asks for no factor.
LEMMA StartsUnenrolled ==
  ASSUME AuthInv, NEW r \in Requests,
         \/ \E u \in Users : RegisterWithPassword(r, u)
         \/ \E s \in SessionIds : LinkTotp(r, s)
         \/ \E s \in SessionIds, id \in Subjects : LinkPasskey(r, s, id)
  PROVE  request'[r].pc \in {"method", "idle"} /\ ~ request'[r].enrolled
  <1> DEFINE Started == \E q : /\ request' = [request EXCEPT ![r] = q]
                               /\ q.pc \in {"method", "idle"} /\ q.enrolled = FALSE
  <1>1. ASSUME NEW u \in Users, RegisterWithPassword(r, u) PROVE Started
    <2> DEFINE q == [Idle EXCEPT !.pc = "method", !.user = u, !.password = u,
                                 !.method = PasswordMethod(u)]
    <2>1. /\ q.pc = "method" /\ q.enrolled = FALSE
          /\ Idle.pc = "idle" /\ Idle.enrolled = FALSE
      BY DEF Idle
    <2>2. request' = [request EXCEPT ![r] = q] \/ request' = [request EXCEPT ![r] = Idle]
      BY <1>1 DEF RegisterWithPassword
    <2> HIDE DEF q
    <2> QED BY <2>1, <2>2
  <1>2. ASSUME NEW s \in SessionIds, LinkTotp(r, s) PROVE Started
    <2> DEFINE q == [Idle EXCEPT !.pc = "method", !.user = sessions[s].user,
                                 !.secret = totp[sessions[s].user] + 1,
                                 !.method = [user |-> sessions[s].user, type |-> "totp",
                                             subject |-> NULL]]
    <2>1. /\ q.pc = "method" /\ q.enrolled = FALSE
          /\ Idle.pc = "idle" /\ Idle.enrolled = FALSE
      BY DEF Idle
    <2>2. request' = [request EXCEPT ![r] = q] \/ request' = [request EXCEPT ![r] = Idle]
      BY <1>2 DEF LinkTotp
    <2> HIDE DEF q
    <2> QED BY <2>1, <2>2
  <1>3. ASSUME NEW s \in SessionIds, NEW id \in Subjects, LinkPasskey(r, s, id)
        PROVE  Started
    <2> DEFINE q == [Idle EXCEPT !.pc = "method", !.user = sessions[s].user,
                                 !.method = [user |-> sessions[s].user, type |-> "passkey",
                                             subject |-> id]]
    <2>1. /\ q.pc = "method" /\ q.enrolled = FALSE
          /\ Idle.pc = "idle" /\ Idle.enrolled = FALSE
      BY DEF Idle
    <2>2. request' = [request EXCEPT ![r] = q] \/ request' = [request EXCEPT ![r] = Idle]
      BY <1>3 DEF LinkPasskey
    <2> HIDE DEF q
    <2> QED BY <2>1, <2>2
  <1>4. Started
    BY <1>1, <1>2, <1>3
  <1> QED BY <1>4 DEF AuthInv, TypeOK

\* A handler reaches its session or method row by these steps alone.
LEMMA ArrivesBy ==
  ASSUME AuthInv, [Next]_vars, NEW r \in Requests, request'[r] # request[r],
         request'[r].pc \in {"method", "session"}
  PROVE  \/ \E u \in Users : RegisterWithPassword(r, u)
         \/ \E s \in SessionIds : LinkTotp(r, s)
         \/ \E s \in SessionIds, id \in Subjects : LinkPasskey(r, s, id)
         \/ LookupFactor(r) \/ SpendChallenge(r) \/ StoreMethod(r)
  <1>1. Running(r)'
    BY DEF Running
  <1>2. ASSUME NEW identifier, NEW password, LoginWithPassword(r, identifier, password)
        PROVE  FALSE
    <2>1. PICK u : request' = [request EXCEPT ![r] =
            [Idle EXCEPT !.pc = "factor", !.user = u, !.password = password,
                         !.enrolled = (totp[u] # 0)]]
      BY <1>2 DEF LoginWithPassword
    <2> DEFINE q == [Idle EXCEPT !.pc = "factor", !.user = u, !.password = password,
                                 !.enrolled = (totp[u] # 0)]
    <2>2. q.pc = "factor"
      BY DEF Idle
    <2>3. request' = [request EXCEPT ![r] = q]
      BY <2>1
    <2> HIDE DEF q
    <2> QED BY <2>2, <2>3 DEF AuthInv, TypeOK
  <1>3. ASSUME NEW c, VerifyTotpChallenge(r, c) \/ VerifyWebAuthnChallenge(r, c)
        PROVE  FALSE
    <2>1. PICK pc \in {"consume", "credential"} : Answering(r, c, pc)
      BY <1>3 DEF VerifyTotpChallenge, VerifyWebAuthnChallenge
    <2> DEFINE q == [Idle EXCEPT !.pc = pc, !.user = challenges[c].user,
                                 !.challenge = c, !.readAt = now]
    <2>2. q.pc = pc
      BY DEF Idle
    <2>3. request' = [request EXCEPT ![r] = q]
      BY <2>1 DEF Answering
    <2> HIDE DEF q
    <2> QED BY <2>2, <2>3 DEF AuthInv, TypeOK
  <1>4. ASSUME NEW id, MatchCredential(r, id) PROVE FALSE
    <2>1. CASE Goto(r, "consume")
      BY <1>4, <2>1, Moved DEF MatchCredential, Running
    <2>2. CASE End(r)
      BY <2>2 DEF End, Idle, AuthInv, TypeOK
    <2> QED BY <1>4, <2>1, <2>2 DEF MatchCredential
  <1> QED BY <1>1, <1>2, <1>3, <1>4, RequestChange

\* Who arrives at the session without a challenge had no factor: it has just
\* been looked up, and factors are never deleted.
LEMMA FactorStep ==
  ASSUME "unread" \notin Faults
  PROVE  AuthInv /\ FactorPending /\ [Next]_vars => FactorPending'
  <1> SUFFICES ASSUME AuthInv, FactorPending, [Next]_vars, NEW r \in Requests,
                      request'[r].pc \in {"method", "session"}, request'[r].challenge = NULL
               PROVE  ~ request'[r].enrolled
    BY DEF FactorPending
  <1>1. CASE request'[r] = request[r]
    BY <1>1 DEF FactorPending
  <1>2. CASE LookupFactor(r)
    <2>1. Running(r) /\ request[r].pc = "factor" /\ LocalsOf(r)
      BY <1>2 DEF LookupFactor, Running, AuthInv, LocalsAgree
    <2>2. PICK pc \in {"challenge", "session"} :
            Goto(r, pc) /\ pc = IF HasFactor(request[r].user) THEN "challenge" ELSE "session"
      BY <1>2 DEF LookupFactor, Lookups
    <2>3. request'[r].pc = pc /\ request'[r].enrolled = request[r].enrolled
      BY <2>1, <2>2, Moved
    <2>4. totp[request[r].user] = 0
      BY <2>2, <2>3 DEF HasFactor, GetTotpFactorByUserID
    <2> QED BY <2>1, <2>3, <2>4 DEF LocalsOf
  <1>3. CASE SpendChallenge(r)
    <2>1. Running(r) /\ request[r].challenge # NULL
      BY <1>3 DEF SpendChallenge, Running, AuthInv, LocalsAgree, LocalsOf
    <2>2. Goto(r, "session")
      BY <1>3 DEF SpendChallenge, End, Idle, AuthInv, TypeOK
    <2>3. request'[r].challenge = request[r].challenge
      BY <2>1, <2>2, Moved
    <2> QED BY <2>1, <2>3
  <1>4. CASE StoreMethod(r)
    <2>1. Running(r) /\ ~ request[r].enrolled
      BY <1>4 DEF StoreMethod, Running, FactorPending, AuthInv, LocalsAgree, LocalsOf
    <2>2. Goto(r, "session")
      BY <1>4 DEF StoreMethod, End, Idle, AuthInv, TypeOK
    <2>3. request'[r].enrolled = request[r].enrolled
      BY <2>1, <2>2, Moved
    <2> QED BY <2>1, <2>3
  <1> QED BY <1>1, <1>2, <1>3, <1>4, ArrivesBy, StartsUnenrolled

\* A session opened without a challenge stays one that needed none.
LEMMA AskedStep ==
  AuthInv /\ FactorPending /\ SecondFactorAsked /\ [Next]_vars => SecondFactorAsked'
  <1> SUFFICES ASSUME AuthInv, FactorPending, SecondFactorAsked, [Next]_vars,
                      NEW s \in SessionIds, sessions'[s] # NULL,
                      opened'[s].challenge = NULL
               PROVE  ~ opened'[s].enrolled
    BY DEF SecondFactorAsked
  <1>1. CASE sessions[s] # NULL
    BY <1>1, SessionsStay DEF SecondFactorAsked
  <1>2. CASE sessions[s] = NULL
    <2>1. PICK r \in Requests :
            /\ authenticateAndIssueSession(r)
            /\ opened'[s] = [challenge |-> request[r].challenge,
                             readAt |-> request[r].readAt,
                             enrolled |-> request[r].enrolled,
                             password |-> request[r].password]
      BY <1>2, NewSession
    <2> QED BY <2>1 DEF FactorPending, authenticateAndIssueSession
  <1> QED BY <1>1, <1>2

\* If the lookup of the factor never fails, who had one when the password was
\* checked gets no session by the password alone.
THEOREM FactorIsAsked ==
  ASSUME "unread" \notin Faults
  PROVE  Spec => []SecondFactorAsked
  <1>1. Init => FactorPending /\ SecondFactorAsked
    BY DEF Init, FactorPending, SecondFactorAsked, Idle
  <1>2. AuthInv /\ FactorPending /\ SecondFactorAsked /\ [Next]_vars
          => FactorPending' /\ SecondFactorAsked'
    BY FactorStep, AskedStep
  <1> QED BY <1>1, <1>2, AuthInductive, PTL DEF Spec

-----------------------------------------------------------------------------
(* Challenges are spent, when no statement fails without effect.           *)

SpentPending ==
    \A r \in Requests :
        request[r].pc = "session" /\ request[r].challenge # NULL
        => challenges[request[r].challenge].consumed # NoTime

\* A consumed challenge stays consumed.
LEMMA SpentStays ==
  ASSUME AuthInv, [Next]_vars, NEW c \in ChallengeIds, challenges[c] # NULL,
         challenges[c].consumed # NoTime
  PROVE  challenges'[c].consumed # NoTime
  BY ChallengesOnlyClose

\* Who arrives at the session with a challenge has just consumed it.
LEMMA SpentStep ==
  ASSUME "failed" \notin Faults
  PROVE  AuthInv /\ SpentPending /\ [Next]_vars => SpentPending'
  <1> SUFFICES ASSUME AuthInv, SpentPending, [Next]_vars, NEW r \in Requests,
                      request'[r].pc = "session", request'[r].challenge # NULL
               PROVE  challenges'[request'[r].challenge].consumed # NoTime
    BY DEF SpentPending
  <1>1. CASE request'[r] = request[r]
    <2>1. Running(r)
      BY <1>1 DEF Running
    <2>2. PICK c \in ChallengeIds : c = request[r].challenge /\ challenges[c] # NULL
      BY <1>1, <2>1, HeldChallenge DEF AnswersRow
    <2> QED BY <1>1, <2>2, SpentStays DEF SpentPending
  <1>2. CASE LookupFactor(r) \/ StoreMethod(r)
    <2>1. Running(r) /\ request[r].challenge = NULL
      BY <1>2 DEF LookupFactor, StoreMethod, Running, AuthInv, LocalsAgree, LocalsOf
    <2>2. \E pc \in {"challenge", "session"} : Goto(r, pc)
      BY <1>2 DEF LookupFactor, StoreMethod, End, Idle, AuthInv, TypeOK
    <2>3. request'[r].challenge = request[r].challenge
      BY <2>1, <2>2, Moved
    <2> QED BY <2>1, <2>3
  <1>3. CASE SpendChallenge(r)
    <2>1. Running(r) /\ request[r].challenge # NULL
      BY <1>3 DEF SpendChallenge, Running, AuthInv, LocalsAgree, LocalsOf
    <2>2. PICK c \in ChallengeIds : c = request[r].challenge /\ challenges[c] # NULL
      BY <2>1, HeldChallenge DEF AnswersRow
    <2>3. Goto(r, "session")
      BY <1>3 DEF SpendChallenge, End, Idle, AuthInv, TypeOK
    <2>4. request'[r].challenge = c
      BY <2>1, <2>2, <2>3, Moved
    <2>5. ConsumeAuthChallenge(c)
      BY <1>3, <2>2 DEF SpendChallenge, Outcomes, Applied
    <2> QED BY <2>2, <2>4, <2>5, ConsumedRow DEF AuthInv
  <1>4. ASSUME \/ \E u \in Users : RegisterWithPassword(r, u)
               \/ \E s \in SessionIds : LinkTotp(r, s)
               \/ \E s \in SessionIds, id \in Subjects : LinkPasskey(r, s, id)
        PROVE  FALSE
    BY <1>4, StartsUnenrolled
  <1> QED BY <1>1, <1>2, <1>3, <1>4, ArrivesBy

\* A challenge that has opened a session stays consumed.
LEMMA AnsweredStep ==
  AuthInv /\ SessionAnswersOpenChallenge /\ SpentPending /\ AnsweredChallengeIsSpent
    /\ [Next]_vars => AnsweredChallengeIsSpent'
  <1> SUFFICES ASSUME AuthInv, SessionAnswersOpenChallenge, SpentPending,
                      AnsweredChallengeIsSpent, [Next]_vars,
                      NEW s \in SessionIds, sessions'[s] # NULL,
                      opened'[s].challenge # NULL
               PROVE  challenges'[opened'[s].challenge].consumed # NoTime
    BY DEF AnsweredChallengeIsSpent
  <1>1. CASE sessions[s] # NULL
    <2>1. opened[s] # NULL /\ opened'[s] = opened[s]
      BY <1>1, SessionsStay DEF AuthInv, SessionsKept
    <2>2. PICK c \in ChallengeIds : c = opened[s].challenge
      BY <2>1 DEF AuthInv, TypeOK, Opening
    <2>3. challenges[c] # NULL /\ challenges[c].consumed # NoTime
      BY <1>1, <2>1, <2>2 DEF SessionAnswersOpenChallenge, AnsweredChallengeIsSpent
    <2> QED BY <2>1, <2>2, <2>3, SpentStays
  <1>2. CASE sessions[s] = NULL
    <2>1. PICK r \in Requests :
            /\ authenticateAndIssueSession(r) /\ challenges' = challenges
            /\ opened'[s] = [challenge |-> request[r].challenge,
                             readAt |-> request[r].readAt,
                             enrolled |-> request[r].enrolled,
                             password |-> request[r].password]
      BY <1>2, NewSession
    <2> QED BY <2>1 DEF SpentPending, authenticateAndIssueSession
  <1> QED BY <1>1, <1>2

\* If no UPDATE fails silently, a challenge that has opened a session is
\* consumed, so a crash leaves no answered challenge open.
THEOREM AnsweredChallengesAreSpent ==
  ASSUME "failed" \notin Faults
  PROVE  Spec => []AnsweredChallengeIsSpent
  <1>1. Init => SpentPending /\ AnsweredChallengeIsSpent
    BY DEF Init, SpentPending, AnsweredChallengeIsSpent, Idle
  <1>2. AuthInv /\ SessionAnswersOpenChallenge /\ SpentPending /\ AnsweredChallengeIsSpent
          /\ [Next]_vars => SpentPending' /\ AnsweredChallengeIsSpent'
    BY SpentStep, AnsweredStep
  <1> QED BY <1>1, <1>2, AuthInductive, SessionsAnswerOpenChallenges, PTL DEF Spec

-----------------------------------------------------------------------------
(* What a user is shown and what is listed.                                *)

\* A secret that was shown is in force until it is replaced by a later one.
LEMMA ShownStep == AuthInv /\ ShownSecretStands /\ [Next]_vars => ShownSecretStands'
  <1> SUFFICES ASSUME AuthInv, ShownSecretStands, [Next]_vars, NEW e \in shown'
               PROVE  e[2] <= totp'[e[1]]
    BY DEF ShownSecretStands
  <1>1. CASE e \in shown
    <2>1. e[1] \in Users /\ e[2] \in Nat /\ e[2] <= totp[e[1]]
      BY <1>1 DEF AuthInv, TypeOK, ShownSecretStands
    <2> QED BY <2>1, FactorsStay
  <1>2. CASE e \notin shown
    <2>1. PICK r \in Requests : StoreMethod(r)
      BY <1>2 DEF Next, vars, history, HandlerStep, RegisterWithPassword,
         LoginWithPassword, GetWebAuthnChallengeOptions, StartExternalProviderLogin,
         VerifyTotpChallenge, VerifyWebAuthnChallenge, LinkTotp, LinkPasskey,
         LinkGoogle, UnlinkCurrentUserAuthMethod, LookupFactor, ChallengeTotp,
         MatchCredential, SpendChallenge, authenticateAndIssueSession, Crash, Tick
    <2>2. LocalsOf(r) /\ request[r].pc = "method" /\ totp' = totp
      BY <2>1 DEF StoreMethod, AuthInv, LocalsAgree, Running
    <2>3. e = <<request[r].user, request[r].secret>> /\ request[r].method.type = "totp"
      BY <1>2, <2>1 DEF StoreMethod
    <2>4. request[r].secret <= totp[request[r].user]
      BY <2>2, <2>3 DEF LocalsOf, MethodReady
    <2> QED BY <2>2, <2>3, <2>4
  <1> QED BY <1>1, <1>2

\* A TOTP secret sent to its user was stored, and only a later enrolment
\* replaces it.
THEOREM ShownSecretsStand == Spec => []ShownSecretStands
  <1>1. Init => ShownSecretStands
    BY DEF Init, ShownSecretStands
  <1> QED BY <1>1, ShownStep, AuthInductive, PTL DEF Spec

\* What a method row stands for; a passkey row names its credential.
Backed(row) ==
    /\ row.type = "totp" => totp[row.user] # 0
    /\ row.type = "passkey" => row.subject # NULL /\ credentials[row.subject] = row.user

MethodsBacked == \A m \in MethodIds : methods[m] # NULL => Backed(methods[m])

\* What a row stands for is never taken away.
LEMMA BackedStays ==
  ASSUME AuthInv, [Next]_vars, NEW row \in MethodRow, Backed(row)
  PROVE  Backed(row)'
  <1>1. row.user \in Users /\ row.subject \in Subjects \cup {NULL}
    BY DEF MethodRow
  <1>2. totp[row.user] # 0 => totp'[row.user] # 0
    BY <1>1, FactorsStay
  <1>3. row.type = "passkey" => credentials'[row.subject] = row.user
    BY <1>1, CredentialsStay DEF Backed
  <1> QED BY <1>2, <1>3 DEF Backed

\* A method row that is new stands for something.
LEMMA NewMethod ==
  ASSUME AuthInv, [Next]_vars, NEW m \in MethodIds, methods'[m] # methods[m],
         methods'[m] # NULL
  PROVE  methods'[m] \in MethodRow /\ Backed(methods'[m])
  <1>1. ASSUME NEW r \in Requests, StoreMethod(r)
        PROVE  methods'[m] \in MethodRow /\ Backed(methods'[m])
    <2>1. LocalsOf(r) /\ request[r] \in RequestState /\ request[r].pc = "method"
      BY <1>1 DEF StoreMethod, AuthInv, LocalsAgree, Running, TypeOK
    <2>2. request[r].method \in MethodRow /\ MethodReady(request[r])
      BY <2>1 DEF LocalsOf, MethodReady, RequestState
    <2>3. methods'[m] = request[r].method
      BY <1>1 DEF StoreMethod, CreateUserAuthMethod, AuthInv, TypeOK
    <2> QED BY <2>2, <2>3 DEF MethodReady, Backed
  <1>2. ASSUME NEW s \in SessionIds, NEW id \in Subjects, LinkGoogle(s, id)
        PROVE  methods'[m] \in MethodRow /\ Backed(methods'[m])
    <2>1. sessions[s].user \in Users
      BY <1>2, PrincipalHasSession DEF LinkGoogle
    <2>2. methods'[m] = [user |-> sessions[s].user, type |-> "oauth_google", subject |-> id]
      BY <1>2 DEF LinkGoogle, CreateUserAuthMethod, AuthInv, TypeOK
    <2> QED BY <2>1, <2>2 DEF MethodRow, Backed
  <1>3. ASSUME NEW s \in SessionIds, NEW k \in MethodIds, UnlinkCurrentUserAuthMethod(s, k)
        PROVE  FALSE
    BY <1>3 DEF UnlinkCurrentUserAuthMethod, DeleteUserAuthMethod, AuthInv, TypeOK
  <1> QED
    BY <1>1, <1>2, <1>3 DEF Next, vars, tables, HandlerStep, RegisterWithPassword,
       LoginWithPassword, GetWebAuthnChallengeOptions, StartExternalProviderLogin,
       VerifyTotpChallenge, VerifyWebAuthnChallenge, LinkTotp, LinkPasskey,
       LookupFactor, ChallengeTotp, MatchCredential, SpendChallenge,
       authenticateAndIssueSession, Crash, Tick

\* Every stored row stays one that stands for something.
LEMMA MethodsStep == AuthInv /\ MethodsBacked /\ [Next]_vars => MethodsBacked'
  <1> SUFFICES ASSUME AuthInv, MethodsBacked, [Next]_vars, NEW m \in MethodIds,
                      methods'[m] # NULL
               PROVE  Backed(methods[m])'
    BY DEF MethodsBacked
  <1>1. PICK row \in MethodRow : row = methods'[m] /\ Backed(row)
    <2>1. CASE methods'[m] = methods[m]
      BY <2>1 DEF AuthInv, TypeOK, MethodsBacked
    <2>2. CASE methods'[m] # methods[m]
      BY <2>2, NewMethod
    <2> QED BY <2>1, <2>2
  <1>2. Backed(row)'
    BY <1>1, BackedStays
  <1> QED BY <1>1, <1>2 DEF Backed

\* A listed method stands for a factor or a credential of its user, whichever
\* statements failed and whoever links and unlinks meanwhile.
THEOREM ListedMethodsAreBacked == Spec => []ListedMethodIsBacked
  <1>1. Init => MethodsBacked
    BY DEF Init, MethodsBacked
  <1>2. TypeOK /\ MethodsBacked => ListedMethodIsBacked
    BY DEF TypeOK, MethodsBacked, Backed, ListedMethodIsBacked, ListUserAuthMethods,
           HasFactor, GetTotpFactorByUserID, GetWebAuthnCredentialByCredentialID
  <1> QED BY <1>1, <1>2, MethodsStep, AuthInductive, TypeCorrect, PTL DEF Spec
=============================================================================
