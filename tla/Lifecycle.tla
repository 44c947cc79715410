----------------------------- MODULE Lifecycle -----------------------------
(***************************************************************************)
(* The life of the API server's processes: configuration, signing key,     *)
(* connection pool, the default OAuth2 client, and a shutdown under load.  *)
(* Several processes may run on one database, and each may be restarted.   *)
(*                                                                         *)
(* On a signal the listener is closed and main returns at once, without    *)
(* waiting for the goroutine that drains: its deferred Close rejects every *)
(* new use of the pool, waits for the connections in use, and the process  *)
(* ends with whatever handlers are still running.                          *)
(***************************************************************************)
EXTENDS Integers, FiniteSets, Statements

CONSTANTS
    Procs,          \* processes of the server
    Environments,   \* what ORIVIS_* can be set to when a process starts
    Requests,       \* requests that clients send
    PoolSize,       \* connections of a process's pool
    DefaultAccess, MinAccess,     \* ORIVIS_ACCESS_TOKEN_TTL_SECONDS
    DefaultRefresh, MinRefresh,   \* ORIVIS_REFRESH_TOKEN_TTL_HOURS
    Second, Hour,   \* how many units of a time.Duration they are
    Half,           \* a time.Duration is one of -Half .. Half - 1
    MaxStarts,      \* bound on the starts of a run
    NULL

Pem == {"none", "rsa", "garbage"}
Environment == [access : Int, refresh : Int, pem : Pem]

\* The configured key, and one that the nth start draws.
Configured == 0
Key == Configured .. MaxStarts

ASSUME LifecycleAssumption ==
    /\ Faults \subseteq FaultKinds
    /\ Environments \subseteq Environment
    /\ IsFiniteSet(Requests)
    /\ PoolSize \in Nat \ {0} /\ MaxStarts \in Nat
    /\ MinAccess \in Nat \ {0} /\ MinRefresh \in Nat \ {0}
    /\ DefaultAccess \in Nat /\ DefaultRefresh \in Nat
    /\ DefaultAccess >= MinAccess /\ DefaultRefresh >= MinRefresh
    /\ Second \in Nat \ {0} /\ Hour \in Nat \ {0} /\ Half \in Nat \ {0}

\* NULL stands for none of a configuration, a key and a process.
ASSUME NullAssumption ==
    /\ NULL \notin Environment /\ NULL \notin Key
    /\ NULL \notin Procs

VARIABLES
    proc,       \* the processes: where each is, its configuration and key
    client,     \* oauth_clients: whether the default client is there
    conns,      \* connections in use, per process
    request,    \* the requests and what became of them
    sessions,   \* sessions: the requests that stored one
    tokens,     \* access tokens that were sent
    starts,     \* starts so far
    signalled,  \* processes that got SIGINT or SIGTERM
    refused     \* history: processes whose start was given up with no failed
                \* statement, unusable key or signal as its reason

pools == <<conns, request, sessions, tokens>>
vars == <<proc, client, pools, starts, signalled, refused>>

-----------------------------------------------------------------------------
Down == [pc |-> "down", nth |-> 0, cfg |-> NULL, key |-> NULL]
ProcState == [pc : {"down", "connect", "lookup", "create", "serving",
                    "stopping", "closing"},
              nth : 0 .. MaxStarts, cfg : Environment \cup {NULL}, key : Key \cup {NULL}]

Starting(p) == proc[p].pc \in {"connect", "lookup", "create"}
Started(p) == proc[p].pc \in {"serving", "stopping", "closing"}
Goto(p, pc) == proc' = [proc EXCEPT ![p].pc = pc]

\* A request: the process that has it, the statements it has left.
Unsent == [pc |-> "unsent", proc |-> NULL, kind |-> NULL, left |-> 0]
Kinds == {"sign_in", "revoke"}
RequestState == [pc : {"unsent", "acquire", "run", "ok", "error", "cut"},
                 proc : Procs \cup {NULL}, kind : Kinds \cup {NULL}, left : 0 .. 2]

Open(i) == request[i].pc \in {"acquire", "run"}

Init ==
    /\ proc = [p \in Procs |-> Down]
    /\ client \in BOOLEAN
    /\ conns = [p \in Procs |-> 0]
    /\ request = [i \in Requests |-> Unsent]
    /\ sessions = {} /\ tokens = {}
    /\ starts = 0
    /\ signalled = {} /\ refused = {}

-----------------------------------------------------------------------------
(* Starting.                                                               *)

\* An unset variable, and text without a number in front, read as 0.
envOrInt(value, fallback) == IF value = 0 THEN fallback ELSE value

\* Mutated form of LoadConfig: the bounds are not checked.
LoadAnything(env) ==
    [env EXCEPT !.access = envOrInt(@, DefaultAccess),
                !.refresh = envOrInt(@, DefaultRefresh)]

\* NULL for an environment that is refused.
LoadConfig(env) ==
    LET cfg == [env EXCEPT !.access = envOrInt(@, DefaultAccess),
                           !.refresh = envOrInt(@, DefaultRefresh)]
    IN IF cfg.access < MinAccess \/ cfg.refresh < MinRefresh THEN NULL ELSE cfg

\* A process whose configuration is refused has done nothing.
Start(p, env) ==
    /\ proc[p].pc = "down"
    /\ LoadConfig(env) # NULL
    /\ starts < MaxStarts
    /\ starts' = starts + 1
    /\ proc' = [proc EXCEPT ![p] =
         [pc |-> "connect", nth |-> starts + 1, cfg |-> LoadConfig(env), key |-> NULL]]
    /\ signalled' = signalled \ {p}
    /\ UNCHANGED <<client, pools, refused>>

\* New returns an error, and main ends the process.
Refuse(p, excuse) ==
    /\ proc' = [proc EXCEPT ![p] = Down]
    /\ refused' = IF excuse THEN refused ELSE refused \cup {p}

\* Mutated form of LoadOrCreatePrivateKey: the configured key is not looked at.
CreatePrivateKey(cfg, nth) == nth

\* NULL for a key that does not parse.
LoadOrCreatePrivateKey(cfg, nth) ==
    CASE cfg.pem = "none"    -> nth
      [] cfg.pem = "rsa"     -> Configured
      [] cfg.pem = "garbage" -> NULL

\* The pool is opened and pinged, then the key is loaded.
Connect(p) ==
    /\ proc[p].pc = "connect"
    /\ LET key == LoadOrCreatePrivateKey(proc[p].cfg, proc[p].nth) IN
       \/ /\ key # NULL
          /\ proc' = [proc EXCEPT ![p] = [@ EXCEPT !.pc = "lookup", !.key = key]]
          /\ UNCHANGED refused
       \/ key = NULL /\ Refuse(p, TRUE)
       \/ "unread" \in Lookups /\ Refuse(p, TRUE)
    /\ UNCHANGED <<client, pools, starts, signalled>>

\* Mutated form of ClientFound: an error other than no rows reads as found.
ClientNotMissing(lookup) == lookup = "unread" \/ client

\* Every error of the lookup reads as no client.
ClientFound(lookup) == lookup = "ok" /\ client

LookupClient(p) ==
    /\ proc[p].pc = "lookup"
    /\ \E lookup \in Lookups : Goto(p, IF ClientFound(lookup) THEN "serving" ELSE "create")
    /\ UNCHANGED <<client, pools, starts, signalled, refused>>

\* What the INSERT of the default client returns.
CreateOAuthClient(outcome) ==
    CASE ~ Reported(outcome) -> "error"
      [] Reported(outcome) /\ client -> "unique_violation"
      [] Reported(outcome) /\ ~ client -> "created"

\* Mutated form of isTolerated: a unique violation is an error like any other.
isCreated(result) == result = "created"

isTolerated(result) == result \in {"created", "unique_violation"}

ensureDefaultOAuthClient(p) ==
    /\ proc[p].pc = "create"
    /\ \E outcome \in Outcomes :
         /\ client' = (client \/ Applied(outcome))
         /\ IF isTolerated(CreateOAuthClient(outcome))
            THEN Goto(p, "serving") /\ UNCHANGED refused
            ELSE Refuse(p, ~ Reported(outcome))
    /\ UNCHANGED <<pools, starts, signalled>>

\* A signal cancels the context that New passes to its statements.
Interrupted(p) ==
    /\ Starting(p) /\ p \in signalled
    /\ Refuse(p, TRUE)
    /\ UNCHANGED <<client, pools, starts, signalled>>

-----------------------------------------------------------------------------
(* Serving.                                                                *)

\* Conversion of a Go int, and the product it is used in, to a Duration.
Duration(n, unit) == ((n * unit + Half) % (2 * Half)) - Half

\* The token of a sign-in: the key that signs it and its two lifetimes.
issueJWT(p) ==
    [key |-> proc[p].key,
     access |-> Duration(proc[p].cfg.access, Second),
     refresh |-> Duration(proc[p].cfg.refresh, Hour),
     cfg |-> proc[p].cfg]

\* The public key of the document is the one the process verifies with.
GetOAuth2Jwks(p) == proc[p].key

\* The signature of a token is checked with the process's own key.
parseAccessClaims(p, token) == token.key = proc[p].key

\* A sign-in lists groups and stores a session; a revocation is two UPDATEs.
Accept(i, p, kind) ==
    /\ request[i].pc = "unsent"
    /\ proc[p].pc = "serving"
    /\ request' = [request EXCEPT ![i] =
         [pc |-> "acquire", proc |-> p, kind |-> kind, left |-> 2]]
    /\ UNCHANGED <<proc, client, conns, sessions, tokens, starts, signalled, refused>>

\* Mutated form of ErrorChecked: every error is dropped.
ErrorDropped(i) == FALSE

\* The listing of groups and both UPDATEs of a revocation drop their errors.
ErrorChecked(i) == request[i].kind = "sign_in" /\ request[i].left = 1

\* What follows a statement: the next one, or the answer.
Continue(i, reported) ==
    LET last == request[i].left = 1
        fails == ~ reported /\ ErrorChecked(i)
    IN /\ request' = [request EXCEPT ![i] =
            [request[i] EXCEPT !.left = @ - 1,
                               !.pc = IF fails THEN "error"
                                      ELSE IF last THEN "ok" ELSE "acquire"]]
       /\ tokens' = IF last /\ ~ fails /\ request[i].kind = "sign_in"
                    THEN tokens \cup {issueJWT(request[i].proc)} ELSE tokens

PoolClosed(p) == proc[p].pc = "closing"

\* Mutated form of Room: one more than there are.
RoomForOneMore(p) == conns[p] <= PoolSize

Room(p) == conns[p] < PoolSize

\* Handlers wait for a connection in the order in which they asked for it.
Acquire(i) ==
    /\ request[i].pc = "acquire"
    /\ LET p == request[i].proc IN
       /\ ~ PoolClosed(p) /\ Room(p)
       /\ conns' = [conns EXCEPT ![p] = @ + 1]
    /\ request' = [request EXCEPT ![i].pc = "run"]
    /\ UNCHANGED <<proc, client, sessions, tokens, starts, signalled, refused>>

\* A closed pool gives every waiting and every later statement an error.
AcquireFails(i) ==
    /\ request[i].pc = "acquire"
    /\ PoolClosed(request[i].proc)
    /\ Continue(i, FALSE)
    /\ UNCHANGED <<proc, client, conns, sessions, starts, signalled, refused>>

\* Mutated form of Release: a failed statement keeps its connection.
ReleaseOnSuccess(p, reported) ==
    conns' = IF reported THEN [conns EXCEPT ![p] = @ - 1] ELSE conns

\* The connection goes back to the pool with the result of the statement.
Release(p, reported) == conns' = [conns EXCEPT ![p] = @ - 1]

RunStatement(i) ==
    /\ request[i].pc = "run"
    /\ \E outcome \in Outcomes :
         /\ sessions' = IF Applied(outcome) /\ ErrorChecked(i)
                        THEN sessions \cup {i} ELSE sessions
         /\ Continue(i, Reported(outcome))
         /\ Release(request[i].proc, Reported(outcome))
    /\ UNCHANGED <<proc, client, starts, signalled, refused>>

-----------------------------------------------------------------------------
(* Stopping.                                                               *)

Signal(p) ==
    /\ proc[p].pc # "down" /\ p \notin signalled
    /\ signalled' = signalled \cup {p}
    /\ UNCHANGED <<proc, client, pools, starts, refused>>

\* srv.Shutdown closes the listener, and ListenAndServe returns.
StopListening(p) ==
    /\ proc[p].pc = "serving" /\ p \in signalled
    /\ Goto(p, "stopping")
    /\ UNCHANGED <<client, pools, starts, signalled, refused>>

\* The deferred Close of main: from here on the pool gives out nothing.
Close(p) ==
    /\ proc[p].pc = "stopping"
    /\ Goto(p, "closing")
    /\ UNCHANGED <<client, pools, starts, signalled, refused>>

\* The process is gone, and with it the requests it had.
End(p) ==
    /\ proc' = [proc EXCEPT ![p] = Down]
    /\ request' = [i \in Requests |->
                     IF Open(i) /\ request[i].proc = p
                     THEN [request[i] EXCEPT !.pc = "cut"] ELSE request[i]]
    /\ conns' = [conns EXCEPT ![p] = 0]

\* Close waits for the connections in use and for nothing else.
Exit(p) ==
    /\ proc[p].pc = "closing" /\ conns[p] = 0
    /\ End(p)
    /\ UNCHANGED <<client, sessions, tokens, starts, signalled, refused>>

Crash(p) ==
    /\ "crash" \in Faults
    /\ proc[p].pc # "down"
    /\ End(p)
    /\ UNCHANGED <<client, sessions, tokens, starts, signalled, refused>>

-----------------------------------------------------------------------------
StartStep(p) ==
    Connect(p) \/ LookupClient(p) \/ ensureDefaultOAuthClient(p) \/ Interrupted(p)
StopStep(p) == StopListening(p) \/ Close(p) \/ Exit(p)
HandlerStep(i) == AcquireFails(i) \/ RunStatement(i)

Next ==
    \/ \E p \in Procs, env \in Environments : Start(p, env)
    \/ \E p \in Procs : StartStep(p) \/ Signal(p) \/ StopStep(p) \/ Crash(p)
    \/ \E i \in Requests, p \in Procs, kind \in Kinds : Accept(i, p, kind)
    \/ \E i \in Requests : Acquire(i) \/ HandlerStep(i)

Spec == Init /\ [][Next]_vars

\* Goroutines run and statements return.  A connection may be taken by others
\* again and again, but the pool serves its waiters in order: strong fairness.
FairSpec ==
    /\ Spec
    /\ \A p \in Procs : WF_vars(StartStep(p)) /\ WF_vars(StopStep(p))
    /\ \A i \in Requests : SF_vars(Acquire(i)) /\ WF_vars(HandlerStep(i))

-----------------------------------------------------------------------------
(* Properties.                                                             *)

TypeOK ==
    /\ proc \in [Procs -> ProcState]
    /\ client \in BOOLEAN
    /\ conns \in [Procs -> 0 .. PoolSize]
    /\ request \in [Requests -> RequestState]
    /\ sessions \subseteq Requests
    /\ \A token \in tokens : token.key \in Key
    /\ starts \in 0 .. MaxStarts
    /\ signalled \subseteq Procs /\ refused \subseteq Procs

\* A process serves only when the default client is there, whoever of several
\* processes created it and whatever their lookups returned.
ServingHasClient == \A p \in Procs : Started(p) => client

\* A start with a valid configuration is given up only for a failed statement
\* or a signal, never because another process created the client meanwhile.
RivalsDoNotStopAStart == refused = {}

\* With a configured key a token outlives the process that signed it: every
\* process that serves with that key accepts it, and publishes the key that
\* verifies it.
TokensOutliveProcesses ==
    \A token \in tokens, p \in Procs :
        Started(p) /\ token.cfg.pem = "rsa" /\ proc[p].cfg.pem = "rsa" =>
            /\ parseAccessClaims(p, token)
            /\ GetOAuth2Jwks(p) = token.key

\* What a sign-in sends is valid for the least lifetimes the configuration
\* allows, provided that the lifetimes fit a Duration.
TokensAreBornAlive ==
    \A token \in tokens :
        /\ token.cfg.access * Second < Half => token.access >= MinAccess * Second
        /\ token.cfg.refresh * Hour < Half => token.refresh >= MinRefresh * Hour

\* A sign-in answered with a session has stored it, also when its process was
\* being shut down and closed the pool under it.
AnsweredSignInIsStored ==
    \A i \in Requests :
        request[i].pc = "ok" /\ request[i].kind = "sign_in" => i \in sessions

\* A process that got a signal ends, although it waits for the connections in
\* use and its handlers go on asking for more.
EveryStopEnds == \A p \in Procs : p \in signalled ~> proc[p].pc = "down"

\* A request that was accepted is answered or cut off, however few connections
\* there are.
EveryRequestEnds == \A i \in Requests : Open(i) ~> ~ Open(i)
=============================================================================
