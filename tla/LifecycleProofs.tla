-------------------------- MODULE LifecycleProofs --------------------------
(***************************************************************************)
(* Theorems about Lifecycle, for any number of processes, starts, requests *)
(* and connections, any configurations and whatever faults there are.      *)
(***************************************************************************)
EXTENDS Lifecycle, FiniteSetTheorems, TLAPS

USE LifecycleAssumption, NullAssumption

-----------------------------------------------------------------------------
(* The inductive invariant.                                                *)

\* What a process record promises: past its start it has an accepted
\* configuration, past Connect a key, and a configured key is that key.
Ready(q) ==
    /\ q.pc # "down" => q.cfg \in Environment
    /\ q.pc \notin {"down", "connect"} =>
         q.key \in Key /\ (q.cfg.pem = "rsa" => q.key = Configured)

\* Processes keep that promise, and tokens were signed by such processes.
Keyed ==
    /\ \A p \in Procs : Ready(proc[p])
    /\ \A token \in tokens :
         token.key \in Key /\ (token.cfg.pem = "rsa" => token.key = Configured)

\* A request that is being handled is handled by a process that runs, and has
\* statements left.
Handled ==
    \A i \in Requests : Open(i) =>
        /\ request[i].proc \in Procs /\ Started(request[i].proc)
        /\ request[i].left \in 1 .. 2

\* The requests that hold a connection of a process.
Holders(p) == {i \in Requests : request[i].pc = "run" /\ request[i].proc = p}

\* Connections are neither lost nor counted twice.
Counted == \A p \in Procs : conns[p] = Cardinality(Holders(p))

IInv ==
    /\ TypeOK /\ Keyed /\ Handled /\ Counted
    /\ ServingHasClient /\ AnsweredSignInIsStored

-----------------------------------------------------------------------------
(* Operators.                                                              *)

\* A process goes on only with a configuration that was accepted.
LEMMA LoadConfigType ==
    ASSUME NEW env \in Environments, LoadConfig(env) # NULL
    PROVE  LoadConfig(env) \in Environment
  <1> DEFINE cfg == [env EXCEPT !.access = envOrInt(@, DefaultAccess),
                                !.refresh = envOrInt(@, DefaultRefresh)]
  <1>1. env \in Environment
    OBVIOUS
  <1>2. DefaultAccess \in Int /\ DefaultRefresh \in Int
    OBVIOUS
  <1>3. envOrInt(env.access, DefaultAccess) \in Int
    BY <1>1, <1>2 DEF envOrInt, Environment
  <1>4. envOrInt(env.refresh, DefaultRefresh) \in Int
    BY <1>1, <1>2 DEF envOrInt, Environment
  <1>5. cfg \in Environment
    BY <1>1, <1>3, <1>4 DEF Environment
  <1>6. LoadConfig(env) = cfg
    BY DEF LoadConfig
  <1> QED BY <1>5, <1>6

\* A configured key is loaded as it is.
LEMMA KeyType ==
    ASSUME NEW cfg \in Environment, NEW nth \in 0 .. MaxStarts,
           LoadOrCreatePrivateKey(cfg, nth) # NULL
    PROVE  /\ LoadOrCreatePrivateKey(cfg, nth) \in Key
           /\ cfg.pem = "rsa" => LoadOrCreatePrivateKey(cfg, nth) = Configured
BY DEF LoadOrCreatePrivateKey, Environment, Pem, Key, Configured

\* A statement that is reported done has been done.
LEMMA ReportedIsApplied ==
    ASSUME NEW outcome \in Outcomes, Reported(outcome)
    PROVE  Applied(outcome)
BY DEF Outcomes, Reported, Applied

\* No more connections are counted than there are requests that hold one.
LEMMA HoldersFinite ==
    ASSUME NEW p \in Procs
    PROVE  IsFiniteSet(Holders(p)) /\ Cardinality(Holders(p)) \in Nat
  <1>1. Holders(p) \subseteq Requests
    BY DEF Holders
  <1> QED BY <1>1, FS_Subset, FS_CardinalityType

-----------------------------------------------------------------------------
(* Steps of a process that leave its pool alone.                           *)

\* A process may go from one record to another as long as it keeps its
\* promises, serves only with the client and abandons no request.
LEMMA MoveKeeps ==
    ASSUME IInv, NEW p \in Procs, NEW q \in ProcState,
           proc' = [proc EXCEPT ![p] = q], Ready(q),
           Started(p) => q.pc \in {"serving", "stopping", "closing"},
           q.pc \in {"serving", "stopping", "closing"} => client',
           client => client', client' \in BOOLEAN,
           starts' \in 0 .. MaxStarts,
           signalled' \subseteq Procs, refused' \subseteq Procs,
           UNCHANGED pools
    PROVE  IInv'
  <1>1. TypeOK'
    BY DEF IInv, TypeOK, pools
  <1>2. \A r \in Procs : proc'[r] = IF r = p THEN q ELSE proc[r]
    BY DEF IInv, TypeOK
  <1>3. Keyed'
    BY <1>2 DEF IInv, Keyed, Ready, pools
  <1>4. \A r \in Procs : Started(r) => Started(r)'
    BY <1>2 DEF Started
  <1>5. Handled'
    BY <1>4 DEF IInv, Handled, Open, pools
  <1>6. Counted'
    BY DEF IInv, Counted, Holders, pools
  <1>7. ServingHasClient'
    BY <1>2 DEF IInv, ServingHasClient, Started
  <1>8. AnsweredSignInIsStored'
    BY DEF IInv, AnsweredSignInIsStored, pools
  <1> QED BY <1>1, <1>3, <1>5, <1>6, <1>7, <1>8 DEF IInv

\* Giving a start up leaves no request behind, since a starting process has none.
LEMMA RefuseKeeps ==
    ASSUME IInv, NEW p \in Procs, NEW excuse \in BOOLEAN, Refuse(p, excuse),
           Starting(p), client => client', client' \in BOOLEAN,
           UNCHANGED <<pools, starts, signalled>>
    PROVE  IInv'
  <1>1. Down \in ProcState /\ Ready(Down)
    BY DEF Down, ProcState, Ready
  <1>2. proc' = [proc EXCEPT ![p] = Down] /\ refused' \subseteq Procs
    BY DEF Refuse, IInv, TypeOK
  <1>3. ~ Started(p)
    BY DEF Starting, Started
  <1>4. Down.pc = "down"
    BY DEF Down
  <1> QED BY <1>1, <1>2, <1>3, <1>4, MoveKeeps DEF IInv, TypeOK

\* Going on from one point of the start or the end to the next.
LEMMA GotoKeeps ==
    ASSUME IInv, NEW p \in Procs, NEW pc, Goto(p, pc),
           pc \in {"lookup", "create", "serving", "stopping", "closing"},
           proc[p].pc \notin {"down", "connect"},
           Started(p) => pc \in {"serving", "stopping", "closing"},
           pc \in {"serving", "stopping", "closing"} => client',
           client => client', client' \in BOOLEAN,
           UNCHANGED <<pools, starts, signalled, refused>>
    PROVE  IInv'
  <1> DEFINE q == [proc[p] EXCEPT !.pc = pc]
  <1>1. proc[p] \in ProcState /\ Ready(proc[p])
    BY DEF IInv, TypeOK, Keyed
  <1>2. q \in ProcState
    BY <1>1 DEF ProcState
  <1>3. q.pc = pc /\ q.cfg = proc[p].cfg /\ q.key = proc[p].key
    BY <1>1 DEF ProcState
  <1>4. Ready(q)
    BY <1>1, <1>3 DEF Ready
  <1>5. proc' = [proc EXCEPT ![p] = q]
    BY DEF Goto
  <1> HIDE DEF q
  <1> QED BY <1>2, <1>3, <1>4, <1>5, MoveKeeps DEF IInv, TypeOK

\* A process starts with a configuration that was accepted.
LEMMA StartKeeps ==
    ASSUME IInv, NEW p \in Procs, NEW env \in Environments, Start(p, env)
    PROVE  IInv'
  <1> DEFINE q == [pc |-> "connect", nth |-> starts + 1, cfg |-> LoadConfig(env),
                   key |-> NULL]
  <1>1. LoadConfig(env) \in Environment
    BY LoadConfigType DEF Start
  <1>2. starts + 1 \in 0 .. MaxStarts
    BY DEF Start, IInv, TypeOK
  <1>3. q \in ProcState /\ Ready(q) /\ q.pc = "connect"
    BY <1>1, <1>2 DEF ProcState, Ready
  <1>4. proc' = [proc EXCEPT ![p] = q] /\ starts' \in 0 .. MaxStarts /\ ~ Started(p)
    BY <1>2 DEF Start, Started
  <1>5. signalled' \subseteq Procs /\ refused' \subseteq Procs /\ client' = client
    BY DEF Start, IInv, TypeOK
  <1>6. UNCHANGED pools
    BY DEF Start
  <1> HIDE DEF q
  <1> QED BY <1>3, <1>4, <1>5, <1>6, MoveKeeps DEF IInv, TypeOK

\* It goes on with a key, or gives the start up.
LEMMA ConnectKeeps ==
    ASSUME IInv, NEW p \in Procs, Connect(p)
    PROVE  IInv'
  <1> DEFINE key == LoadOrCreatePrivateKey(proc[p].cfg, proc[p].nth)
             q == [proc[p] EXCEPT !.pc = "lookup", !.key = key]
  <1>1. proc[p] \in ProcState /\ proc[p].cfg \in Environment /\ proc[p].pc = "connect"
    BY DEF Connect, IInv, TypeOK, Keyed, Ready
  <1>2. CASE Refuse(p, TRUE)
    <2>1. Starting(p) /\ UNCHANGED <<pools, starts, signalled>> /\ client' = client
      BY DEF Connect, Starting
    <2> QED BY <1>2, <2>1, RefuseKeeps DEF IInv, TypeOK
  <1>3. CASE key # NULL /\ proc' = [proc EXCEPT ![p] = q] /\ UNCHANGED refused
    <2>1. key \in Key /\ (proc[p].cfg.pem = "rsa" => key = Configured)
      BY <1>1, <1>3, KeyType DEF ProcState
    <2> HIDE DEF key
    <2>2. q \in ProcState
      BY <1>1, <2>1 DEF ProcState
    <2>3. q.pc = "lookup" /\ q.cfg = proc[p].cfg /\ q.key = key
      BY <1>1 DEF ProcState
    <2>4. Ready(q)
      BY <1>1, <2>1, <2>3 DEF Ready
    <2>5. UNCHANGED <<client, pools, starts, signalled>> /\ ~ Started(p)
      BY <1>1 DEF Connect, Started
    <2>6. proc' = [proc EXCEPT ![p] = q] /\ UNCHANGED refused
      BY <1>3
    <2> HIDE DEF q
    <2> QED BY <2>2, <2>3, <2>4, <2>5, <2>6, MoveKeeps DEF IInv, TypeOK
  <1> QED BY <1>2, <1>3 DEF Connect

\* It serves without creating the client only when it found one.
LEMMA LookupClientKeeps ==
    ASSUME IInv, NEW p \in Procs, LookupClient(p)
    PROVE  IInv'
  <1>1. PICK lookup \in Lookups :
          Goto(p, IF ClientFound(lookup) THEN "serving" ELSE "create")
    BY DEF LookupClient
  <1>2. ClientFound(lookup) => client
    BY DEF ClientFound
  <1>3. proc[p].pc = "lookup" /\ UNCHANGED <<client, pools, starts, signalled, refused>>
    BY DEF LookupClient
  <1>4. ~ Started(p)
    BY <1>3 DEF Started
  <1>5. CASE ClientFound(lookup)
    BY <1>1, <1>2, <1>3, <1>4, <1>5, GotoKeeps DEF IInv, TypeOK
  <1>6. CASE ~ ClientFound(lookup)
    BY <1>1, <1>3, <1>4, <1>6, GotoKeeps DEF IInv, TypeOK
  <1> QED BY <1>5, <1>6

\* Whoever created the client, a start that goes on leaves it in the table.
LEMMA CreateKeeps ==
    ASSUME IInv, NEW p \in Procs, ensureDefaultOAuthClient(p)
    PROVE  IInv'
  <1>1. PICK outcome \in Outcomes :
          /\ client' = (client \/ Applied(outcome))
          /\ IF isTolerated(CreateOAuthClient(outcome))
             THEN Goto(p, "serving") /\ UNCHANGED refused
             ELSE Refuse(p, ~ Reported(outcome))
    BY DEF ensureDefaultOAuthClient
  <1>2. proc[p].pc = "create" /\ UNCHANGED <<pools, starts, signalled>>
    BY DEF ensureDefaultOAuthClient
  <1>3. client' \in BOOLEAN /\ (client => client') /\ ~ Started(p) /\ Starting(p)
    BY <1>1, <1>2 DEF Started, Starting, Applied, IInv, TypeOK
  <1>4. CASE isTolerated(CreateOAuthClient(outcome))
    <2>1. Reported(outcome)
      BY <1>4 DEF isTolerated, CreateOAuthClient
    <2>2. client'
      BY <1>1, <2>1, ReportedIsApplied
    <2> QED BY <1>1, <1>2, <1>3, <1>4, <2>2, GotoKeeps
  <1>5. CASE ~ isTolerated(CreateOAuthClient(outcome))
    <2>1. Refuse(p, ~ Reported(outcome)) /\ (~ Reported(outcome)) \in BOOLEAN
      BY <1>1, <1>5
    <2> QED BY <1>2, <1>3, <2>1, RefuseKeeps
  <1> QED BY <1>4, <1>5

\* A signal during the start ends it.
LEMMA InterruptedKeeps ==
    ASSUME IInv, NEW p \in Procs, Interrupted(p)
    PROVE  IInv'
  <1>1. Starting(p) /\ Refuse(p, TRUE) /\ UNCHANGED <<client, pools, starts, signalled>>
    BY DEF Interrupted
  <1> QED BY <1>1, RefuseKeeps DEF IInv, TypeOK

\* A signal is only noted.
LEMMA SignalKeeps ==
    ASSUME IInv, NEW p \in Procs, Signal(p)
    PROVE  IInv'
  <1>1. UNCHANGED <<proc, client, pools, starts, refused>>
        /\ signalled' = signalled \cup {p}
    BY DEF Signal
  <1>2. proc[p] \in ProcState /\ Ready(proc[p]) /\ proc' = [proc EXCEPT ![p] = proc[p]]
    BY <1>1 DEF IInv, TypeOK, Keyed
  <1>3. Started(p) <=> proc[p].pc \in {"serving", "stopping", "closing"}
    BY DEF Started
  <1>4. Started(p) => client'
    BY <1>1 DEF IInv, ServingHasClient
  <1> QED BY <1>1, <1>2, <1>3, <1>4, MoveKeeps DEF IInv, TypeOK

\* Closing the listener and the pool takes nothing from the handlers.
LEMMA StopKeeps ==
    ASSUME IInv, NEW p \in Procs, StopListening(p) \/ Close(p)
    PROVE  IInv'
  <1>1. client /\ Started(p) /\ proc[p].pc \notin {"down", "connect"}
    BY DEF IInv, ServingHasClient, StopListening, Close, Started
  <1>2. UNCHANGED <<client, pools, starts, signalled, refused>>
    BY DEF StopListening, Close
  <1>3. Goto(p, "stopping") \/ Goto(p, "closing")
    BY DEF StopListening, Close
  <1> QED BY <1>1, <1>2, <1>3, GotoKeeps DEF IInv, TypeOK

\* With a process end its requests and the connections they hold.
LEMMA EndKeeps ==
    ASSUME IInv, NEW p \in Procs, End(p),
           UNCHANGED <<client, sessions, tokens, starts, signalled, refused>>
    PROVE  IInv'
  <1>1. \A i \in Requests :
          request'[i] = IF Open(i) /\ request[i].proc = p
                        THEN [request[i] EXCEPT !.pc = "cut"] ELSE request[i]
    BY DEF End
  <1>2. \A i \in Requests : request[i] \in RequestState
    BY DEF IInv, TypeOK
  <1>3. \A q \in RequestState : [q EXCEPT !.pc = "cut"] \in RequestState
    BY DEF RequestState
  <1>4. request' \in [Requests -> RequestState]
    BY <1>2, <1>3 DEF End
  <1>5. \A r \in Procs : proc'[r] = IF r = p THEN Down ELSE proc[r]
    BY DEF End, IInv, TypeOK
  <1>6. Down \in ProcState /\ Ready(Down) /\ Down.pc = "down"
    BY DEF Down, ProcState, Ready
  <1>7. TypeOK'
    BY <1>4, <1>5, <1>6 DEF End, IInv, TypeOK
  <1>8. Keyed'
    BY <1>5, <1>6 DEF IInv, Keyed
  <1>9. \A i \in Requests : Open(i)' =>
          Open(i) /\ request'[i] = request[i] /\ request[i].proc # p
    BY <1>1, <1>2 DEF Open, RequestState
  <1>10. Handled'
    BY <1>5, <1>9 DEF IInv, Handled, Started
  <1>11. Counted'
    <2> SUFFICES ASSUME NEW r \in Procs PROVE conns'[r] = Cardinality(Holders(r)')
      BY DEF Counted
    <2>1. CASE r = p
      <3>1. Holders(r)' = {}
        BY <1>9, <2>1 DEF Holders, Open
      <3>2. conns'[r] = 0
        BY <2>1 DEF End, IInv, TypeOK
      <3> QED BY <3>1, <3>2, FS_EmptySet
    <2>2. CASE r # p
      <3>1. \A i \in Requests : request[i].proc = r => request'[i] = request[i]
        BY <1>1, <2>2
      <3>2. \A i \in Requests : request'[i].proc = r => request'[i] = request[i]
        BY <1>1, <1>2, <2>2 DEF RequestState
      <3>3. Holders(r)' = Holders(r)
        BY <3>1, <3>2 DEF Holders
      <3>4. conns'[r] = conns[r]
        BY <2>2 DEF End, IInv, TypeOK
      <3> QED BY <3>3, <3>4 DEF IInv, Counted
    <2> QED BY <2>1, <2>2
  <1>12. ServingHasClient'
    BY <1>5, <1>6 DEF IInv, ServingHasClient, Started
  <1>13. AnsweredSignInIsStored'
    <2>1. \A q \in RequestState : [q EXCEPT !.pc = "cut"].pc # "ok"
      BY DEF RequestState
    <2>2. \A i \in Requests : request'[i].pc = "ok" => request'[i] = request[i]
      BY <1>1, <1>2, <2>1
    <2> QED BY <2>2 DEF IInv, AnsweredSignInIsStored
  <1> QED BY <1>7, <1>8, <1>10, <1>11, <1>12, <1>13 DEF IInv

-----------------------------------------------------------------------------
(* Steps of a request.                                                     *)

\* A process that serves takes a request on.
LEMMA AcceptKeeps ==
    ASSUME IInv, NEW i \in Requests, NEW p \in Procs, NEW kind \in Kinds,
           Accept(i, p, kind)
    PROVE  IInv'
  <1> DEFINE q == [pc |-> "acquire", proc |-> p, kind |-> kind, left |-> 2]
  <1>1. q \in RequestState /\ q.pc = "acquire" /\ q.proc = p /\ q.left = 2
    BY DEF RequestState
  <1>2. \A j \in Requests : request'[j] = IF j = i THEN q ELSE request[j]
    BY DEF Accept, IInv, TypeOK
  <1>3. request[i].pc = "unsent" /\ Started(p)
        /\ UNCHANGED <<proc, client, conns, sessions, tokens, starts, signalled, refused>>
    BY DEF Accept, Started
  <1>4. request' \in [Requests -> RequestState]
    BY <1>1 DEF Accept, IInv, TypeOK
  <1> HIDE DEF q
  <1>5. TypeOK'
    BY <1>3, <1>4 DEF IInv, TypeOK
  <1>6. Keyed' /\ ServingHasClient'
    BY <1>3 DEF IInv, Keyed, ServingHasClient, Started
  <1>7. Handled'
    BY <1>1, <1>2, <1>3 DEF IInv, Handled, Open, Started
  <1>8. \A r \in Procs : Holders(r)' = Holders(r)
    BY <1>1, <1>2, <1>3 DEF Holders
  <1>9. Counted'
    BY <1>3, <1>8 DEF IInv, Counted
  <1>10. AnsweredSignInIsStored'
    BY <1>1, <1>2, <1>3 DEF IInv, AnsweredSignInIsStored
  <1> QED BY <1>5, <1>6, <1>7, <1>9, <1>10 DEF IInv

\* A request that gets a connection is one more that holds one.
LEMMA AcquireKeeps ==
    ASSUME IInv, NEW i \in Requests, Acquire(i)
    PROVE  IInv'
  <1> DEFINE p == request[i].proc
  <1>1. request[i] \in RequestState /\ request[i].pc = "acquire"
    BY DEF Acquire, IInv, TypeOK
  <1>2. p \in Procs /\ Started(p) /\ request[i].left \in 1 .. 2
    BY <1>1 DEF IInv, Handled, Open
  <1>3. conns' = [conns EXCEPT ![p] = @ + 1] /\ conns[p] < PoolSize
        /\ UNCHANGED <<proc, client, sessions, tokens, starts, signalled, refused>>
    BY DEF Acquire, Room
  <1>4. \A j \in Requests :
          request'[j] = IF j = i THEN [request[i] EXCEPT !.pc = "run"] ELSE request[j]
    BY DEF Acquire, IInv, TypeOK
  <1>5. [request[i] EXCEPT !.pc = "run"] \in RequestState
    BY <1>1 DEF RequestState
  <1>6. request'[i].pc = "run" /\ request'[i].proc = p /\ request'[i].left = request[i].left
    BY <1>1, <1>4 DEF RequestState
  <1>7. request' \in [Requests -> RequestState]
    BY <1>5 DEF Acquire, IInv, TypeOK
  <1>8. conns' \in [Procs -> 0 .. PoolSize]
    BY <1>2, <1>3 DEF IInv, TypeOK
  <1>9. TypeOK'
    BY <1>3, <1>7, <1>8 DEF IInv, TypeOK
  <1>10. Keyed' /\ ServingHasClient'
    BY <1>3 DEF IInv, Keyed, ServingHasClient, Started
  <1>11. Handled'
    BY <1>2, <1>3, <1>4, <1>6 DEF IInv, Handled, Open, Started
  <1>12. Counted'
    <2> SUFFICES ASSUME NEW r \in Procs PROVE conns'[r] = Cardinality(Holders(r)')
      BY DEF Counted
    <2>1. IsFiniteSet(Holders(r)) /\ conns[r] = Cardinality(Holders(r))
      BY HoldersFinite DEF IInv, Counted
    <2>2. CASE r = p
      <3>1. Holders(r)' = Holders(r) \cup {i} /\ i \notin Holders(r)
        BY <1>1, <1>4, <1>6, <2>2 DEF Holders
      <3>2. conns'[r] = conns[r] + 1
        BY <1>2, <1>3, <2>2 DEF IInv, TypeOK
      <3> QED BY <2>1, <3>1, <3>2, FS_AddElement
    <2>3. CASE r # p
      <3>1. Holders(r)' = Holders(r)
        BY <1>1, <1>4, <1>6, <2>3 DEF Holders
      <3>2. conns'[r] = conns[r]
        BY <1>2, <1>3, <2>3 DEF IInv, TypeOK
      <3> QED BY <2>1, <3>1, <3>2
    <2> QED BY <2>2, <2>3
  <1>13. AnsweredSignInIsStored'
    BY <1>3, <1>4, <1>6 DEF IInv, AnsweredSignInIsStored
  <1> QED BY <1>9, <1>10, <1>11, <1>12, <1>13 DEF IInv

\* After a statement a request asks for its next connection or is answered, and
\* a sign-in is answered only if the INSERT of its session reported no error.
LEMMA ContinueRequest ==
    ASSUME IInv, NEW i \in Requests, NEW reported \in BOOLEAN, Open(i),
           Continue(i, reported)
    PROVE  /\ request' \in [Requests -> RequestState]
           /\ \A j \in Requests : j # i => request'[j] = request[j]
           /\ request'[i].pc \in {"acquire", "ok", "error"}
           /\ request'[i].proc = request[i].proc
           /\ request'[i].kind = request[i].kind
           /\ request'[i].pc = "acquire" => request'[i].left \in 1 .. 2
           /\ request'[i].pc = "ok" /\ request[i].kind = "sign_in" =>
                reported /\ ErrorChecked(i)
  <1> DEFINE pc == IF ~ reported /\ ErrorChecked(i) THEN "error"
                   ELSE IF request[i].left = 1 THEN "ok" ELSE "acquire"
             q == [request[i] EXCEPT !.left = @ - 1, !.pc = pc]
  <1>1. request[i] \in RequestState /\ request[i].left \in 1 .. 2
    BY DEF IInv, TypeOK, Handled
  <1>2. request' = [request EXCEPT ![i] = q]
    BY DEF Continue
  <1>3. pc \in {"acquire", "ok", "error"} /\ request[i].left - 1 \in 0 .. 2
    BY <1>1
  <1>4. pc = "acquire" => request[i].left = 2
    BY <1>1
  <1>5. pc = "ok" /\ request[i].kind = "sign_in" => reported /\ ErrorChecked(i)
    BY <1>1 DEF ErrorChecked
  <1> HIDE DEF pc
  <1>6. q \in RequestState
    BY <1>1, <1>3 DEF RequestState
  <1>7. q.pc = pc /\ q.left = request[i].left - 1 /\ q.proc = request[i].proc
        /\ q.kind = request[i].kind
    BY <1>1 DEF RequestState
  <1> HIDE DEF q
  <1>8. request'[i] = q /\ (\A j \in Requests : j # i => request'[j] = request[j])
    BY <1>2 DEF IInv, TypeOK
  <1>9. request' \in [Requests -> RequestState]
    BY <1>2, <1>6 DEF IInv, TypeOK
  <1> QED BY <1>1, <1>3, <1>4, <1>5, <1>7, <1>8, <1>9

\* A token is signed with the key of a process that has loaded one.
LEMMA ContinueTokens ==
    ASSUME IInv, NEW i \in Requests, NEW reported \in BOOLEAN, Open(i),
           Continue(i, reported)
    PROVE  \A token \in tokens' :
             token.key \in Key /\ (token.cfg.pem = "rsa" => token.key = Configured)
  <1> DEFINE p == request[i].proc
  <1>1. p \in Procs /\ Started(p) /\ Ready(proc[p])
    BY DEF IInv, Handled, Keyed
  <1>2. proc[p].key \in Key /\ (proc[p].cfg.pem = "rsa" => proc[p].key = Configured)
    BY <1>1 DEF Ready, Started
  <1>3. issueJWT(p).key = proc[p].key /\ issueJWT(p).cfg = proc[p].cfg
    BY DEF issueJWT
  <1>4. tokens' \subseteq tokens \cup {issueJWT(p)}
    BY DEF Continue
  <1> QED BY <1>2, <1>3, <1>4 DEF IInv, Keyed

\* A statement that got no connection fails, and leaves the others theirs.
LEMMA AcquireFailsKeeps ==
    ASSUME IInv, NEW i \in Requests, AcquireFails(i)
    PROVE  IInv'
  <1>1. Open(i) /\ request[i].pc = "acquire" /\ Continue(i, FALSE)
        /\ UNCHANGED <<proc, client, conns, sessions, starts, signalled, refused>>
    BY DEF AcquireFails, Open
  <1>2. /\ request' \in [Requests -> RequestState]
        /\ \A j \in Requests : j # i => request'[j] = request[j]
        /\ request'[i].pc \in {"acquire", "ok", "error"}
        /\ request'[i].proc = request[i].proc
        /\ request'[i].kind = request[i].kind
        /\ request'[i].pc = "acquire" => request'[i].left \in 1 .. 2
        /\ ~ (request'[i].pc = "ok" /\ request[i].kind = "sign_in")
    BY <1>1, ContinueRequest
  <1>3. \A token \in tokens' :
          token.key \in Key /\ (token.cfg.pem = "rsa" => token.key = Configured)
    BY <1>1, ContinueTokens
  <1>4. TypeOK'
    BY <1>1, <1>2, <1>3 DEF IInv, TypeOK
  <1>5. Keyed' /\ ServingHasClient'
    BY <1>1, <1>3 DEF IInv, Keyed, ServingHasClient, Started
  <1>6. Handled'
    BY <1>1, <1>2 DEF IInv, Handled, Open, Started
  <1>7. \A r \in Procs : Holders(r)' = Holders(r)
    BY <1>1, <1>2 DEF Holders
  <1>8. Counted'
    BY <1>1, <1>7 DEF IInv, Counted
  <1>9. AnsweredSignInIsStored'
    BY <1>1, <1>2 DEF IInv, AnsweredSignInIsStored
  <1> QED BY <1>4, <1>5, <1>6, <1>8, <1>9 DEF IInv

\* A statement gives its connection back, and a sign-in that reports success
\* has stored its session.
LEMMA RunStatementKeeps ==
    ASSUME IInv, NEW i \in Requests, RunStatement(i)
    PROVE  IInv'
  <1> DEFINE p == request[i].proc
  <1>1. PICK outcome \in Outcomes :
          /\ sessions' = IF Applied(outcome) /\ ErrorChecked(i)
                         THEN sessions \cup {i} ELSE sessions
          /\ Continue(i, Reported(outcome))
          /\ Release(request[i].proc, Reported(outcome))
    BY DEF RunStatement
  <1>2. Open(i) /\ request[i].pc = "run"
        /\ UNCHANGED <<proc, client, starts, signalled, refused>>
    BY DEF RunStatement, Open
  <1>3. Reported(outcome) \in BOOLEAN
    BY DEF Reported
  <1>4. /\ request' \in [Requests -> RequestState]
        /\ \A j \in Requests : j # i => request'[j] = request[j]
        /\ request'[i].pc \in {"acquire", "ok", "error"}
        /\ request'[i].proc = request[i].proc
        /\ request'[i].kind = request[i].kind
        /\ request'[i].pc = "acquire" => request'[i].left \in 1 .. 2
        /\ request'[i].pc = "ok" /\ request[i].kind = "sign_in" =>
             Reported(outcome) /\ ErrorChecked(i)
    BY <1>1, <1>2, <1>3, ContinueRequest
  <1>5. \A token \in tokens' :
          token.key \in Key /\ (token.cfg.pem = "rsa" => token.key = Configured)
    BY <1>1, <1>2, <1>3, ContinueTokens
  <1>6. p \in Procs /\ Started(p)
    BY <1>2 DEF IInv, Handled
  <1>7. i \in Holders(p) /\ IsFiniteSet(Holders(p))
    BY <1>2, <1>6, HoldersFinite DEF Holders
  <1>8. /\ conns[p] \in 1 .. PoolSize
        /\ conns[p] - 1 = Cardinality(Holders(p) \ {i})
    <2>1. conns[p] = Cardinality(Holders(p)) /\ conns[p] \in 0 .. PoolSize
      BY <1>6 DEF IInv, TypeOK, Counted
    <2>2. Cardinality(Holders(p) \ {i}) = Cardinality(Holders(p)) - 1
          /\ Cardinality(Holders(p) \ {i}) \in Nat
      BY <1>7, FS_RemoveElement, FS_CardinalityType
    <2> QED BY <2>1, <2>2
  <1>9. conns' = [conns EXCEPT ![p] = conns[p] - 1]
    BY <1>1 DEF Release
  <1>10. conns' \in [Procs -> 0 .. PoolSize]
    <2>1. conns[p] - 1 \in 0 .. PoolSize
      BY <1>8
    <2> QED BY <1>9, <2>1 DEF IInv, TypeOK
  <1>11. sessions \subseteq sessions' /\ sessions' \subseteq Requests
    BY <1>1 DEF IInv, TypeOK
  <1>12. TypeOK'
    BY <1>2, <1>4, <1>5, <1>10, <1>11 DEF IInv, TypeOK
  <1>13. Keyed' /\ ServingHasClient'
    BY <1>2, <1>5 DEF IInv, Keyed, ServingHasClient, Started
  <1>14. Handled'
    BY <1>2, <1>4, <1>6 DEF IInv, Handled, Open, Started
  <1>15. Counted'
    <2> SUFFICES ASSUME NEW r \in Procs PROVE conns'[r] = Cardinality(Holders(r)')
      BY DEF Counted
    <2>1. CASE r = p
      <3>1. Holders(r)' = Holders(p) \ {i}
        BY <1>4, <2>1 DEF Holders
      <3>2. conns'[r] = conns[p] - 1
        BY <1>6, <1>9, <2>1 DEF IInv, TypeOK
      <3> QED BY <1>8, <3>1, <3>2
    <2>2. CASE r # p
      <3>1. Holders(r)' = Holders(r)
        BY <1>4, <2>2 DEF Holders
      <3>2. conns'[r] = conns[r]
        BY <1>6, <1>9, <2>2 DEF IInv, TypeOK
      <3> QED BY <3>1, <3>2 DEF IInv, Counted
    <2> QED BY <2>1, <2>2
  <1>16. AnsweredSignInIsStored'
    <2>1. Reported(outcome) /\ ErrorChecked(i) => i \in sessions'
      BY <1>1, ReportedIsApplied
    <2> QED BY <1>4, <1>11, <2>1 DEF IInv, AnsweredSignInIsStored
  <1> QED BY <1>12, <1>13, <1>14, <1>15, <1>16 DEF IInv

-----------------------------------------------------------------------------
(* The theorems.                                                           *)

\* Nothing runs at the start.
LEMMA InitIInv == Init => IInv
  <1> SUFFICES ASSUME Init PROVE IInv
    OBVIOUS
  <1>1. Down \in ProcState /\ Ready(Down) /\ Down.pc = "down"
    BY DEF Down, ProcState, Ready
  <1>2. Unsent \in RequestState /\ Unsent.pc = "unsent"
    BY DEF Unsent, RequestState
  <1>3. TypeOK
    BY <1>1, <1>2 DEF Init, TypeOK
  <1>4. Keyed /\ ServingHasClient
    BY <1>1 DEF Init, Keyed, ServingHasClient, Started
  <1>5. Handled /\ AnsweredSignInIsStored
    BY <1>2 DEF Init, Handled, AnsweredSignInIsStored, Open
  <1>6. \A p \in Procs : Holders(p) = {}
    BY <1>2 DEF Init, Holders
  <1>7. Counted
    BY <1>6, FS_EmptySet DEF Init, Counted
  <1> QED BY <1>3, <1>4, <1>5, <1>7 DEF IInv

\* Every step keeps the invariant.
LEMMA NextIInv == IInv /\ [Next]_vars => IInv'
  <1> SUFFICES ASSUME IInv, [Next]_vars PROVE IInv'
    OBVIOUS
  <1>1. CASE \E p \in Procs, env \in Environments : Start(p, env)
    BY <1>1, StartKeeps
  <1>2. CASE \E p \in Procs : StartStep(p)
    BY <1>2, ConnectKeeps, LookupClientKeeps, CreateKeeps, InterruptedKeeps DEF StartStep
  <1>3. CASE \E p \in Procs : Signal(p)
    BY <1>3, SignalKeeps
  <1>4. CASE \E p \in Procs : StopListening(p) \/ Close(p)
    BY <1>4, StopKeeps
  <1>5. CASE \E p \in Procs : Exit(p) \/ Crash(p)
    BY <1>5, EndKeeps DEF Exit, Crash
  <1>6. CASE \E i \in Requests, p \in Procs, kind \in Kinds : Accept(i, p, kind)
    BY <1>6, AcceptKeeps
  <1>7. CASE \E i \in Requests : Acquire(i)
    BY <1>7, AcquireKeeps
  <1>8. CASE \E i \in Requests : AcquireFails(i)
    BY <1>8, AcquireFailsKeeps
  <1>9. CASE \E i \in Requests : RunStatement(i)
    BY <1>9, RunStatementKeeps
  <1>10. CASE UNCHANGED vars
    <2>1. UNCHANGED <<proc, client, conns, request, sessions, tokens, starts, signalled, refused>>
      BY <1>10 DEF vars, pools
    <2>2. TypeOK' /\ Keyed' /\ ServingHasClient'
      BY <2>1 DEF IInv, TypeOK, Keyed, ServingHasClient, Started
    <2>3. Handled' /\ Counted' /\ AnsweredSignInIsStored'
      BY <2>1 DEF IInv, Handled, Open, Started, Counted, Holders, AnsweredSignInIsStored
    <2> QED BY <2>2, <2>3 DEF IInv
  <1> QED BY <1>1, <1>2, <1>3, <1>4, <1>5, <1>6, <1>7, <1>8, <1>9, <1>10
          DEF Next, StopStep, HandlerStep

\* The inductive invariant of every run of the processes.
THEOREM ProcessInvariant == Spec => []IInv
  BY InitIInv, NextIInv, PTL DEF Spec

\* Every variable keeps its type; for the pool this says that no more than its
\* connections are given out and none is given back twice.
THEOREM PoolsStayInBounds == Spec => []TypeOK
  <1>1. IInv => TypeOK
    BY DEF IInv
  <1> QED BY <1>1, ProcessInvariant, PTL

\* No process serves without the default client, however many start at once.
THEOREM ClientBeforeService == Spec => []ServingHasClient
  <1>1. IInv => ServingHasClient
    BY DEF IInv
  <1> QED BY <1>1, ProcessInvariant, PTL

\* A sign-in that was answered stored its session, whatever statements failed
\* and also if its process closed the pool under it.
THEOREM SignInsAreStored == Spec => []AnsweredSignInIsStored
  <1>1. IInv => AnsweredSignInIsStored
    BY DEF IInv
  <1> QED BY <1>1, ProcessInvariant, PTL

\* A token signed with the configured key is accepted by every process that
\* has that key, after any number of restarts.
THEOREM KeyOutlivesProcesses == Spec => []TokensOutliveProcesses
  <1>1. IInv => TokensOutliveProcesses
    <2> SUFFICES ASSUME IInv, NEW token \in tokens, NEW p \in Procs, Started(p),
                        token.cfg.pem = "rsa", proc[p].cfg.pem = "rsa"
                 PROVE  parseAccessClaims(p, token) /\ GetOAuth2Jwks(p) = token.key
      BY DEF TokensOutliveProcesses
    <2>1. token.key = Configured
      BY DEF IInv, Keyed
    <2>2. proc[p].key = Configured
      BY DEF IInv, Keyed, Ready, Started
    <2> QED BY <2>1, <2>2 DEF parseAccessClaims, GetOAuth2Jwks
  <1> QED BY <1>1, ProcessInvariant, PTL

\* No start is given up because a rival created the client first.
THEOREM RivalsAreTolerated == Spec => []RivalsDoNotStopAStart
  <1>1. Init => RivalsDoNotStopAStart
    BY DEF Init, RivalsDoNotStopAStart
  <1>2. ASSUME RivalsDoNotStopAStart, NEW p \in Procs, ensureDefaultOAuthClient(p)
        PROVE  RivalsDoNotStopAStart'
    <2>1. PICK outcome \in Outcomes :
            IF isTolerated(CreateOAuthClient(outcome))
            THEN UNCHANGED refused
            ELSE Refuse(p, ~ Reported(outcome))
      BY <1>2 DEF ensureDefaultOAuthClient
    <2>2. Reported(outcome) => isTolerated(CreateOAuthClient(outcome))
      <3>1. CASE client
        BY <3>1 DEF isTolerated, CreateOAuthClient
      <3>2. CASE ~ client
        BY <3>2 DEF isTolerated, CreateOAuthClient
      <3> QED BY <3>1, <3>2
    <2> QED BY <1>2, <2>1, <2>2 DEF Refuse, RivalsDoNotStopAStart
  <1>3. RivalsDoNotStopAStart /\ [Next]_vars => RivalsDoNotStopAStart'
    BY <1>2
    DEF Next, vars, StartStep, StopStep, HandlerStep, Start, Connect, LookupClient,
        Interrupted, Refuse, Signal, StopListening, Close, Exit, Crash, Accept, Acquire,
        AcquireFails, RunStatement, RivalsDoNotStopAStart
  <1> QED BY <1>1, <1>3, PTL DEF Spec
-----------------------------------------------------------------------------
(* Lifetimes.                                                              *)

\* What a process that is up has checked of its configuration.
WithinBounds(cfg) == cfg.access >= MinAccess /\ cfg.refresh >= MinRefresh
Configuration == \A p \in Procs : proc[p].pc # "down" => WithinBounds(proc[p].cfg)

\* The multiplication of a lifetime and its unit.
LEMMA Product ==
  ASSUME NEW a \in Nat, NEW b \in Int, NEW c \in Nat, a <= b
  PROVE  a * c \in Nat /\ b * c \in Nat /\ a * c <= b * c
  <1>1. PICK d \in Nat : b = a + d
    OBVIOUS
  <1>2. b * c = a * c + d * c /\ a * c \in Nat /\ d * c \in Nat
    BY <1>1
  <1> QED BY <1>2

\* A lifetime that fits a Duration is converted to itself.
LEMMA DurationIs ==
  ASSUME NEW n \in Int, NEW unit \in Nat, NEW least \in Nat, least <= n,
         n * unit < Half
  PROVE  Duration(n, unit) = n * unit /\ Duration(n, unit) >= least * unit
  <1>1. PICK x \in Nat : x = n * unit /\ least * unit <= x /\ least * unit \in Nat
    BY Product
  <1>2. (x + Half) % (2 * Half) = x + Half
    <2>1. Half \in Nat \ {0}
      OBVIOUS
    <2>2. PICK m \in Nat \ {0} : m = 2 * Half
      BY <2>1
    <2>3. x + Half \in Nat /\ x + Half < m
      BY <1>1, <2>1, <2>2
    <2>4. (x + Half) % m = x + Half
      BY <2>2, <2>3
    <2> QED BY <2>2, <2>4
  <1> QED BY <1>1, <1>2 DEF Duration

\* A process starts only within the bounds, and keeps what it was started with.
LEMMA ConfigurationStep ==
  ASSUME IInv, Configuration, [Next]_vars
  PROVE  Configuration'
  <1>1. \A p \in Procs : proc[p] \in ProcState
    BY DEF IInv, TypeOK
  <1>2. ASSUME NEW p \in Procs, NEW env \in Environments, Start(p, env)
        PROVE  Configuration'
    <2>1. WithinBounds(LoadConfig(env))
      <3>1. PICK cfg : cfg = [env EXCEPT !.access = envOrInt(@, DefaultAccess),
                                         !.refresh = envOrInt(@, DefaultRefresh)]
        OBVIOUS
      <3>2. LoadConfig(env) = IF cfg.access < MinAccess \/ cfg.refresh < MinRefresh
                              THEN NULL ELSE cfg
        BY <3>1 DEF LoadConfig
      <3>3. LoadConfig(env) = cfg /\ ~ (cfg.access < MinAccess \/ cfg.refresh < MinRefresh)
        BY <1>2, <3>2 DEF Start
      <3>4. cfg \in Environment
        BY <1>2, <3>3, LoadConfigType DEF Start
      <3> QED BY <3>3, <3>4 DEF WithinBounds, Environment
    <2>2. PICK cfg : cfg = LoadConfig(env)
      OBVIOUS
    <2>3. \A q \in Procs : proc'[q] = IF q = p
            THEN [pc |-> "connect", nth |-> starts + 1, cfg |-> cfg, key |-> NULL]
            ELSE proc[q]
      BY <1>2, <2>2 DEF Start, IInv, TypeOK
    <2> QED BY <2>1, <2>2, <2>3 DEF Configuration
  <1>3. ASSUME NEW p \in Procs, NEW pc, Goto(p, pc), proc[p].pc # "down"
        PROVE  Configuration'
    <2>1. PICK q \in ProcState : q = proc[p]
      BY <1>1
    <2>2. proc' = [proc EXCEPT ![p] = [q EXCEPT !.pc = pc]]
      BY <1>3, <2>1 DEF Goto
    <2>3. [q EXCEPT !.pc = pc].cfg = q.cfg
      BY DEF ProcState
    <2> QED BY <1>3, <2>1, <2>2, <2>3 DEF Configuration, IInv, TypeOK
  <1>4. ASSUME NEW p \in Procs, proc' = [proc EXCEPT ![p] = Down]
        PROVE  Configuration'
    BY <1>4 DEF Configuration, Down, IInv, TypeOK
  <1>5. ASSUME NEW p \in Procs, Connect(p) PROVE Configuration'
    <2>1. PICK q \in ProcState : q = proc[p]
      BY <1>1
    <2>2. CASE Refuse(p, TRUE)
      BY <1>4, <2>2 DEF Refuse
    <2>3. ASSUME NEW key, proc' = [proc EXCEPT ![p] = [q EXCEPT !.pc = "lookup", !.key = key]]
          PROVE  Configuration'
      <3>1. [q EXCEPT !.pc = "lookup", !.key = key].cfg = q.cfg /\ q.pc = "connect"
        BY <1>5, <2>1 DEF ProcState, Connect
      <3> QED BY <2>1, <2>3, <3>1 DEF Configuration, IInv, TypeOK
    <2> QED BY <1>5, <2>1, <2>2, <2>3 DEF Connect
  <1>6. ASSUME NEW p \in Procs, StartStep(p) PROVE Configuration'
    BY <1>3, <1>4, <1>5, <1>6
       DEF StartStep, LookupClient, ensureDefaultOAuthClient, Interrupted, Refuse
  <1>7. ASSUME NEW p \in Procs, StopStep(p) \/ Crash(p) PROVE Configuration'
    BY <1>3, <1>4, <1>7 DEF StopStep, StopListening, Close, Exit, Crash, End
  <1>8. CASE UNCHANGED proc
    BY <1>8 DEF Configuration
  <1> QED
    BY <1>2, <1>6, <1>7, <1>8
       DEF Next, vars, pools, Signal, Accept, Acquire, HandlerStep, AcquireFails, RunStatement

\* What a process that is up signs, lives as long as the bounds demand.
LEMMA SignedAlive ==
  ASSUME IInv, Configuration, NEW p \in Procs, proc[p].pc # "down"
  PROVE  LET token == issueJWT(p) IN
         /\ token.cfg.access * Second < Half => token.access >= MinAccess * Second
         /\ token.cfg.refresh * Hour < Half => token.refresh >= MinRefresh * Hour
  <1>1. PICK cfg \in Environment : cfg = proc[p].cfg /\ WithinBounds(cfg)
    BY DEF IInv, Keyed, Ready, Configuration
  <1>2. cfg.access \in Int /\ cfg.refresh \in Int
    BY DEF Environment
  <1>3. /\ cfg.access * Second < Half => Duration(cfg.access, Second) >= MinAccess * Second
        /\ cfg.refresh * Hour < Half => Duration(cfg.refresh, Hour) >= MinRefresh * Hour
    BY <1>1, <1>2, DurationIs DEF WithinBounds
  <1> QED BY <1>1, <1>3 DEF issueJWT

\* A new token is what a process that is up signs.
LEMMA NewToken ==
  ASSUME IInv, [Next]_vars, NEW token \in tokens', token \notin tokens
  PROVE  \E p \in Procs : proc[p].pc # "down" /\ token = issueJWT(p)
  <1>1. PICK i \in Requests : Open(i) /\ token = issueJWT(request[i].proc)
    BY DEF Next, vars, pools, Start, StartStep, Connect, LookupClient,
           ensureDefaultOAuthClient, Interrupted, Signal, StopStep, StopListening, Close,
           Exit, Crash, Accept, Acquire, HandlerStep, AcquireFails, RunStatement,
           Continue, Open
  <1>2. request[i].proc \in Procs /\ Started(request[i].proc)
    BY <1>1 DEF IInv, Handled
  <1> QED BY <1>1, <1>2 DEF Started

\* Every token is valid for the least lifetimes the configuration allows.
THEOREM TokensBornAlive == Spec => []TokensAreBornAlive
  <1>1. Init => Configuration /\ TokensAreBornAlive
    BY DEF Init, Down, Configuration, TokensAreBornAlive
  <1>2. IInv /\ Configuration /\ TokensAreBornAlive /\ [Next]_vars
        => Configuration' /\ TokensAreBornAlive'
    <2> SUFFICES ASSUME IInv, Configuration, TokensAreBornAlive, [Next]_vars
                 PROVE  TokensAreBornAlive'
      BY ConfigurationStep
    <2>1. SUFFICES ASSUME NEW token \in tokens'
                   PROVE  /\ token.cfg.access * Second < Half
                             => token.access >= MinAccess * Second
                          /\ token.cfg.refresh * Hour < Half
                             => token.refresh >= MinRefresh * Hour
      BY DEF TokensAreBornAlive
    <2>2. CASE token \in tokens
      BY <2>2 DEF TokensAreBornAlive
    <2>3. CASE token \notin tokens
      BY <2>3, NewToken, SignedAlive
    <2> QED BY <2>2, <2>3
  <1> QED BY <1>1, <1>2, ProcessInvariant, PTL DEF Spec
=============================================================================
